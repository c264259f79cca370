--------------------------- MODULE MCPreprocessRun ---------------------------
(***************************************************************************)
(* Small instances of PreprocessRun.                                       *)
(*                                                                         *)
(* A pipe holds two tokens and every command may write three to stdout or  *)
(* four to stderr, so that the child blocks on a full pipe, a chunk ends   *)
(* inside a line, and data is left in the pipe when the child has ended.   *)
(***************************************************************************)
EXTENDS PreprocessRun, TLC

CONSTANTS newline, missing, odd, other, guard, macro, code

MCToken == {newline, missing, odd, other, guard, macro, code}

Outcomes(outs, errs) == [out : outs, err : errs, success : BOOLEAN]

MCMacroProgram ==
    Outcomes({<<guard, macro, macro>>, <<macro, guard>>}, {<<>>, <<other, newline>>})

MCPreprocessProgram ==
    Outcomes({<<code, macro, code>>},
             {<<>>, <<missing, newline>>, <<other, newline, missing, newline>>,
              <<odd, newline>>})
=============================================================================
