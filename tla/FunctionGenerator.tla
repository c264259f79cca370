------------------------- MODULE FunctionGenerator -------------------------
(***************************************************************************)
(* What code_generator.cpp writes for a function or a variable e, as        *)
(* tokens.  options: what the user of the generator leaves out of it, for   *)
(* which the token "excluded" is written.                                   *)
(***************************************************************************)
EXTENDS Types

Words(set, order) == SelectSeq(order, LAMBDA w : w \in set)

ScopeName(e) == IF e.scope = <<>> THEN <<>> ELSE FlattenSeq(e.scope)

Friend(e) == IF e.friend THEN <<"friend">> ELSE <<>>

WriteStorageClass(e) == Words(e.storage, <<"static", "extern", "thread_local">>)

\* constexpr wins over consteval.
WriteConstant(e) ==
  IF "constexpr" \in e.specifiers THEN <<"constexpr">>
  ELSE IF "consteval" \in e.specifiers THEN <<"consteval">> ELSE <<>>

WriteVariableBase(type, name, default) ==
  WriteType(type, name) \o (IF default = <<>> THEN <<>> ELSE <<"=">> \o default)

GenerateVariable(e) ==
  WriteStorageClass(e) \o WriteConstant(e) \o WriteVariableBase(e.type, e.name, e.default) \o <<";">>

GenerateMemberVariable(e) ==
  Words(e.specifiers, <<"mutable">>) \o WriteVariableBase(e.type, e.name, e.default) \o <<";">>

GenerateBitfield(e) ==
  Words(e.specifiers, <<"mutable">>) \o WriteVariableBase(e.type, e.name, e.default) \o <<":", "3", ";">>

WriteFunctionParameters(e) ==
  LET param(k) == (IF k = 1 THEN <<>> ELSE <<",">>)
                    \o WriteVariableBase(e.params[k].type, e.params[k].name, e.params[k].default)
  IN  <<"(">> \o FlattenSeq([k \in DOMAIN e.params |-> param(k)]) \o <<")">>

\* The literal true is no condition, an expression is one.
WriteNoexcept(e, options) ==
  IF e.noexcept = <<>> THEN <<>>
  ELSE IF e.noexcept = <<"true">> THEN <<"noexcept">>
  ELSE IF e.noexcept[2] = "false" THEN <<"noexcept", "(", "false", ")">>
  ELSE IF "exclude_noexcept_condition" \in options THEN <<"noexcept", "(", "excluded", ")">>
  ELSE <<"noexcept">> \o e.noexcept

WriteFunctionBody(e, pure) ==
  CASE e.body \in {"declaration", "definition"} -> (IF pure THEN <<"=", "0">> ELSE <<>>) \o <<";">>
    [] e.body = "default" -> <<"=", "default", ";">>
    [] e.body = "delete" -> <<"=", "delete", ";">>

\* A type with a suffix is written behind the parameters.
WriteReturn(e, options) ==
  IF "exclude_return" \in options THEN <<"excluded">>
  ELSE IF IsComplexType(e.type) THEN <<"auto">> ELSE WriteType(e.type, <<>>)

WriteTrailingReturnAlways(e, options) ==
  IF IsComplexType(e.type) THEN <<"->">> \o WriteType(e.type, <<>>) ELSE <<>>

WriteTrailingReturn(e, options) ==
  IF "exclude_return" \notin options /\ IsComplexType(e.type) THEN <<"->">> \o WriteType(e.type, <<>>) ELSE <<>>

GenerateFunction(e, options) ==
  Friend(e) \o WriteStorageClass(e) \o WriteConstant(e) \o WriteReturn(e, options)
    \o ScopeName(e) \o e.name \o e.args \o WriteFunctionParameters(e) \o WriteNoexcept(e, options)
    \o WriteTrailingReturn(e, options) \o WriteFunctionBody(e, FALSE)

WritePrefixVirtual(e) == Words(e.virtual, <<"virtual">>)

\* Definitions are written without.
WriteSuffixVirtual(e) == IF e.defined THEN <<>> ELSE Words(e.virtual, <<"override", "final">>)

WriteCvRefSwapped(e) == e.ref \o CvTokens(e.cv)

WriteCvRef(e) == CvTokens(e.cv) \o e.ref

ConstantOrVirtual(e) == IF WriteConstant(e) = <<>> THEN WritePrefixVirtual(e) ELSE WriteConstant(e)

GenerateMemberFunction(e, options) ==
  Friend(e) \o ConstantOrVirtual(e) \o WriteReturn(e, options) \o ScopeName(e) \o e.name \o e.args
    \o WriteFunctionParameters(e) \o WriteCvRef(e) \o WriteNoexcept(e, options)
    \o WriteTrailingReturn(e, options) \o WriteSuffixVirtual(e) \o WriteFunctionBody(e, "pure" \in e.virtual)

GenerateConversionOp(e, options) ==
  Friend(e) \o Words(e.specifiers, <<"explicit">>) \o ConstantOrVirtual(e) \o ScopeName(e) \o <<"operator">>
    \o (IF "exclude_return" \in options THEN <<"excluded">> ELSE WriteType(e.type, <<>>)) \o <<"(", ")">>
    \o WriteCvRef(e) \o WriteNoexcept(e, options) \o WriteSuffixVirtual(e) \o WriteFunctionBody(e, "pure" \in e.virtual)

GenerateConstructor(e, options) ==
  Friend(e) \o Words(e.specifiers, <<"explicit", "constexpr", "consteval">>) \o ScopeName(e) \o e.name
    \o WriteFunctionParameters(e) \o WriteNoexcept(e, options) \o WriteFunctionBody(e, FALSE)

GenerateDestructor(e, options) ==
  Friend(e) \o WritePrefixVirtual(e) \o ScopeName(e) \o e.name \o <<"(", ")">>
    \o WriteNoexcept(e, options) \o WriteSuffixVirtual(e) \o WriteFunctionBody(e, "pure" \in e.virtual)

GenerateCode(e, options) ==
  CASE e.kind \in {"function", "static"} -> GenerateFunction(e, options)
    [] e.kind = "method" -> GenerateMemberFunction(e, options)
    [] e.kind = "conversion" -> GenerateConversionOp(e, options)
    [] e.kind = "constructor" -> GenerateConstructor(e, options)
    [] e.kind = "destructor" -> GenerateDestructor(e, options)
    [] e.kind = "variable" -> GenerateVariable(e)
    [] e.kind = "member" -> GenerateMemberVariable(e)
    [] e.kind = "bitfield" -> GenerateBitfield(e)
=============================================================================
