--------------------------- MODULE MCSourceText ----------------------------
EXTENDS SourceText

CommentParts == {"decl", "decl //<", "decl/2 //<", "///", "/**/2"}
HeaderParts == {"decl", "include a", "include b", "define M", "undef M"}

\* Every file of three parts or fewer, and longer ones with many comments or headers.
MCFiles ==
    UNION {[1 .. n -> Part] : n \in 0 .. 3}
        \cup [1 .. 5 -> CommentParts] \cup [1 .. 4 -> HeaderParts]
=============================================================================
