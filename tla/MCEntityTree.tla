---------------------------- MODULE MCEntityTree ----------------------------
EXTENDS EntityTree

NoType == [kind |-> "", id |-> ""]

C(kind, parent, usr, line) ==
  [kind |-> kind, parent |-> parent, usr |-> usr, line |-> line, bad |-> "", definition |-> TRUE, struct |-> FALSE,
   access |-> "", nested |-> FALSE, type |-> NoType, target |-> 0, function |-> FALSE, variadic |-> FALSE]

Declared == [definition |-> FALSE]
Struct == [struct |-> TRUE]
Access(access) == [access |-> access]
Type(kind, id) == [type |-> [kind |-> kind, id |-> id]]
Target(c) == [target |-> c]

Comment(line) == [line |-> line, eol |-> FALSE]
EndOfLine(line) == [line |-> line, eol |-> TRUE]

File(comments, cursors) == [path |-> "file", comments |-> comments, cursors |-> cursors]

\* Includes and macros between declarations.
Preprocessed == File(<<Comment(1), Comment(4), Comment(6), EndOfLine(9), Comment(10), Comment(13)>>,
  <<C("include", 0, "", 2),
    [function |-> TRUE, variadic |-> TRUE] @@ C("macro", 0, "", 3),
    C("macro_parameter", 2, "", 3), C("macro_parameter", 2, "", 3),
    C("variable", 0, "v", 5),
    C("include", 0, "", 7),
    C("macro", 0, "", 8),
    Declared @@ C("function", 0, "f", 9),
    C("concept", 0, "t", 11),
    [function |-> TRUE] @@ C("macro", 0, "", 12)>>)

Namespaces == File(<<Comment(1), Comment(2), Comment(6)>>,
  <<C("namespace", 0, "N", 2),
    [nested |-> TRUE] @@ C("namespace", 1, "M", 2),
    Declared @@ C("variable", 2, "v", 3),
    C("semicolon", 2, "", 3),
    C("namespace", 0, "N", 5),
    C("variable", 5, "v", 7),
    C("namespace_alias", 0, "a", 8), C("using_directive", 0, "", 9)>>)

Classes == File(<<Comment(1), Comment(6)>>,
  <<Struct @@ C("class", 0, "A", 2),
    C("class", 0, "B", 3),
    Access("public") @@ Type("class", "A") @@ C("base", 2, "", 3),
    Access("private") @@ Type("class", "N") @@ C("base", 2, "", 3),
    C("member_variable", 2, "v", 4),
    Access("public") @@ C("access_specifier", 2, "", 5),
    Declared @@ C("function", 2, "f", 7),
    Access("protected") @@ C("access_specifier", 2, "", 8),
    Access("private") @@ C("access_specifier", 2, "", 9),
    C("type_alias", 2, "a", 10)>>)

Forward == File(<<>>,
  <<Declared @@ C("class", 0, "A", 1),
    Declared @@ C("enum", 0, "E", 2),
    C("class", 0, "A", 3),
    Declared @@ C("function", 3, "f", 4),
    Access("public") @@ C("access_specifier", 3, "", 5),
    Declared @@ C("variable", 3, "v", 6),
    C("function", 0, "f", 7),
    C("enum", 0, "E", 8), C("enum_value", 8, "x", 9), C("enum_value", 8, "y", 10),
    Declared @@ C("class", 0, "A", 11)>>)

Templates == File(<<Comment(1), Comment(6)>>,
  <<Declared @@ C("class_template", 0, "T", 2), C("type_parameter", 1, "x", 2),
    C("class_template", 0, "T", 3), C("type_parameter", 3, "y", 3),
    C("function", 3, "f", 4),
    Access("public") @@ C("access_specifier", 3, "", 5),
    C("function_template", 3, "g", 7), C("non_type_parameter", 7, "p", 7),
    C("class_specialization", 0, "S", 8), C("reference", 9, "", 8), C("member_variable", 9, "v", 8)>>)

Parameters3 == File(<<Comment(1)>>,
  <<C("function_template", 0, "g", 2), C("type_parameter", 1, "x", 2),
    C("template_parameter", 1, "q", 2), C("type_parameter", 3, "y", 2), C("non_type_parameter", 3, "p", 2),
    C("function_specialization", 0, "h", 3), C("attribute", 0, "", 4)>>)

Bases == File(<<Comment(1)>>,
  <<C("alias_template", 0, "z", 2), Type("instantiation", "T") @@ C("type_alias", 1, "", 2), C("type_parameter", 1, "x", 2),
    C("class_template", 0, "T", 3), C("type_parameter", 4, "y", 3),
    Access("private") @@ Type("parameter", "y") @@ C("base", 4, "", 3),
    Type("instantiation", "z") @@ C("type_alias", 0, "a", 4),
    Type("class", "a") @@ C("type_alias", 0, "b", 5),
    Struct @@ C("class", 0, "B", 6),
    Access("public") @@ Type("class", "b") @@ C("base", 9, "", 6),
    Access("private") @@ Type("instantiation", "T") @@ C("base", 9, "", 6)>>)

QualifiedBase == File(<<>>,
  <<C("class", 0, "A", 1),
    Type("qualified", "A") @@ C("type_alias", 0, "a", 2),
    C("class", 0, "B", 3), Access("public") @@ Type("class", "a") @@ C("base", 3, "", 3)>>)

MemberOfSpecialization == File(<<>>,
  <<C("class_specialization", 0, "S", 1), C("class", 1, "A", 2), C("member_variable", 1, "", 3),
    C("class", 0, "B", 4), Access("public") @@ Type("class", "A") @@ C("base", 4, "", 4)>>)

Friends == File(<<Comment(4), Comment(6)>>,
  <<Struct @@ C("class", 0, "A", 1),
    C("class", 0, "B", 2),
    C("friend", 2, "", 3), Target(1) @@ C("type_ref", 3, "", 3),
    C("friend", 2, "", 5), Declared @@ C("function", 5, "f", 5),
    C("friend", 2, "", 7), Declared @@ C("class_template", 7, "T", 7), C("type_parameter", 8, "x", 7),
    C("function", 0, "f", 8)>>)

FriendTypes == File(<<>>,
  <<C("namespace", 0, "N", 1), C("class", 1, "A", 1),
    C("type_alias", 0, "a", 2),
    C("class_template", 0, "T", 3), C("type_parameter", 4, "x", 3),
    C("friend", 4, "", 4), C("namespace_ref", 6, "", 4), Target(2) @@ C("type_ref", 6, "", 4),
    C("friend", 4, "", 5), Target(5) @@ C("type_ref", 9, "", 5),
    C("friend", 4, "", 6), C("template_ref", 11, "", 6), C("expression", 11, "", 6),
    C("friend", 4, "", 7), Target(3) @@ C("type_ref", 14, "", 7)>>)

FriendOfNothing == File(<<>>, <<C("class", 0, "A", 1), C("friend", 1, "", 2), C("namespace_ref", 2, "", 2)>>)

FriendSpecialization == File(<<Comment(2)>>,
  <<C("class", 0, "A", 1), C("friend", 1, "", 3), C("function_specialization", 2, "h", 3), C("member_variable", 1, "v", 4)>>)

Linkages == File(<<Comment(1), Comment(4)>>,
  <<C("linkage", 0, "", 2),
    C("linkage", 0, "", 3), C("variable", 2, "v", 3),
    C("linkage", 0, "", 5), C("enum", 4, "E", 6), C("enum_value", 5, "x", 7), C("static_assert", 4, "", 8),
    C("unexposed", 0, "u", 9), C("unexposed", 0, "", 10), C("using_declaration", 0, "", 10)>>)

Whole ==
  {Preprocessed, Namespaces, Classes, Forward, Templates, Parameters3, Bases, QualifiedBase, MemberOfSpecialization,
   Friends, FriendTypes, FriendOfNothing, FriendSpecialization, Linkages}

\* One cursor is not what the parser expects.
Bads(kind) ==
  (IF kind \in {"base"} \cup ParameterKinds THEN {"part"} ELSE {})
    \cup (IF kind \in LeafKinds \cup ContainerKinds \cup ClassKinds \cup TemplateKinds THEN {"declaration"} ELSE {})
    \cup (IF kind \in SpecializationKinds THEN {"arguments"} ELSE {})
    \cup (IF kind \in {"function"} \cup FunctionTemplateKinds THEN {"suffix"} ELSE {})

Broken(f) ==
  UNION {{[f EXCEPT !.cursors[c].bad = bad] : bad \in Bads(f.cursors[c].kind)} : c \in DOMAIN f.cursors}

MCFiles == Whole \cup UNION {Broken(f) : f \in Whole}

MCIds == {"file"} \cup UNION {{f.cursors[c].usr : c \in DOMAIN f.cursors} : f \in Whole}
MCObjects == 1 .. 20
=============================================================================
