--------------------------- MODULE CodeGenerator ---------------------------
(***************************************************************************)
(* cppast::generate_code for everything but functions and variables, whose *)
(* text is the subject of FunctionGenerator.  A call of generate_code_impl *)
(* that is under way is a frame; it writes its lists one after the other,  *)
(* and what it writes is a sequence of marks: the callbacks on_begin,      *)
(* on_end and on_container_end, the names, separators, brackets and access *)
(* specifiers.                                                             *)
(***************************************************************************)
EXTENDS Visitor

VARIABLES
    options,    \* what do_get_options answers for each entity
    writing,    \* the calls of generate_code_impl, outermost first
    text        \* what was written

generatorVars == <<options, writing, text>>

-----------------------------------------------------------------------------
(* code_generator::output *)

Mark(mark, e) == [mark |-> mark, entity |-> e, access |-> ""]
AccessMark(e, access) == [mark |-> "access", entity |-> e, access |-> access]
Marks(e, marks) == [k \in DOMAIN marks |-> Mark(marks[k], e)]

Excluded(e) == options[e] = "exclude"
OutputTrue(e) == options[e] \notin {"exclude", "custom"}
GenerateDefinition(e) == options[e] # "declaration"

-----------------------------------------------------------------------------
(* The lists an entity writes: how the items are separated and asked for, what comes *)
(* before the first and behind the last.                                             *)

List(how, items, separator, before, behind) ==
  [how |-> how, todo |-> items, separator |-> separator, before |-> before, behind |-> behind]

\* An entity that is written without asking.
Direct(items) == List("direct", items, <<>>, <<>>, <<>>)

\* write_template_parameters
Parameters(e) ==
  IF entities[e].kind \in SpecializationKinds
  THEN List("parameters", ChildrenOf(e, "parameter"), <<",">>, <<"template", "<">>, <<">">>)
  ELSE List("header", ChildrenOf(e, "parameter"), <<",">>, <<>>, <<">">>)

\* cpp_language_linkage::is_block
IsBlock(e) == Len(ChildrenOf(e, "child")) # 1

IsFriended(e) ==
  LET outer == IF Templated(e) THEN Parent(e) ELSE e
  IN Parent(outer) # NoObject /\ entities[Parent(outer)].kind = "friend"

\* Only declared, or asked to be.
OnlyDeclared(e) == ~GenerateDefinition(e) \/ entities[e].declares # NoId

Container(e, separator, before, behind) ==
  List("container", ChildrenOf(e, "child"), separator, before, behind)

FileLists(e) == <<Container(e, <<"newline">>, <<>>, <<"container_end">>)>>
NamespaceLists(e) == <<Container(e, <<"newline">>, <<"{">>, <<"container_end", "}">>)>>
LinkageLists(e) ==
  IF IsBlock(e) THEN <<Container(e, <<"newline">>, <<"{">>, <<"}">>)>> ELSE <<Direct(ChildrenOf(e, "child"))>>
EnumLists(e) == IF OnlyDeclared(e) THEN <<>> ELSE <<Container(e, <<",">>, <<"{">>, <<"container_end", "}">>)>>

ClassLists(e) ==
  IF OnlyDeclared(e) THEN <<>>
  ELSE <<List("bases", ChildrenOf(e, "base"), <<",">>, <<>>, <<>>),
         List("members", ChildrenOf(e, "child"), <<"newline">>, <<"{">>, <<"container_end", "}">>)>>

MacroLists(e) ==
  IF ~Cursor(entities[e].cursor).function THEN <<>>
  ELSE <<List("macro", ChildrenOf(e, "parameter"), <<",">>, <<"(">>, <<")">>)>>

\* The name comes behind the parameters.
TemplateParameterLists(e) == <<List("container", ChildrenOf(e, "parameter"), <<",">>, <<"<">>, <<">", "name">>)>>

TemplateLists(e) ==
  (IF entities[e].kind = "function_specialization" /\ IsFriended(e) THEN <<>> ELSE <<Parameters(e)>>)
    \o <<Direct(ChildrenOf(e, "child"))>>

FriendLists(e) == <<Direct(ChildrenOf(e, "child"))>>

Lists(e) ==
  LET kind == entities[e].kind
  IN CASE kind = "file" -> FileLists(e)
       [] kind = "namespace" -> NamespaceLists(e)
       [] kind = "linkage" -> LinkageLists(e)
       [] kind = "enum" -> EnumLists(e)
       [] kind = "class" -> ClassLists(e)
       [] kind = "macro" -> MacroLists(e)
       [] kind = "template_parameter" -> TemplateParameterLists(e)
       [] kind \in TemplateKinds -> TemplateLists(e)
       [] kind = "friend" -> FriendLists(e)
       [] OTHER -> <<>>

\* What is written of the entity itself, in front of its lists.
Name(e) ==
  IF entities[e].kind \in {"file", "template_parameter"} \cup TemplateKinds \/ (entities[e].kind = "friend" /\ ChildrenOf(e, "child") # <<>>) THEN <<>>
  ELSE (IF entities[e].kind \in {"class", "function"} /\ IsFriended(e) THEN <<Mark("friend", e)>> ELSE <<>>)
         \o <<Mark("name", e)>>

-----------------------------------------------------------------------------
(* generate_code_impl *)

Writing(e, access) ==
  [entity |-> e, access |-> access, lists |-> Lists(e), need_sep |-> FALSE, first |-> TRUE, header |-> FALSE,
   last_access |-> InitialAccess(e), last_written_access |-> InitialAccess(e)]

Begin(e, access) == [Mark("begin", e) EXCEPT !.access = access]

\* The marks written when the first list of a call is reached.
Opening(call) == IF call.lists = <<>> THEN <<>> ELSE Marks(call.entity, Head(call.lists).before)

\* The call for an entity: nothing but on_begin for an entity that is excluded or written by
\* the callback, else the entity and then its lists.
Generate(e, access, before, calls) ==
  IF OutputTrue(e)
  THEN /\ text' = text \o before \o <<Begin(e, access)>> \o Name(e) \o Opening(Writing(e, access))
       /\ writing' = Append(calls, Writing(e, access))
  ELSE /\ text' = text \o before \o <<Begin(e, access)>>
       /\ writing' = calls

Call1 == Last(writing)
Current == Head(Call1.lists)
Item == Head(Current.todo)
InList(how) == mode = "generate" /\ Call1.lists # <<>> /\ Current.how \in how /\ Current.todo # <<>>
Calls(update) == [writing EXCEPT ![Len(writing)] = [update EXCEPT !.lists[1].todo = Tail(@)]]
Separator == IF Call1.need_sep THEN Marks(Call1.entity, Current.separator) ELSE <<>>

Unchanged == UNCHANGED <<mode, options, visitVars, treeVars, parseVars, indexVars>>

StartGenerate(e, o) ==
  /\ mode = "parsed"
  /\ options' = o
  /\ text' = <<>>
  /\ writing' = <<[entity |-> NoObject, lists |-> <<Direct(<<e>>)>>, need_sep |-> FALSE, access |-> "public"]>>
  /\ mode' = "generate"
  /\ UNCHANGED <<visitVars, treeVars, parseVars, indexVars>>

\* The items nobody asks about: what a template, a friend or a linkage is about.
WriteDirect ==
  /\ InList({"direct"})
  /\ Generate(Item, Call1.access, <<>>, Calls(Call1))
  /\ Unchanged

\* write_container, and the loop over template parameters.
SkipExcluded ==
  /\ InList({"container", "macro", "parameters", "header", "members"})
  /\ Excluded(Item) /\ entities[Item].kind # "access_specifier"
  /\ writing' = Calls(Call1) /\ UNCHANGED text
  /\ Unchanged

\* Seeded fault: once an item is written, there is a separator.
WriteItemSeparated ==
  /\ InList({"container", "macro"})
  /\ ~Excluded(Item)
  /\ Generate(Item, IF Current.how = "macro" THEN "public" ELSE Call1.access, Marks(Call1.entity, Current.separator),
              Calls([Call1 EXCEPT !.need_sep = OutputTrue(Item)]))
  /\ Unchanged

WriteItem ==
  /\ InList({"container", "macro"})
  /\ ~Excluded(Item)
  /\ Generate(Item, IF Current.how = "macro" THEN "public" ELSE Call1.access, Separator,
              Calls([Call1 EXCEPT !.need_sep = OutputTrue(Item)]))
  /\ Unchanged

\* A header that is hidden when there are no parameters comes with the first of them.
WriteParameter ==
  /\ InList({"parameters", "header"})
  /\ ~Excluded(Item)
  /\ Generate(Item, "public",
              IF Current.how = "header" /\ ~Call1.header THEN Marks(Call1.entity, <<"template", "<">>) ELSE Separator,
              Calls([Call1 EXCEPT !.need_sep = OutputTrue(Item), !.header = TRUE]))
  /\ Unchanged

\* write_bases: every base is generated, the excluded ones as well.
WriteBase ==
  /\ InList({"bases"})
  /\ LET access == Cursor(entities[Item].cursor).access
         begins == Call1.first /\ ~Excluded(Item)
     IN Generate(Item, access, IF begins THEN Marks(Call1.entity, <<":">>) ELSE Separator,
                 Calls([Call1 EXCEPT !.need_sep = OutputTrue(Item), !.first = @ /\ ~begins]))
  /\ Unchanged

\* The members of a class: a specifier only sets the access, which is written in front of
\* the next member that is.
UpdateAccess ==
  /\ InList({"members"})
  /\ entities[Item].kind = "access_specifier"
  /\ writing' = Calls([Call1 EXCEPT !.last_access = UpdatedAccess(@, Item)])
  /\ UNCHANGED text
  /\ Unchanged

\* Seeded fault: what was written is forgotten.
WriteMemberOnce ==
  /\ InList({"members"})
  /\ ~Excluded(Item) /\ entities[Item].kind # "access_specifier"
  /\ LET changed == Call1.last_access # Call1.last_written_access
     IN Generate(Item, Call1.last_access,
                 Separator \o (IF changed THEN <<AccessMark(Call1.entity, Call1.last_access)>> ELSE <<>>),
                 Calls([Call1 EXCEPT !.need_sep = OutputTrue(Item)]))
  /\ Unchanged

WriteMember ==
  /\ InList({"members"})
  /\ ~Excluded(Item) /\ entities[Item].kind # "access_specifier"
  /\ LET changed == Call1.last_access # Call1.last_written_access
     IN Generate(Item, Call1.last_access,
                 Separator \o (IF changed THEN <<AccessMark(Call1.entity, Call1.last_access)>> ELSE <<>>),
                 Calls([Call1 EXCEPT !.need_sep = OutputTrue(Item), !.last_written_access = Call1.last_access]))
  /\ Unchanged

\* What ends a list depends on what was written of it: a file that is empty gets a newline
\* and no container end, a variadic macro an ellipsis, a hidden header no bracket.
Ending ==
  LET marks ==
        CASE entities[Call1.entity].kind = "file" /\ ~Call1.need_sep -> <<"end_of_line">>
          [] Current.how = "macro" -> (IF ~Cursor(entities[Call1.entity].cursor).variadic THEN <<>>
                                       ELSE IF Call1.need_sep THEN <<",", "...">> ELSE <<"...">>) \o Current.behind
          [] Current.how = "header" /\ ~Call1.header -> <<>>
          [] OTHER -> Current.behind
  IN Marks(Call1.entity, marks)

FinishList ==
  /\ mode = "generate" /\ Len(writing) > 1 /\ Call1.lists # <<>> /\ Current.todo = <<>>
  /\ LET call == [Call1 EXCEPT !.lists = Tail(@), !.need_sep = FALSE]
     IN /\ text' = text \o Ending \o Opening(call)
        /\ writing' = [writing EXCEPT ![Len(writing)] = call]
  /\ Unchanged

\* Seeded fault: on_end is called for a friend only if its entity was written.
FinishEntitySilently ==
  /\ mode = "generate" /\ Len(writing) > 1 /\ Call1.lists = <<>>
  /\ text' = IF entities[Call1.entity].kind = "friend" THEN text ELSE Append(text, Mark("end", Call1.entity))
  /\ writing' = Front(writing)
  /\ Unchanged

FinishEntity ==
  /\ mode = "generate" /\ Len(writing) > 1 /\ Call1.lists = <<>>
  /\ text' = Append(text, Mark("end", Call1.entity))
  /\ writing' = Front(writing)
  /\ Unchanged

FinishGenerate ==
  /\ mode = "generate" /\ Len(writing) = 1 /\ Current.todo = <<>>
  /\ mode' = "generated"
  /\ writing' = <<>>
  /\ UNCHANGED <<text, options, visitVars, treeVars, parseVars, indexVars>>

GenerateNext ==
  \/ WriteDirect \/ SkipExcluded \/ WriteItem \/ WriteParameter \/ WriteBase
  \/ UpdateAccess \/ WriteMember \/ FinishList \/ FinishEntity \/ FinishGenerate
=============================================================================
