------------------------------ MODULE Visitor ------------------------------
(***************************************************************************)
(* cppast::visit: one entity and all below it are shown to a callback,     *)
(* containers twice.  Between two calls of the callback the state is the   *)
(* stack of handle_container calls.  The callback answers as it likes; a   *)
(* filter may stand in front of it.                                        *)
(***************************************************************************)
EXTENDS EntityReferences

CONSTANTS
    MaxRefusals     \* bound on the answers false of one visit (model checking only)

VARIABLES
    open,           \* the calls of handle_container, outermost first
    events,         \* what the callback was told so far
    filter,         \* the answers of the filter
    refused         \* the events the callback answered with false

visitVars == <<open, events, filter, refused>>

-----------------------------------------------------------------------------
VisitedContainers ==
  {"file", "linkage", "namespace", "enum", "class"} \cup TemplateKinds

IsContainer(e) == entities[e].kind \in VisitedContainers

InitialAccess(e) ==
  IF entities[e].kind = "class" /\ ~Cursor(entities[e].cursor).struct THEN "private" ELSE "public"

UpdatedAccess(access, e) ==
  IF entities[e].kind = "access_specifier" THEN Cursor(entities[e].cursor).access ELSE access

Call(e, access, last, children) ==
  [entity |-> e, access |-> access, last |-> last, child_access |-> InitialAccess(e), todo |-> children]

Event(type, call) == [type |-> type, entity |-> call.entity, access |-> call.access, last |-> call.last]

\* The answers the callback gives, through the filter.
Refusals == IF Cardinality(refused) < MaxRefusals THEN BOOLEAN ELSE {TRUE}
Answers(type, e) ==
  CASE filter[e] = "include" -> Refusals
    [] filter[e] = "exclude_and_children" /\ type = "enter" -> {FALSE}
    [] OTHER -> {TRUE}

\* The callback is called, unless the filter has answered for it.
Tell(event, answer) ==
  IF filter[event.entity] = "include"
  THEN /\ events' = Append(events, event)
       /\ refused' = IF answer THEN refused ELSE refused \cup {Len(events) + 1}
  ELSE UNCHANGED <<events, refused>>

\* visit() of an entity: a leaf is one call, a container begins.
Visit(call, calls) ==
  \E type \in {IF IsContainer(call.entity) THEN "enter" ELSE "leaf"} :
    \E answer \in Answers(type, call.entity) :
      /\ Tell(Event(type, call), answer)
      /\ IF type = "enter"
         THEN open' = Append(calls, [call EXCEPT !.todo = IF answer THEN ChildrenOf(call.entity, "child") ELSE <<>>])
         ELSE open' = IF answer THEN calls ELSE <<>>
      /\ mode' = IF open' = <<>> THEN "visited" ELSE "visit"

StartVisit(e, f) ==
  /\ mode = "parsed"
  /\ filter' = f
  /\ events' = <<>> /\ refused' = {}
  /\ open' = <<Call(e, "public", FALSE, <<>>)>>
  /\ mode' = "visit_root"
  /\ UNCHANGED <<treeVars, parseVars, indexVars>>

VisitRoot ==
  /\ mode = "visit_root"
  /\ Visit(Last(open), <<>>)
  /\ UNCHANGED <<filter, treeVars, parseVars, indexVars>>

\* Seeded fault: the specifier itself is shown with the access before it.
VisitChildBeforeUpdate ==
  /\ mode = "visit" /\ Last(open).todo # <<>>
  /\ LET call == Last(open)
         child == Head(call.todo)
         access == UpdatedAccess(call.child_access, child)
     IN Visit(Call(child, call.child_access, Tail(call.todo) = <<>>, <<>>),
              [open EXCEPT ![Len(open)].todo = Tail(@), ![Len(open)].child_access = access])
  /\ UNCHANGED <<filter, treeVars, parseVars, indexVars>>

VisitChild ==
  /\ mode = "visit" /\ Last(open).todo # <<>>
  /\ LET call == Last(open)
         child == Head(call.todo)
         access == UpdatedAccess(call.child_access, child)
     IN Visit(Call(child, access, Tail(call.todo) = <<>>, <<>>),
              [open EXCEPT ![Len(open)].todo = Tail(@), ![Len(open)].child_access = access])
  /\ UNCHANGED <<filter, treeVars, parseVars, indexVars>>

\* Seeded fault: a container whose children were skipped is not left.
LeaveContainerWithChildren ==
  /\ mode = "visit" /\ Last(open).todo = <<>>
  /\ open' = Front(open)
  /\ IF \E k \in refused : events[k].entity = Last(open).entity THEN UNCHANGED <<events, refused>>
     ELSE Tell(Event("exit", Last(open)), TRUE)
  /\ mode' = IF open' = <<>> THEN "visited" ELSE "visit"
  /\ UNCHANGED <<filter, treeVars, parseVars, indexVars>>

\* The exit event; an answer false aborts all the calls.
LeaveContainer ==
  /\ mode = "visit" /\ Last(open).todo = <<>>
  /\ \E answer \in Answers("exit", Last(open).entity) :
       /\ Tell(Event("exit", Last(open)), answer)
       /\ open' = IF answer THEN Front(open) ELSE <<>>
  /\ mode' = IF open' = <<>> THEN "visited" ELSE "visit"
  /\ UNCHANGED <<filter, treeVars, parseVars, indexVars>>

VisitNext == VisitRoot \/ VisitChild \/ LeaveContainer
=============================================================================
