------------------------------ MODULE TcManager ------------------------------
(***************************************************************************)
(* tc-firewall/src/tc_manager.py: the `tc` commands that put a firewall    *)
(* rule into the kernel and take it out again, as operators from a set of  *)
(* installed filters to the outcomes a command, or a function that issues  *)
(* several, may have.                                                      *)
(*                                                                         *)
(* A filter is a record [port, prio, match, action, handle, in_hw].  How   *)
(* the kernel numbers filters, and that it refuses a second filter with    *)
(* the same match at one port and priority, is external to the repository. *)
(***************************************************************************)
EXTENDS Integers, FiniteSets, FiniteSetsExt

CONSTANTS
    Faults,         \* what a tc command may do besides work: "error", "timeout"
    HandleReuse,    \* does the kernel hand out the lowest free handle?
    Offload         \* may a new filter be in hardware, in software, or either?

ASSUME FaultAssumption ==
    /\ Faults \subseteq {"error", "timeout"}
    /\ HandleReuse \in BOOLEAN
    /\ Offload \subseteq BOOLEAN /\ Offload # {}

INTERNET_PORT == "pf0vf0"
CLIENT_PORT == "pf0vf3"
Ports == {INTERNET_PORT, CLIENT_PORT}

\* The empty handle string.
NoHandle == 0

\* The filters `tc filter show dev port ingress prio prio` lists.
At(F, port, prio) == {f \in F : f.port = port /\ f.prio = prio}

\* External: the number the kernel gives to a new filter.
NewHandle(F, port, prio) ==
    LET used == {f.handle : f \in At(F, port, prio)}
    IN  IF HandleReuse THEN Min(1..(Cardinality(used) + 1) \ used)
                       ELSE Max({0} \cup used) + 1

\* External: the kernel refuses the match it already has.
Refuses(F, port, prio, match) == \E f \in At(F, port, prio) : f.match = match

\* External: F with one more filter, in hardware or not.
Inserted(F, port, prio, match, action) ==
    {F \cup {[port |-> port, prio |-> prio, match |-> match, action |-> action,
              handle |-> NewHandle(F, port, prio), in_hw |-> hw]} : hw \in Offload}

-----------------------------------------------------------------------------
(* _run_tc: the command does its work, fails (TcError, when check is set), *)
(* or is killed after ten seconds with its work done or not                *)
(* (TimeoutExpired, which no caller but the NAT flushes catches).          *)

Outcome(F, status) == [filters |-> F, status |-> status]

TimedOut(Fs) == IF "timeout" \in Faults THEN {Outcome(F, "timeout") : F \in Fs} ELSE {}

\* A command that turns F into one of Gs.
_run_tc(F, Gs) ==
    {Outcome(G, "ok") : G \in Gs}
    \cup (IF "error" \in Faults THEN {Outcome(F, "error")} ELSE {})
    \cup TimedOut({F} \cup Gs)

\* A command the kernel refuses.
Refused(F) == {Outcome(F, "error")} \cup TimedOut({F})

filter_add(F, port, prio, match, action) ==
    IF Refuses(F, port, prio, match) THEN Refused(F)
    ELSE _run_tc(F, Inserted(F, port, prio, match, action))

-----------------------------------------------------------------------------
(* Adding a rule *)

\* Broken variant: the first handle listed.
get_last_handle_First(F, port, prio) == {Min({f.handle : f \in At(F, port, prio)})}

\* The last handle listed (tc lists them in ascending order), or the empty string
\* if the command fails.
_get_last_handle(F, port, prio) ==
    {Max({NoHandle} \cup {f.handle : f \in At(F, port, prio)})}
    \cup IF "error" \in Faults THEN {NoHandle} ELSE {}

\* check_in_hw searches the whole listing of the priority, whatever the handle.
check_in_hw(F, port, prio) ==
    {\E f \in At(F, port, prio) : f.in_hw} \cup IF "error" \in Faults THEN {FALSE} ELSE {}

\* _add_redirect_rule and _add_drop_rule: add the filter, then look up its handle.
AddFilter(F, port, prio, match, action) ==
    UNION {IF o.status # "ok" THEN {[o |-> o, handle |-> NoHandle]}
           ELSE {[o |-> o, handle |-> h] : h \in _get_last_handle(o.filters, port, prio)}
                \cup {[o |-> late, handle |-> NoHandle] : late \in TimedOut({o.filters})}
           : o \in filter_add(F, port, prio, match, action)}

\* Both directions; if the second fails, the first stays behind.
AddBoth(F, prio, match, action) ==
    UNION {IF a.o.status # "ok" THEN {[o |-> a.o, fwd |-> NoHandle, rev |-> NoHandle]}
           ELSE {[o |-> b.o, fwd |-> a.handle, rev |-> b.handle] :
                    b \in AddFilter(a.o.filters, CLIENT_PORT, prio, match, action)}
           : a \in AddFilter(F, INTERNET_PORT, prio, match, action)}

add_allow_rule(F, prio, match) == AddBoth(F, prio, match, "redirect")

add_deny_rule(F, prio, match) == AddBoth(F, prio, match, "drop")

-----------------------------------------------------------------------------
(* Removing a rule *)

\* Broken variant: any filter of the priority is removed along with the named one.
remove_rule_Priority(F, port, handle, prio) == _run_tc(F, {F \ At(F, port, prio)})

remove_rule(F, port, handle, prio) ==
    LET named == {f \in At(F, port, prio) : f.handle = handle}
    IN  IF named = {} THEN Refused(F) ELSE _run_tc(F, {F \ named})
=============================================================================
