---------------------------- MODULE EventLoopOps ----------------------------
(***************************************************************************)
(* EventLoop (libsponge/util/eventloop.{hh,cc}): rules that are polled     *)
(* while they are interested.  The rules are parameters: a rule's          *)
(* predicates and its cancellation are operators on the world w, the part  *)
(* of the program that they read and change.                               *)
(***************************************************************************)
EXTENDS Naturals

CONSTANTS Reads(_),          \* Direction::In, otherwise Direction::Out
          FdEof(_, _),       \* fd.eof() of a rule's descriptor
          FdClosed(_, _),    \* fd.closed()
          Interest(_, _),
          Cancel(_, _)

Gone(r, w) == (Reads(r) /\ FdEof(r, w)) \/ FdClosed(r, w)

\* One iteration of the loop of lines 67-89: a rule at the end of what it reads, or on
\* a closed descriptor, is cancelled and erased; each of the others is asked whether
\* it is interested, in the world its predecessors left.
AskRule(acc, r) ==
    IF r \notin acc.rules THEN acc
    ELSE IF Gone(r, acc.world)
    THEN [acc EXCEPT !.world = Cancel(r, @), !.rules = @ \ {r}]
    ELSE [acc EXCEPT !.asked = @ \cup {x \in {r} : Interest(x, acc.world)}]

\* Both event loops of the program have four rules.
SetUp(rules, w) ==
    LET start == [world |-> w, rules |-> rules, asked |-> {}]
    IN  AskRule(AskRule(AskRule(AskRule(start, 1), 2), 3), 4)

\* The callbacks are called in the order of the rules.
IsFirst(r, todo) == r \in todo /\ \A q \in todo : r <= q

\* Mutant: a hangup cancels nothing.
Serve_IgnoresHangup(r, w, ready, c) ==
    IF ready
    THEN [world |-> c.world, erased |-> FALSE,
          thrown |-> c.thrown \/ (~c.serviced /\ Interest(r, c.world))]
    ELSE [world |-> w, erased |-> FALSE, thrown |-> FALSE]

\* Lines 109-142, for a rule that was asked for: it is ready, or poll() reported a
\* hangup alone, which cancels it.  c is the outcome of its callback: the new world,
\* whether it moved the service count of its descriptor (a read or a write was
\* registered) and whether it threw.  A callback that neither serves its descriptor
\* nor loses interest is a busy wait.
Serve(r, w, ready, c) ==
    IF ready
    THEN [world |-> c.world, erased |-> FALSE,
          thrown |-> c.thrown \/ (~c.serviced /\ Interest(r, c.world))]
    ELSE [world |-> Cancel(r, w), erased |-> TRUE, thrown |-> FALSE]
=============================================================================
