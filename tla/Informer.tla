------------------------------ MODULE Informer ------------------------------
(***************************************************************************)
(* The informers of the agent: several list informers share one watch      *)
(* stream (internal/client/custom_informer.go, custom_watch.go).           *)
(*                                                                         *)
(* The agent's loop calls Execute of one informer at a time; a goroutine   *)
(* per stream receives the events and hands them to the informers, each of *)
(* which has a lock of its own; the loader's lock covers `stream' alone.   *)
(* Execute starts the stream if there is none and waits for the bookmark   *)
(* channel, closed when the informer has the whole list.                   *)
(*                                                                         *)
(* A table is the number of its rows, all of them still there: WatchStream *)
(* has deletions, revisions out of order and what the client makes of      *)
(* them.  The end of the agent's context is not modelled.                  *)
(***************************************************************************)
EXTENDS Naturals, Sequences, FiniteSets

CONSTANTS Kinds,       \* the informers, one for each kind
          MaxRows,     \* rows of a table
          MaxWire,     \* events on their way
          MaxResets,   \* streams cut by the proxy in front of the server
          MaxFailures  \* requests refused, streams ended, errors of the server

ASSUME InformerAssumption ==
    {MaxRows, MaxWire, MaxResets, MaxFailures} \subseteq Nat

VARIABLES written,    \* written[k]: the rows of the table
          server,     \* the watch request served: [up, gt, tail]
          wire,       \* events sent and not received
          stream,     \* the loader has a stream
          run,        \* the receiving goroutine: [at, todo]
          restarting, \* goroutines about to start the stream again
          inf,        \* inf[k]: the informer
          changed,    \* kinds with a pending signal for the agent's loop
          main,       \* the loop: [at, kind, tailed]
          got,        \* got[k]: what the last Execute returned
          shown,      \* shown[k]: the rows it returned
          crashed, resets, failures

client == <<stream, run, restarting, inf, changed, crashed>>
loop == <<main, got, shown>>
vars == <<written, server, wire, client, loop, resets, failures>>

Idle == [at |-> "idle", kind |-> {}, tailed |-> FALSE]
Off == [at |-> "off", todo |-> {}]
Down == [up |-> FALSE, gt |-> [k \in Kinds |-> 0], tail |-> [k \in Kinds |-> FALSE]]

Init == /\ written \in [Kinds -> 0..MaxRows]
        /\ server = Down /\ wire = <<>> /\ stream = FALSE /\ run = Off
        /\ restarting = 0
        /\ inf = [k \in Kinds |-> [err |-> FALSE, closed |-> FALSE, gt |-> 0,
                                   tail |-> FALSE, data |-> {}]]
        /\ changed = {} /\ main = Idle /\ crashed = FALSE
        /\ got = [k \in Kinds |-> "nothing"] /\ shown = [k \in Kinds |-> {}]
        /\ resets = 0 /\ failures = 0

Fault == failures < MaxFailures /\ failures' = failures + 1

-----------------------------------------------------------------------------
(* What an event does to the informer i; closing a closed channel panics.   *)

Panics(i) == ~i.tail /\ i.closed
setError(i) == [i EXCEPT !.err = TRUE, !.closed = @ \/ ~i.tail]

(* A change clears the error: the adaptor's result is assigned to it.       *)
Change(i, rev) == IF rev < i.gt THEN [i EXCEPT !.err = FALSE]
                  ELSE [i EXCEPT !.err = FALSE, !.gt = rev, !.data = @ \cup {rev}]
Tailed(i) == [i EXCEPT !.tail = TRUE, !.closed = TRUE]

(* start of the loader, for goroutine g: with a stream it does nothing; the *)
(* request says where each informer stands; when it is refused every        *)
(* informer is told.                                                        *)
Connect == /\ server' = [up |-> TRUE, gt |-> [k \in Kinds |-> inf[k].gt],
                         tail |-> [k \in Kinds |-> inf[k].tail]]
           /\ wire' = <<>> /\ stream' = TRUE
           /\ run' = [at |-> "receive", todo |-> {}]
           /\ UNCHANGED <<inf, changed, crashed, failures>>

Refused == /\ Fault
           /\ inf' = [k \in Kinds |-> setError(inf[k])]
           /\ changed' = Kinds
           /\ crashed' = \E k \in Kinds : Panics(inf[k])
           /\ UNCHANGED <<server, wire, stream, run>>

start == IF stream
         THEN UNCHANGED <<server, wire, stream, run, inf, changed, crashed, failures>>
         ELSE Connect \/ Refused

-----------------------------------------------------------------------------
(* The agent's loop.                                                        *)

(* Execute of informer k, after a signal or at a poll: the state of a       *)
(* failed attempt is put away under the informer's lock.                    *)
Execute(k) ==
    /\ ~crashed /\ main.at = "idle"
    /\ main' = [at |-> "start", kind |-> {k}, tailed |-> inf[k].tail]
    /\ inf' = IF inf[k].err
              THEN [inf EXCEPT ![k].err = FALSE, ![k].closed = FALSE] ELSE inf
    /\ changed' \in {changed, changed \ {k}}
    /\ UNCHANGED <<written, server, wire, stream, run, restarting, got, shown,
                   crashed, resets, failures>>

ExecuteStart ==
    /\ ~crashed /\ main.at = "start" /\ start
    /\ main' = [main EXCEPT !.at = "wait"]
    /\ UNCHANGED <<written, restarting, got, shown, resets>>

(* Mutant: a list that is not whole is not waited for.                      *)
ExecuteNoWait ==
    /\ ~crashed /\ main.at = "wait" /\ main' = [main EXCEPT !.at = "return"]
    /\ UNCHANGED <<written, server, wire, client, got, shown, resets, failures>>

ExecuteWait ==
    /\ ~crashed /\ main.at = "wait"
    /\ \E k \in main.kind : main.tailed \/ inf[k].closed
    /\ main' = [main EXCEPT !.at = "return"]
    /\ UNCHANGED <<written, server, wire, client, got, shown, resets, failures>>

Result(i) == IF i.err THEN "error" ELSE IF i.tail THEN "list" ELSE "partial"

ExecuteReturn ==
    /\ ~crashed /\ main.at = "return"
    /\ \E k \in main.kind : /\ got' = [got EXCEPT ![k] = Result(inf[k])]
                            /\ shown' = [shown EXCEPT ![k] = inf[k].data]
    /\ main' = Idle
    /\ UNCHANGED <<written, server, wire, client, resets, failures>>

-----------------------------------------------------------------------------
(* The goroutine that receives.                                             *)

Receiving(type) == /\ ~crashed /\ run.at = "receive" /\ wire # <<>>
                   /\ Head(wire).type = type /\ wire' = SubSeq(wire, 2, Len(wire))
                   /\ UNCHANGED <<written, server, stream, restarting, loop,
                                  resets, failures>>

Notify(i, k) == IF i.tail THEN changed \cup {k} ELSE changed

HandleChange ==
    /\ Receiving("change")
    /\ LET k == Head(wire).kind
       IN  /\ inf' = [inf EXCEPT ![k] = Change(@, Head(wire).rev)]
           /\ changed' = IF Head(wire).rev < inf[k].gt THEN changed
                         ELSE Notify(inf[k], k)
    /\ UNCHANGED <<run, crashed>>

HandleTail ==
    /\ Receiving("tail")
    /\ LET k == Head(wire).kind
       IN  /\ inf' = [inf EXCEPT ![k] = IF @.tail THEN @ ELSE Tailed(@)]
           /\ changed' = IF inf[k].tail THEN changed ELSE changed \cup {k}
           /\ crashed' = Panics(inf[k])
    /\ UNCHANGED run

(* The server's error event has no kind: no informer hears of it.           *)
ReceiveErrorEvent == /\ Receiving("error")
                     /\ run' = [at |-> "end", todo |-> {}]
                     /\ UNCHANGED <<inf, changed, crashed>>

(* The stream was cut in the middle of a chunk: io.ErrUnexpectedEOF.        *)
ReceiveReset == /\ Receiving("reset")
                /\ run' = [at |-> "endToRestart", todo |-> {}]
                /\ UNCHANGED <<inf, changed, crashed>>

(* Any other error goes to every informer, one after the other.             *)
ReceiveFailure == /\ Receiving("failure")
                  /\ run' = [at |-> "handle", todo |-> Kinds]
                  /\ UNCHANGED <<inf, changed, crashed>>

HandleFailure(k) ==
    /\ ~crashed /\ run.at = "handle" /\ k \in run.todo
    /\ inf' = [inf EXCEPT ![k] = setError(@)]
    /\ changed' = changed \cup {k}
    /\ crashed' = Panics(inf[k])
    /\ run' = IF run.todo = {k} THEN [at |-> "end", todo |-> {}]
              ELSE [run EXCEPT !.todo = @ \ {k}]
    /\ UNCHANGED <<written, server, wire, stream, restarting, loop, resets, failures>>

(* Mutants: the loader keeps the stream that ended; it waits for the next   *)
(* Execute to start another.                                                *)
EndRunKept == /\ ~crashed /\ run.at \in {"end", "endToRestart"}
              /\ run' = Off /\ server' = Down /\ wire' = <<>>
              /\ UNCHANGED <<written, stream, restarting, inf, changed, crashed, loop,
                             resets, failures>>
EndRunForGood == /\ ~crashed /\ run.at \in {"end", "endToRestart"}
                 /\ stream' = FALSE /\ run' = Off /\ server' = Down /\ wire' = <<>>
                 /\ UNCHANGED <<written, restarting, inf, changed, crashed, loop,
                                resets, failures>>

(* The deferred part: the stream is given up, and started again after a     *)
(* reset, if the loop has not in the meantime.                              *)
EndRun == /\ ~crashed /\ run.at \in {"end", "endToRestart"}
          /\ stream' = FALSE /\ run' = Off /\ server' = Down /\ wire' = <<>>
          /\ restarting' = restarting + (IF run.at = "endToRestart" THEN 1 ELSE 0)
          /\ UNCHANGED <<written, inf, changed, crashed, loop, resets, failures>>

Restart == /\ ~crashed /\ restarting > 0 /\ restarting' = restarting - 1
           /\ start
           /\ UNCHANGED <<written, loop, resets>>

-----------------------------------------------------------------------------
(* The server and the network.                                              *)

Write(k) == /\ written[k] < MaxRows
            /\ written' = [written EXCEPT ![k] = @ + 1]
            /\ UNCHANGED <<server, wire, client, loop, resets, failures>>

Sending == /\ ~crashed /\ server.up /\ Len(wire) < MaxWire
           /\ UNCHANGED <<written, client, loop, resets>>

SendChange(k) ==
    /\ Sending /\ server.gt[k] < written[k]
    /\ server' = [server EXCEPT !.gt[k] = @ + 1]
    /\ wire' = Append(wire, [type |-> "change", kind |-> k, rev |-> server'.gt[k]])
    /\ UNCHANGED failures

SendTail(k) ==
    /\ Sending /\ server.gt[k] = written[k] /\ ~server.tail[k]
    /\ server' = [server EXCEPT !.tail[k] = TRUE]
    /\ wire' = Append(wire, [type |-> "tail", kind |-> k, rev |-> 0])
    /\ UNCHANGED failures

SendError == /\ Sending /\ Fault
             /\ server' = [server EXCEPT !.up = FALSE]
             /\ wire' = Append(wire, [type |-> "error", kind |-> {}, rev |-> 0])

(* What is on its way is lost from some event on.                           *)
Cut(type) == \E n \in 0..Len(wire) :
                wire' = Append(SubSeq(wire, 1, n), [type |-> type, kind |-> {}, rev |-> 0])

Break == /\ ~crashed /\ server.up /\ server' = [server EXCEPT !.up = FALSE]
         /\ \/ /\ resets < MaxResets /\ resets' = resets + 1
               /\ Cut("reset") /\ UNCHANGED failures
            \/ Fault /\ Cut("failure") /\ UNCHANGED resets
         /\ UNCHANGED <<written, client, loop>>

-----------------------------------------------------------------------------

Receive == \/ HandleChange \/ HandleTail
           \/ ReceiveErrorEvent \/ ReceiveReset \/ ReceiveFailure
           \/ \E k \in Kinds : HandleFailure(k)
           \/ EndRun

Next == \/ \E k \in Kinds : \/ Execute(k) \/ Write(k)
                            \/ SendChange(k) \/ SendTail(k)
        \/ ExecuteStart \/ ExecuteWait \/ ExecuteReturn
        \/ Receive \/ Restart \/ SendError \/ Break

(* The loop takes up each informer once, as the agent starts, and again when *)
(* it is signalled (it polls them too, which nothing here relies on);        *)
(* goroutines run; the server sends what it has.                             *)
Fairness == /\ \A k \in Kinds :
                  /\ SF_vars((k \in changed \/ got[k] = "nothing") /\ Execute(k))
                  /\ WF_vars(SendChange(k)) /\ WF_vars(SendTail(k))
            /\ WF_vars(ExecuteStart) /\ WF_vars(ExecuteWait) /\ WF_vars(ExecuteReturn)
            /\ WF_vars(Receive) /\ WF_vars(Restart)

Spec == Init /\ [][Next]_vars /\ Fairness

-----------------------------------------------------------------------------
(* Properties.                                                              *)

(* The types; at most one goroutine receives, and it does while the loader  *)
(* has a stream (custom_watch.go:69).                                       *)
TypeOK == /\ written \in [Kinds -> 0..MaxRows]
          /\ run.at \in {"off", "receive", "handle", "end", "endToRestart"}
          /\ stream <=> run.at # "off"
          /\ Len(wire) =< MaxWire + 1
          /\ restarting \in 0..MaxResets
          /\ main.at \in {"idle", "start", "wait", "return"}
          /\ got \in [Kinds -> {"nothing", "error", "list", "partial"}]
          /\ changed \subseteq Kinds /\ crashed \in BOOLEAN

(* An informer is never shown with a hole: however the stream breaks and    *)
(* starts again, it has every row up to its revision and no other.  As long  *)
(* as streams are only cut, the list that Execute returns is whole as well   *)
(* ("avoid returning a partial data list", custom_informer.go:75) and the    *)
(* agent does not panic; after a failure neither is so, see README.          *)
ListIsWhole ==
    /\ \A k \in Kinds : inf[k].data = 1..inf[k].gt /\ inf[k].gt =< written[k]
    /\ failures = 0 => ~crashed /\ \A k \in Kinds : got[k] \in {"nothing", "list"}

(* Executes come to an end and the loop is shown every row, by the signals   *)
(* alone (custom_informer.go:92) and whatever resets there were, as long as  *)
(* nothing but resets happens.                                               *)
LoopCatchesUp ==
    [](failures = 0) => \A k \in Kinds : <>[](shown[k] = 1..written[k])
=============================================================================
