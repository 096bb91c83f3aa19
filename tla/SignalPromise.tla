---------------------------- MODULE SignalPromise ----------------------------
(***************************************************************************)
(* What the interface SignalBus promises (signalbus.go:8): Notify signals   *)
(* the subscriptions of a name, NotifyAll all of them, while others         *)
(* subscribe and close.  How the subscriptions are kept is left open; the   *)
(* module SignalBus implements this.                                        *)
(***************************************************************************)

CONSTANTS Subs, Names, Goroutines, Nil

VARIABLES sub,   \* sub[s]: its state and the name it is created with
          token, \* token[s]: s is signalled
          aim,   \* aim[g]: the call g is in, its name, and for NotifyAll
                 \* the subscriptions it has yet to signal
          owed,  \* owed[g]: open ever since the call began, not signalled by it
          churn  \* churn[g]: whether a subscription of the name of g's Notify
                 \* was closed during the call, and then one created

vars == <<sub, token, aim, owed, churn>>

Idle == [op |-> "none", name |-> Nil, copy |-> {}]
OpenOn(n) == {s \in Subs : sub[s].state = "open" /\ sub[s].name = n}
Open == {s \in Subs : sub[s].state = "open"}
Notifying(g, n) == aim[g].op = "notify" /\ aim[g].name = n

Init == /\ sub \in [Subs -> [state : {"new"}, name : Names]]
        /\ token = [s \in Subs |-> FALSE]
        /\ aim = [g \in Goroutines |-> Idle]
        /\ owed = [g \in Goroutines |-> {}]
        /\ churn = [g \in Goroutines |-> "none"]

Subscribe(s) ==
  /\ sub[s].state = "new" /\ sub' = [sub EXCEPT ![s].state = "open"]
  /\ churn' = [g \in Goroutines |->
                 IF Notifying(g, sub[s].name) /\ churn[g] = "closed" THEN "reused" ELSE churn[g]]
  /\ UNCHANGED <<token, aim, owed>>

\* Nothing is owed to a subscription that closes.
Close(s) ==
  /\ sub[s].state = "open" /\ sub' = [sub EXCEPT ![s].state = "closed"]
  /\ owed' = [g \in Goroutines |-> owed[g] \ {s}]
  /\ churn' = [g \in Goroutines |->
                 IF Notifying(g, sub[s].name) /\ churn[g] = "none" THEN "closed" ELSE churn[g]]
  /\ UNCHANGED <<token, aim>>

Receive(s) == /\ sub[s].state = "open" /\ token[s]
              /\ token' = [token EXCEPT ![s] = FALSE]
              /\ UNCHANGED <<sub, aim, owed, churn>>

Begin(g, call, all) ==
  /\ aim[g].op = "none" /\ aim' = [aim EXCEPT ![g] = call]
  /\ owed' = [owed EXCEPT ![g] = all] /\ churn' = [churn EXCEPT ![g] = "none"]
  /\ UNCHANGED <<sub, token>>

Notify(g, n) == Begin(g, [op |-> "notify", name |-> n, copy |-> {}], OpenOn(n))
NotifyAll(g) == Begin(g, [op |-> "notifyAll", name |-> Nil, copy |-> Open], Open)

\* A Notify signals subscriptions of its name only, but may signal one that was
\* closed or created since it began; a NotifyAll signals those open when it
\* began, each once.
Signal(g, s) ==
  /\ \/ Notifying(g, sub[s].name) /\ sub[s].state # "new" /\ aim' = aim
     \/ s \in aim[g].copy /\ aim' = [aim EXCEPT ![g].copy = @ \ {s}]
  /\ token' = [token EXCEPT ![s] = TRUE]
  /\ owed' = [owed EXCEPT ![g] = @ \ {s}]
  /\ UNCHANGED <<sub, churn>>

\* A call returns when it owes nothing.
Return(g) ==
  /\ aim[g].op # "none" /\ aim[g].copy = {}
  /\ owed[g] = {} \/ churn[g] = "reused"
  /\ aim' = [aim EXCEPT ![g] = Idle]
  /\ UNCHANGED <<sub, token, owed, churn>>

Next == \/ \E s \in Subs : Subscribe(s) \/ Close(s) \/ Receive(s)
        \/ \E g \in Goroutines : \/ \E n \in Names : Notify(g, n)
                                 \/ NotifyAll(g) \/ Return(g)
                                 \/ \E s \in Subs : Signal(g, s)

Spec == Init /\ [][Next]_vars
==============================================================================
