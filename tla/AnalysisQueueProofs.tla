------------------------- MODULE AnalysisQueueProofs -------------------------
(***************************************************************************)
(* Theorems about AnalysisQueue, for any number of requests, faults and    *)
(* assemblies and for either engine.                                       *)
(***************************************************************************)
EXTENDS AnalysisQueue, SequenceTheorems, TLAPS

(* Where the worker can be in its life, by what is known of it.            *)
BootOrder ==
  /\ boot = "ready" => listening
  /\ (greeting \/ initialized) => (useBlazor /\ boot = "ready")
  /\ useBlazor => boot # "fetching"
  /\ boot \in {"manifest", "assemblies"} => useBlazor
  /\ ~Loaded => inbox = <<>> /\ outbox = <<>> /\ next = Null /\ shown = Null

(* busy covers an analysis that is not answered, and next waits for one.   *)
BusyMeansOne ==
  /\ ~useBlazor => next = Null
  /\ useBlazor => Len(inbox) + Len(outbox) <= 1
  /\ useBlazor /\ ~busy => inbox = <<>> /\ outbox = <<>> /\ next = Null
  /\ useBlazor /\ busy /\ ~lost => Len(inbox) + Len(outbox) = 1

(* A request may follow m if it is newer or was made during the boot.      *)
Follows(n, m) == n > m \/ n <= atLoad

(* What is under way is in the order in which it was asked for, and what   *)
(* is in a timer was asked for during the boot.                            *)
UnderWayInOrder ==
  /\ shown <= asked
  /\ \A i \in 1..Len(timers) : timers[i] <= atLoad
  /\ \A i \in 1..Len(inbox) : Follows(inbox[i], shown) /\ inbox[i] <= asked
  /\ \A i \in 1..Len(outbox) : Follows(outbox[i], shown) /\ outbox[i] <= asked
  /\ \A i, j \in 1..Len(inbox) : i < j => Follows(inbox[j], inbox[i])
  /\ \A i, j \in 1..Len(outbox) : i < j => Follows(outbox[j], outbox[i])
  /\ \A i \in 1..Len(outbox), j \in 1..Len(inbox) : Follows(inbox[j], outbox[i])
  /\ next # Null =>
       /\ next <= asked
       /\ Follows(next, shown)
       /\ \A i \in 1..Len(inbox) : Follows(next, inbox[i])
       /\ \A i \in 1..Len(outbox) : Follows(next, outbox[i])

IInv == TypeOK /\ BootOrder /\ BusyMeansOne /\ UnderWayInOrder

-----------------------------------------------------------------------------
(* The elements of a sequence with one more at its end.                    *)
LEMMA AppendedOne ==
  ASSUME NEW S, NEW s \in Seq(S), NEW n \in S, NEW t, t = Append(s, n)
  PROVE  /\ t \in Seq(S)
         /\ Len(t) = Len(s) + 1
         /\ \A i \in 1..Len(t) : \/ i \in 1..Len(s) /\ t[i] = s[i]
                                 \/ i = Len(s) + 1 /\ t[i] = n
  <1>1. t \in Seq(S) /\ Len(t) = Len(s) + 1 /\ Len(s) \in Nat
        BY AppendProperties, LenProperties
  <1>2. (\A i \in 1..Len(s) : t[i] = s[i]) /\ t[Len(s) + 1] = n
        BY AppendProperties
  <1>3. \A i \in 1..Len(t) : i \in 1..Len(s) \/ i = Len(s) + 1
        BY <1>1
  <1>4. ASSUME NEW i \in 1..Len(t)
        PROVE  \/ i \in 1..Len(s) /\ t[i] = s[i]
               \/ i = Len(s) + 1 /\ t[i] = n
        <2>1. CASE i \in 1..Len(s)
              <3>1. t[i] = s[i]
                    BY <1>2, <2>1
              <3> QED  BY <2>1, <3>1
        <2>2. CASE i = Len(s) + 1
              BY <1>2, <2>2
        <2> QED  BY <1>3, <2>1, <2>2
  <1> QED  BY <1>1, <1>4

(* The elements of a sequence without its first.                           *)
LEMMA TakenFirst ==
  ASSUME NEW S, NEW s \in Seq(S), s # <<>>
  PROVE  /\ Tail(s) \in Seq(S)
         /\ Head(s) \in S /\ Head(s) = s[1] /\ 1 \in 1..Len(s)
         /\ Len(Tail(s)) = Len(s) - 1
         /\ \A i \in 1..Len(Tail(s)) : i + 1 \in 1..Len(s) /\ Tail(s)[i] = s[i + 1]
  BY HeadTailProperties, LenProperties

(* Requests are numbers.                                                   *)
LEMMA RequestsAreNumbers ==
  ASSUME NEW s \in Seq(Requests)
  PROVE  Len(s) \in Nat /\ \A i \in 1..Len(s) : s[i] \in Nat
  <1>1. Requests \subseteq Nat
        BY DEF Requests
  <1>2. \A i \in 1..Len(s) : s[i] \in Requests
        BY ElementOfSeq
  <1> QED  BY <1>1, <1>2, LenProperties

(* The initial states satisfy the invariant.                               *)
LEMMA InitIInv == Init => IInv
  <1> SUFFICES ASSUME Init PROVE IInv
      OBVIOUS
  <1>1. LoadTypeOK
        <2>1. boot \in {"manifest", "fetching"} /\ waiting \subseteq Scripts
              BY DEF Init, BootInit
        <2> QED  BY <2>1, FaultsAssumption DEF Init, BootInit, LoadTypeOK
  <1>2. FlagTypeOK
        BY DEF Init, BootInit, FlagTypeOK
  <1>3. TypeOK
        <2>1. busy \in BOOLEAN /\ lost \in BOOLEAN
              BY DEF Init
        <2>2. /\ timers \in Seq(Requests) /\ inbox \in Seq(Requests) /\ outbox \in Seq(Requests)
              /\ asked \in 0..MaxRequests /\ atLoad \in 0..asked
              /\ next = Null /\ shown = Null /\ accepted = Null
              BY RequestsAssumption DEF Init
        <2> QED  BY <1>1, <1>2, <2>1, <2>2 DEF TypeOK, BootTypeOK
  <1>4. BootOrder
        <2>1. (boot = "ready" => listening) /\ (useBlazor => boot # "fetching")
              /\ (boot \in {"manifest", "assemblies"} => useBlazor)
              BY DEF Init, BootInit
        <2>2. (greeting \/ initialized) => (useBlazor /\ boot = "ready")
              BY DEF Init, BootInit
        <2>3. inbox = <<>> /\ outbox = <<>> /\ next = Null /\ shown = Null
              BY DEF Init
        <2> QED  BY <2>1, <2>2, <2>3 DEF BootOrder
  <1>5. BusyMeansOne /\ UnderWayInOrder
        <2>1. /\ timers = <<>> /\ inbox = <<>> /\ outbox = <<>> /\ next = Null
              /\ shown = 0 /\ asked = 0
              BY DEF Init, Null
        <2>2. Len(<<>>) = 0 /\ ~busy
              BY DEF Init
        <2> QED  BY <2>1, <2>2 DEF BusyMeansOne, UnderWayInOrder
  <1> QED  BY <1>3, <1>4, <1>5 DEF IInv

(* Each step of the load keeps its own types and its order.                *)
LEMMA BootStepTyped ==
  ASSUME LoadTypeOK, FlagTypeOK, BootStep \/ BootFails
  PROVE  LoadTypeOK' /\ FlagTypeOK' /\ UNCHANGED useBlazor
  <1>1. CASE \E s \in Scripts : ScriptArrives(s)
        BY <1>1 DEF LoadTypeOK, FlagTypeOK, ScriptArrives
  <1>2. CASE \E s \in Scripts : ScriptFails(s)
        BY <1>2, FaultsAssumption DEF LoadTypeOK, FlagTypeOK, ScriptFails, Fault
  <1>3. CASE DotnetStarts \/ DotnetFails
        BY <1>3, FaultsAssumption DEF LoadTypeOK, FlagTypeOK, DotnetStarts, DotnetFails, Fault
  <1>4. CASE \E a \in Assemblies : AssemblyLoads(a) \/ AssemblyFails(a)
        BY <1>4, FaultsAssumption DEF LoadTypeOK, FlagTypeOK, AssemblyLoads, AssemblyFails, Fault
  <1>5. CASE PostRun \/ PostRunThrows \/ Greeted
        BY <1>5 DEF LoadTypeOK, FlagTypeOK, PostRun, PostRunThrows, Greeted
  <1> QED  BY <1>1, <1>2, <1>3, <1>4, <1>5 DEF BootStep, BootFails

(* Loading the worker, or failing to, leaves the queues alone.             *)
LEMMA BootSafe == 
  ASSUME IInv, Boot \/ LoadFails
  PROVE  IInv'
  <1> USE DEF PageUnchanged, queue, history
  <1>0. (BootStep \/ BootFails) /\ PageUnchanged
        BY DEF Boot, LoadFails
  <1>1. BootTypeOK' /\ UNCHANGED useBlazor
        BY <1>0, BootStepTyped DEF IInv, TypeOK, BootTypeOK
  <1>2. BootOrder'
        <2>0. BootOrder
              BY DEF IInv
        <2>1. (boot = "ready" => listening)'
              BY <1>0, <2>0 DEF BootOrder, BootStep, BootFails, ScriptArrives, ScriptFails,
                 DotnetStarts, DotnetFails, AssemblyLoads, AssemblyFails, PostRun,
                 PostRunThrows, Greeted
        <2>2. ((greeting \/ initialized) => (useBlazor /\ boot = "ready"))'
              <3> USE <1>0, <2>0 DEF BootOrder
              <3>1. CASE \E s \in Scripts : ScriptArrives(s) \/ ScriptFails(s)
                    BY <3>1 DEF ScriptArrives, ScriptFails
              <3>2. CASE DotnetStarts \/ DotnetFails
                    BY <3>2 DEF DotnetStarts, DotnetFails
              <3>3. CASE \E a \in Assemblies : AssemblyLoads(a) \/ AssemblyFails(a)
                    BY <3>3 DEF AssemblyLoads, AssemblyFails
              <3>4. CASE PostRun
                    BY <3>4 DEF PostRun
              <3>5. CASE PostRunThrows \/ Greeted
                    BY <3>5 DEF PostRunThrows, Greeted
              <3> QED  BY <3>1, <3>2, <3>3, <3>4, <3>5 DEF BootStep, BootFails
        <2>3. (useBlazor => boot # "fetching")' /\ (boot \in {"manifest", "assemblies"} => useBlazor)'
              BY <1>0, <2>0 DEF BootOrder, BootStep, BootFails, ScriptArrives, ScriptFails,
                 DotnetStarts, DotnetFails, AssemblyLoads, AssemblyFails, PostRun,
                 PostRunThrows, Greeted
        <2>4. (initialized => initialized') /\ (boot = "ready" => boot' = "ready")
              BY <1>0 DEF BootStep, BootFails, ScriptArrives, ScriptFails,
                 DotnetStarts, DotnetFails, AssemblyLoads, AssemblyFails, PostRun,
                 PostRunThrows, Greeted
        <2>5. Loaded => Loaded'
              BY <1>1, <2>4 DEF Loaded
        <2> QED  BY <1>0, <2>0, <2>1, <2>2, <2>3, <2>5 DEF BootOrder
  <1>3. TypeOK'
        BY <1>0, <1>1 DEF IInv, TypeOK
  <1>4. BusyMeansOne' /\ UnderWayInOrder'
        BY <1>0, <1>1 DEF IInv, BusyMeansOne, UnderWayInOrder, Follows
  <1> QED  BY <1>2, <1>3, <1>4 DEF IInv

(* A request that is newer than all, or is from the boot, may be handed    *)
(* over once the worker is there.                                          *)
LEMMA SubmitSafe ==
  ASSUME IInv, Loaded, NEW n \in Requests, Submit(n),
         timers' \in Seq(Requests), \A i \in 1..Len(timers') : timers'[i] <= atLoad,
         asked' \in {asked, n}, asked <= asked', n <= asked',
         n > asked \/ n <= atLoad,
         UNCHANGED <<engine, faults, shown, history>>
  PROVE  IInv'
  <1> USE DEF history, engine
  <1>0. TypeOK
        BY DEF IInv
  <1>1. \/ inbox' = Append(inbox, n) /\ next' = next /\ busy' = TRUE
        \/ inbox' = inbox /\ next' = n /\ busy' = busy
        BY DEF Submit, FSharpSubmit, OCamlSubmit
  <1>2. TypeOK'
        <2>1. inbox' \in Seq(Requests) /\ next' \in Requests \cup {Null}
              <3>1. inbox \in Seq(Requests) /\ next \in Requests \cup {Null}
                    BY <1>0 DEF TypeOK
              <3>2. Append(inbox, n) \in Seq(Requests)
                    BY <3>1, AppendedOne
              <3> QED  BY <1>1, <3>1, <3>2
        <2>4. busy' \in BOOLEAN
              BY <1>0, <1>1 DEF TypeOK
        <2>2. asked' \in 0..MaxRequests /\ atLoad' \in 0..asked'
              BY <1>0, RequestsAssumption DEF TypeOK, Requests
        <2>3. BootTypeOK' /\ lost' \in BOOLEAN
              BY <1>0 DEF TypeOK, BootTypeOK, LoadTypeOK, FlagTypeOK
        <2> QED
            BY <1>0, <2>1, <2>2, <2>3, <2>4 DEF TypeOK, Submit
  <1>3. BootOrder'
        BY <1>0 DEF IInv, BootOrder, Loaded
  <1>4. BusyMeansOne'
        BY <1>0 DEF IInv, TypeOK, BusyMeansOne, Submit, FSharpSubmit, OCamlSubmit, Null
  <1>5. UnderWayInOrder'
        <2>0. /\ inbox \in Seq(Requests) /\ outbox \in Seq(Requests) /\ asked \in Nat
              /\ atLoad \in Nat /\ next \in Requests \cup {Null} /\ shown \in Requests \cup {Null}
              BY <1>0, RequestsAssumption DEF TypeOK
        <2>1. \A m \in Int : m <= asked => Follows(n, m)
              BY <2>0 DEF Follows, Requests
        <2>2. shown <= asked
              BY DEF IInv, UnderWayInOrder
        <2>4. UnderWayInOrder /\ n # Null /\ n <= asked' /\ asked <= asked' /\ n \in Nat
              BY DEF IInv, Requests, Null
        <2>5. UNCHANGED <<outbox, shown, atLoad>>
              BY DEF Submit
        <2>9. /\ Len(inbox) \in Nat /\ \A i \in 1..Len(inbox) : inbox[i] \in Nat
              /\ Len(outbox) \in Nat /\ \A i \in 1..Len(outbox) : outbox[i] \in Nat
              BY <2>0, RequestsAreNumbers
        <2>6. CASE inbox' = Append(inbox, n) /\ next' = next /\ next = Null
              <3>2. \A i \in 1..Len(inbox') : \/ i \in 1..Len(inbox) /\ inbox'[i] = inbox[i]
                                              \/ i = Len(inbox) + 1 /\ inbox'[i] = n
                    BY <2>0, <2>6, AppendedOne
              <3> QED
                  BY <2>0, <2>1, <2>2, <2>4, <2>5, <2>6, <2>9, <3>2 DEF UnderWayInOrder, Follows, Null
        <2>7. CASE inbox' = inbox /\ next' = n
              BY <2>0, <2>1, <2>2, <2>4, <2>5, <2>7, <2>9 DEF UnderWayInOrder, Follows
        <2>8. next = Null \/ inbox' = inbox
              BY <1>0 DEF IInv, BusyMeansOne, Submit, FSharpSubmit, OCamlSubmit
        <2> QED  BY <1>1, <2>6, <2>7, <2>8
  <1> QED  BY <1>2, <1>3, <1>4, <1>5 DEF IInv

(* The client makes a request.                                             *)
LEMMA RequestSafe ==
  ASSUME IInv, Request
  PROVE  IInv'
  <1> USE DEF Request, history
  <1>1. TypeOK /\ UnderWayInOrder
        BY DEF IInv
  <1>2. asked + 1 \in Requests /\ asked \in Nat /\ asked' = asked + 1
        BY <1>1, RequestsAssumption DEF TypeOK, Requests
  <1>3. CASE Loaded /\ Submit(asked + 1) /\ UNCHANGED <<timers, atLoad>>
        BY <1>1, <1>2, <1>3, SubmitSafe DEF TypeOK, UnderWayInOrder
  <1>4. CASE ~Loaded /\ Postpone(asked + 1, timers) /\ atLoad' = asked + 1
        <2> USE <1>4 DEF Postpone, queue
        <2>1. timers \in Seq(Requests) /\ timers' = Append(timers, asked + 1)
              BY <1>1 DEF TypeOK
        <2>2. TypeOK'
              <3>1. timers' \in Seq(Requests)
                    BY <1>2, <2>1, AppendedOne
              <3>2. BootTypeOK' /\ lost' \in BOOLEAN /\ busy' \in BOOLEAN
                    BY <1>1 DEF TypeOK, BootTypeOK, LoadTypeOK, FlagTypeOK, engine
              <3> QED  BY <1>1, <1>2, <3>1, <3>2 DEF TypeOK, Requests
        <2>3. BootOrder' /\ BusyMeansOne'
              BY DEF IInv, BootOrder, BusyMeansOne, Loaded, engine
        <2>4. inbox = <<>> /\ outbox = <<>> /\ next = Null /\ shown = 0
              BY DEF IInv, BootOrder, Null
        <2>5. \A i \in 1..Len(timers') : timers'[i] <= asked + 1
              <3>1. \A i \in 1..Len(timers) : timers[i] \in Nat /\ timers[i] <= asked
                    BY <1>1, <1>2, <2>1, RequestsAreNumbers DEF TypeOK, UnderWayInOrder
              <3>2. \A i \in 1..Len(timers') : \/ i \in 1..Len(timers) /\ timers'[i] = timers[i]
                                               \/ timers'[i] = asked + 1
                    BY <1>2, <2>1, AppendedOne
              <3> QED  BY <1>2, <3>1, <3>2
        <2>6. UnderWayInOrder'
              BY <1>2, <2>4, <2>5 DEF UnderWayInOrder
        <2> QED  BY <2>2, <2>3, <2>6 DEF IInv
  <1> QED  BY <1>3, <1>4

(* A timer fires.                                                          *)
LEMMA RetrySafe ==
  ASSUME IInv, Retry
  PROVE  IInv'
  <1> USE DEF Retry, history
  <1>1. TypeOK /\ UnderWayInOrder
        BY DEF IInv
  <1>2. /\ timers \in Seq(Requests) /\ timers # <<>>
        /\ asked \in Nat /\ atLoad \in Nat /\ atLoad <= asked
        BY <1>1, RequestsAssumption DEF TypeOK
  <1> DEFINE n == Head(timers)
             others == Tail(timers)
  <1>3. /\ n \in Requests /\ others \in Seq(Requests) /\ n <= atLoad
        /\ \A i \in 1..Len(others) : others[i] <= atLoad
        <2>1. \A i \in 1..Len(timers) : timers[i] <= atLoad
              BY <1>1 DEF UnderWayInOrder
        <2> QED  BY <1>2, <2>1, TakenFirst
  <1>4. n \in Nat /\ n <= asked
        BY <1>2, <1>3 DEF Requests
  <1> HIDE DEF n, others
  <1>5. CASE Loaded /\ Submit(n) /\ timers' = others
        BY <1>2, <1>3, <1>4, <1>5, SubmitSafe
  <1>6. CASE ~Loaded /\ Postpone(n, others)
        <2> USE <1>6 DEF Postpone, queue
        <2>1. timers' \in Seq(Requests)
              BY <1>3, AppendedOne
        <2>2. \A i \in 1..Len(timers') : timers'[i] <= atLoad
              <3>1. \A i \in 1..Len(timers') : \/ i \in 1..Len(others) /\ timers'[i] = others[i]
                                               \/ timers'[i] = n
                    BY <1>3, AppendedOne
              <3> QED  BY <1>3, <3>1
        <2>3. BootTypeOK' /\ lost' \in BOOLEAN /\ busy' \in BOOLEAN
              BY <1>1 DEF TypeOK, BootTypeOK, LoadTypeOK, FlagTypeOK, engine
        <2>4. TypeOK'
              BY <1>1, <2>1, <2>3 DEF TypeOK
        <2>5. BootOrder' /\ BusyMeansOne'
              BY DEF IInv, BootOrder, BusyMeansOne, Loaded, engine
        <2>6. UnderWayInOrder'
              BY <1>1, <2>2 DEF UnderWayInOrder, Follows
        <2> QED  BY <2>4, <2>5, <2>6 DEF IInv
  <1> QED  BY <1>5, <1>6 DEF n, others

(* The worker takes a message and answers it, or fails.                    *)
LEMMA WorkSafe ==
  ASSUME IInv, Work \/ WorkThrows
  PROVE  IInv'
  <1>1. TypeOK /\ BootOrder /\ BusyMeansOne /\ UnderWayInOrder
        BY DEF IInv
  <1>2. /\ inbox \in Seq(Requests) /\ outbox \in Seq(Requests) /\ inbox # <<>>
        /\ inbox' = Tail(inbox)
        /\ UNCHANGED <<useBlazor, boot, waiting, missing, listening, greeting, initialized>>
        /\ UNCHANGED <<timers, next, busy, accepted, asked, shown, atLoad>>
        BY <1>1 DEF TypeOK, Work, WorkThrows, engine, history
  <1>3. /\ inbox' \in Seq(Requests) /\ Len(inbox') = Len(inbox) - 1
        /\ Head(inbox) \in Requests /\ Head(inbox) = inbox[1] /\ 1 \in 1..Len(inbox)
        /\ \A i \in 1..Len(inbox') : i + 1 \in 1..Len(inbox) /\ inbox'[i] = inbox[i + 1]
        BY <1>2, TakenFirst
  <1>4. Len(inbox) \in Nat /\ Len(outbox) \in Nat
        BY <1>2, RequestsAreNumbers
  <1>5. Loaded /\ Loaded'
        BY <1>1, <1>2 DEF BootOrder, Loaded
  <1>6. \/ outbox' = Append(outbox, Head(inbox)) /\ UNCHANGED <<faults, lost>>
        \/ outbox' = outbox /\ faults' \in 0..MaxFaults /\ lost' = TRUE
        BY <1>1, FaultsAssumption DEF Work, WorkThrows, Fault, TypeOK, BootTypeOK, LoadTypeOK, history
  <1>7. outbox' \in Seq(Requests)
        BY <1>2, <1>3, <1>6, AppendedOne
  <1>8. TypeOK'
        <2>1. lost' \in BOOLEAN
              BY <1>1, <1>6 DEF TypeOK
        <2>2. LoadTypeOK'
              BY <1>1, <1>2, <1>6 DEF TypeOK, BootTypeOK, LoadTypeOK
        <2>3. FlagTypeOK'
              BY <1>1, <1>2 DEF TypeOK, BootTypeOK, FlagTypeOK
        <2> QED  BY <1>1, <1>2, <1>3, <1>7, <2>1, <2>2, <2>3 DEF TypeOK, BootTypeOK
  <1>9. BootOrder'
        BY <1>1, <1>2, <1>5 DEF BootOrder
  <1>10. /\ Len(outbox') <= Len(outbox) + 1
         /\ \A i \in 1..Len(outbox') : \/ i \in 1..Len(outbox) /\ outbox'[i] = outbox[i]
                                       \/ i = Len(outbox) + 1 /\ outbox'[i] = inbox[1]
        <2>1. CASE outbox' = outbox
              <3>1. Len(outbox') <= Len(outbox) + 1
                    BY <1>4, <2>1
              <3>2. \A i \in 1..Len(outbox') : i \in 1..Len(outbox) /\ outbox'[i] = outbox[i]
                    BY <2>1, Zenon
              <3> QED  BY <3>1, <3>2, Zenon
        <2>2. CASE outbox' = Append(outbox, Head(inbox))
              BY <1>2, <1>3, <1>4, <2>2, AppendedOne
        <2> QED  BY <1>6, <2>1, <2>2
  <1>11. BusyMeansOne'
        <2>1. useBlazor => busy /\ Len(inbox') + Len(outbox') <= 1
              BY <1>1, <1>2, <1>3, <1>4, <1>7, <1>10, LenProperties DEF BusyMeansOne
        <2>2. useBlazor => lost' \/ Len(inbox') + Len(outbox') = 1
              <3>1. CASE lost'
                    BY <3>1
              <3>2. CASE outbox' = Append(outbox, Head(inbox)) /\ lost' = lost
                    <4>1. Len(outbox') = Len(outbox) + 1
                          BY <1>2, <1>3, <3>2, AppendedOne
                    <4> QED  BY <1>1, <1>2, <1>3, <1>4, <2>1, <3>2, <4>1 DEF BusyMeansOne
              <3> QED  BY <1>6, <3>1, <3>2
        <2> QED  BY <1>1, <1>2, <2>1, <2>2 DEF BusyMeansOne
  <1>12. UnderWayInOrder'
        <2> USE <1>2 DEF Follows
        <2>1. UnderWayInOrder
              BY <1>1
        <2>2. \A i \in 1..Len(inbox') : Follows(inbox[i + 1], shown) /\ inbox[i + 1] <= asked
              BY <1>3, <2>1 DEF UnderWayInOrder
        <2>3. \A i \in 1..Len(outbox') : Follows(outbox'[i], shown) /\ outbox'[i] <= asked
              BY <1>3, <1>10, <2>1 DEF UnderWayInOrder
        <2>4. \A i, j \in 1..Len(inbox') : i < j => Follows(inbox'[j], inbox'[i])
              BY <1>3, <2>1 DEF UnderWayInOrder
        <2>5. \A i, j \in 1..Len(outbox') : i < j => Follows(outbox'[j], outbox'[i])
              BY <1>3, <1>4, <1>10, <2>1 DEF UnderWayInOrder
        <2>6. \A i \in 1..Len(outbox'), j \in 1..Len(inbox') : Follows(inbox'[j], outbox'[i])
              BY <1>3, <1>4, <1>10, <2>1 DEF UnderWayInOrder
        <2>7. next # Null =>
                /\ \A i \in 1..Len(inbox') : Follows(next, inbox'[i])
                /\ \A i \in 1..Len(outbox') : Follows(next, outbox'[i])
              BY <1>3, <1>10, <2>1 DEF UnderWayInOrder
        <2> QED
            BY <1>3, <2>1, <2>2, <2>3, <2>4, <2>5, <2>6, <2>7 DEF UnderWayInOrder
  <1> QED  BY <1>8, <1>9, <1>11, <1>12 DEF IInv

(* The page receives an answer, or cannot read it.                         *)
LEMMA AnswerSafe ==
  ASSUME IInv, Answer \/ AnswerUndecodable
  PROVE  IInv'
  <1>1. TypeOK /\ BootOrder /\ BusyMeansOne /\ UnderWayInOrder
        BY DEF IInv
  <1>2. /\ inbox \in Seq(Requests) /\ outbox \in Seq(Requests) /\ outbox # <<>>
        /\ outbox' = Tail(outbox)
        /\ UNCHANGED <<useBlazor, boot, waiting, missing, listening, greeting, initialized>>
        /\ UNCHANGED <<timers, accepted, asked, atLoad>>
        BY <1>1 DEF TypeOK, Answer, AnswerUndecodable, engine, history
  <1>3. /\ outbox' \in Seq(Requests) /\ Len(outbox') = Len(outbox) - 1
        /\ Head(outbox) \in Requests /\ Head(outbox) = outbox[1] /\ 1 \in 1..Len(outbox)
        /\ \A i \in 1..Len(outbox') : i + 1 \in 1..Len(outbox) /\ outbox'[i] = outbox[i + 1]
        BY <1>2, TakenFirst
  <1>4. /\ Len(inbox) \in Nat /\ Len(outbox) \in Nat /\ asked \in Nat
        /\ next \in Requests \cup {Null}
        BY <1>1, <1>2, RequestsAreNumbers, RequestsAssumption DEF TypeOK
  <1>5. Loaded /\ Loaded'
        BY <1>1, <1>2 DEF BootOrder, Loaded
  <1>6. /\ shown' = outbox[1] /\ UNCHANGED <<faults, lost>>
        /\ \/ next = Null /\ busy' = FALSE /\ UNCHANGED <<next, inbox>>
           \/ next # Null /\ next' = Null /\ inbox' = Append(inbox, next) /\ UNCHANGED busy
        \/ /\ shown' = shown /\ faults' \in 0..MaxFaults /\ lost' = TRUE
           /\ UNCHANGED <<next, busy, inbox>>
        BY <1>1, <1>3, FaultsAssumption
        DEF Answer, AnswerUndecodable, Fault, TypeOK, BootTypeOK, LoadTypeOK, history
  <1>7. next # Null => next \in Requests
        BY <1>4
  <1>8. /\ inbox' \in Seq(Requests)
        /\ next' \in {next, Null}
        /\ Len(inbox') <= Len(inbox) + (IF next # Null /\ next' = Null THEN 1 ELSE 0)
        /\ \A i \in 1..Len(inbox') : \/ i \in 1..Len(inbox) /\ inbox'[i] = inbox[i]
                                     \/ i = Len(inbox) + 1 /\ inbox'[i] = next /\ next # Null /\ next' = Null
        <2>1. CASE inbox' = inbox /\ next' = next
              <3>1. Len(inbox') <= Len(inbox) + (IF next # Null /\ next' = Null THEN 1 ELSE 0)
                    BY <1>4, <2>1
              <3>2. \A i \in 1..Len(inbox') : i \in 1..Len(inbox) /\ inbox'[i] = inbox[i]
                    BY <2>1, Zenon
              <3> QED  BY <1>2, <2>1, <3>1, <3>2, Zenon
        <2>2. CASE inbox' = Append(inbox, next) /\ next # Null /\ next' = Null
              <3>1. /\ inbox' \in Seq(Requests) /\ Len(inbox') = Len(inbox) + 1
                    /\ \A i \in 1..Len(inbox') : \/ i \in 1..Len(inbox) /\ inbox'[i] = inbox[i]
                                                 \/ i = Len(inbox) + 1 /\ inbox'[i] = next
                    BY <1>2, <1>7, <2>2, AppendedOne
              <3>2. Len(inbox') <= Len(inbox) + (IF next # Null /\ next' = Null THEN 1 ELSE 0)
                    BY <1>4, <2>2, <3>1
              <3> QED  BY <2>2, <3>1, <3>2, Zenon
        <2> QED  BY <1>6, <2>1, <2>2
  <1>9. TypeOK'
        <2>1. lost' \in BOOLEAN
              BY <1>1, <1>6 DEF TypeOK
        <2>2. busy' \in BOOLEAN
              BY <1>1, <1>6 DEF TypeOK
        <2>3. LoadTypeOK'
              BY <1>1, <1>2, <1>6 DEF TypeOK, BootTypeOK, LoadTypeOK
        <2>4. FlagTypeOK'
              BY <1>1, <1>2 DEF TypeOK, BootTypeOK, FlagTypeOK
        <2>5. shown' \in Requests \cup {Null}
              BY <1>1, <1>3, <1>6 DEF TypeOK
        <2> QED  BY <1>1, <1>2, <1>3, <1>8, <2>1, <2>2, <2>3, <2>4, <2>5 DEF TypeOK, BootTypeOK
  <1>10. BootOrder'
         BY <1>1, <1>2, <1>5 DEF BootOrder
  <1>11. BusyMeansOne'
         <2>1. CASE ~useBlazor
               BY <1>1, <1>2, <1>8, <2>1 DEF BusyMeansOne
         <2>2. CASE useBlazor
               <3>1. Len(inbox) = 0 /\ Len(outbox') = 0 /\ busy
                     BY <1>1, <1>2, <1>3, <1>4, <2>2 DEF BusyMeansOne
               <3>2. outbox' = <<>> /\ (Len(inbox') = 0 => inbox' = <<>>) /\ Len(inbox') \in Nat
                     BY <1>3, <1>8, <3>1, LenProperties
               <3>3. busy' \in BOOLEAN /\ Len(inbox') <= 1
                     BY <1>4, <1>8, <1>9, <3>1 DEF TypeOK
               <3>4. ~busy' => next' = Null /\ inbox' = inbox
                     BY <1>6, <3>1
               <3>5. inbox = <<>>
                     BY <1>2, <3>1, LenProperties
               <3>6. ~busy' => inbox' = <<>> /\ outbox' = <<>> /\ next' = Null
                     BY <3>2, <3>4, <3>5
               <3>7. Len(inbox') + Len(outbox') <= 1
                     BY <3>1, <3>2, <3>3
               <3>8. busy' => Len(inbox') + Len(outbox') = 1 \/ lost'
                     <4>1. CASE lost'
                           BY <4>1
                     <4>2. CASE next # Null /\ inbox' = Append(inbox, next)
                           BY <1>2, <1>7, <3>1, <3>2, <4>2, AppendedOne
                     <4> QED  BY <1>6, <4>1, <4>2
               <3> QED  BY <1>2, <2>2, <3>6, <3>7, <3>8 DEF BusyMeansOne
         <2> QED  BY <2>1, <2>2
  <1>12. UnderWayInOrder'
         <2>1. \/ shown' = outbox[1]
               \/ shown' = shown
               BY <1>6
         <2>2. /\ \A i \in 1..Len(inbox) : inbox[i] \in Nat
               /\ \A i \in 1..Len(outbox) : outbox[i] \in Nat
               /\ atLoad \in Nat /\ shown \in Nat
               BY <1>1, <1>2, RequestsAreNumbers DEF TypeOK, Requests, Null
         <2> USE <1>2 DEF Follows, Null
         <2>3. UnderWayInOrder
               BY <1>1
         <2>4. shown' <= asked
               BY <1>3, <2>1, <2>3 DEF UnderWayInOrder
         <2>5. \A i \in 1..Len(inbox') : Follows(inbox'[i], shown') /\ inbox'[i] <= asked
               BY <1>3, <1>8, <2>1, <2>3 DEF UnderWayInOrder
         <2>6. \A i \in 1..Len(outbox') : Follows(outbox'[i], shown') /\ outbox'[i] <= asked
               BY <1>3, <2>1, <2>3 DEF UnderWayInOrder
         <2>7. ASSUME NEW i \in 1..Len(inbox'), NEW j \in 1..Len(inbox'), i < j
               PROVE  Follows(inbox'[j], inbox'[i])
               <3>1. i \in 1..Len(inbox) /\ inbox'[i] = inbox[i]
                     BY <1>4, <1>8, <2>7
               <3>2. CASE j \in 1..Len(inbox) /\ inbox'[j] = inbox[j]
                     BY <2>3, <2>7, <3>1, <3>2 DEF UnderWayInOrder
               <3>3. CASE inbox'[j] = next /\ next # Null
                     BY <2>3, <3>1, <3>3 DEF UnderWayInOrder
               <3> QED  BY <1>8, <3>2, <3>3
         <2>8. \A i, j \in 1..Len(outbox') : i < j => Follows(outbox'[j], outbox'[i])
               BY <1>3, <2>3 DEF UnderWayInOrder
         <2>9. \A i \in 1..Len(outbox'), j \in 1..Len(inbox') : Follows(inbox'[j], outbox'[i])
               BY <1>3, <1>8, <2>3 DEF UnderWayInOrder
         <2>10. next' # Null =>
                  /\ next' <= asked
                  /\ Follows(next', shown')
                  /\ \A i \in 1..Len(inbox') : Follows(next', inbox'[i])
                  /\ \A i \in 1..Len(outbox') : Follows(next', outbox'[i])
               BY <1>3, <1>8, <2>1, <2>3 DEF UnderWayInOrder
         <2> QED
             BY <2>3, <2>4, <2>5, <2>6, <2>7, <2>8, <2>9, <2>10 DEF UnderWayInOrder
  <1> QED  BY <1>9, <1>10, <1>11, <1>12 DEF IInv

-----------------------------------------------------------------------------
(* Every step keeps the invariant.                                         *)
LEMMA StepIInv == IInv /\ [Next]_vars => IInv'
  <1> SUFFICES ASSUME IInv, [Next]_vars PROVE IInv'
      OBVIOUS
  <1>1. CASE Next
        BY <1>1, BootSafe, RequestSafe, RetrySafe, WorkSafe, AnswerSafe DEF Next
  <1>2. CASE UNCHANGED vars
        <2>1. TypeOK'
              BY <1>2 DEF IInv, TypeOK, BootTypeOK, LoadTypeOK, FlagTypeOK, vars, engine, queue, history
        <2>2. BootOrder' /\ BusyMeansOne' /\ UnderWayInOrder'
              BY <1>2 DEF IInv, BootOrder, Loaded, BusyMeansOne, UnderWayInOrder, Follows,
                          vars, engine, queue, history
        <2> QED  BY <2>1, <2>2 DEF IInv
  <1> QED  BY <1>1, <1>2

THEOREM Invariance == Spec => []IInv
  <1> QED  BY InitIInv, StepIInv, PTL DEF Spec

(* The variables of both queues and of the load keep their types.          *)
THEOREM TypeCorrect == Spec => []TypeOK
  <1>1. IInv => TypeOK
        BY DEF IInv
  <1> QED  BY <1>1, Invariance, PTL

(* fsharpAnalysis.requestAnalysis and its callback: the F# worker never    *)
(* has two analyses.                                                       *)
THEOREM FSharpIsOneAtATime == Spec => []FSharpOneAtATime
  <1>1. IInv => FSharpOneAtATime
        BY DEF IInv, BusyMeansOne, FSharpOneAtATime, OneAtATime
  <1> QED  BY <1>1, Invariance, PTL

(* What is posted to a worker finds it listening, whatever fails to load.  *)
THEOREM NothingIsDropped == Spec => []NothingDropped
  <1>1. IInv => NothingDropped
        BY DEF IInv, BootOrder, Loaded, NothingDropped
  <1> QED  BY <1>1, Invariance, PTL

(* Answers go forward, but for programs sent while the worker was loading. *)
THEOREM AnswersGoForward == Spec => NoStepBack
  <1>1. IInv /\ [Next]_vars => (shown' # shown => shown' > shown \/ shown' <= atLoad)
        <2> SUFFICES ASSUME IInv, [Next]_vars, shown' # shown
                     PROVE  shown' > shown \/ shown' <= atLoad
            OBVIOUS
        <2>1. Answer
              BY DEF Next, vars, Boot, LoadFails, PageUnchanged, Request, Retry, Work,
                     WorkThrows, AnswerUndecodable
        <2>2. outbox \in Seq(Requests) /\ outbox # <<>> /\ shown' = Head(outbox)
              BY <2>1 DEF IInv, TypeOK, Answer
        <2>3. Head(outbox) = outbox[1] /\ 1 \in 1..Len(outbox)
              BY <2>2, TakenFirst
        <2> QED  BY <2>2, <2>3 DEF IInv, UnderWayInOrder, Follows
  <1> QED  BY <1>1, Invariance, PTL DEF Spec, NoStepBack

-----------------------------------------------------------------------------
(* What the queues look like to LatestWins.                                *)
Waiting == IF next = Null THEN <<>> ELSE <<next>>

(* Removing the first element of a concatenation.                          *)
LEMMA TailOfConcat ==
  ASSUME NEW S, NEW s \in Seq(S), NEW t \in Seq(S), s # <<>>
  PROVE  /\ s \o t # <<>>
         /\ Head(s \o t) = Head(s)
         /\ Tail(s \o t) = Tail(s) \o t
  <1>1. /\ s \o t \in Seq(S) /\ Len(s \o t) = Len(s) + Len(t)
        /\ Len(s) \in Nat \ {0} /\ Len(t) \in Nat
        BY ConcatProperties, LenProperties, EmptySeq
  <1>2. s \o t # <<>>
        BY <1>1, LenProperties
  <1>3. /\ Tail(s \o t) \in Seq(S) /\ Len(Tail(s \o t)) = Len(s) + Len(t) - 1
        /\ Tail(s) \in Seq(S) /\ Len(Tail(s)) = Len(s) - 1
        BY <1>1, <1>2, HeadTailProperties
  <1>4. Tail(s) \o t \in Seq(S) /\ Len(Tail(s) \o t) = Len(s) + Len(t) - 1
        BY <1>1, <1>3, ConcatProperties
  <1>5. ASSUME NEW i \in 1..(Len(s) + Len(t) - 1)
        PROVE  Tail(s \o t)[i] = (Tail(s) \o t)[i]
        <2>1. Tail(s \o t)[i] = (s \o t)[i + 1]
              BY <1>1, <1>2, <1>3, HeadTailProperties
        <2>2. (s \o t)[i + 1] = IF i + 1 <= Len(s) THEN s[i + 1] ELSE t[i + 1 - Len(s)]
              BY <1>1, ConcatProperties
        <2>3. (Tail(s) \o t)[i] = IF i <= Len(s) - 1 THEN Tail(s)[i] ELSE t[i - (Len(s) - 1)]
              BY <1>1, <1>3, ConcatProperties
        <2>4. i <= Len(s) - 1 => Tail(s)[i] = s[i + 1]
              BY <1>1, <1>3, HeadTailProperties
        <2> QED  BY <1>1, <2>1, <2>2, <2>3, <2>4
  <1>6. Tail(s \o t) = Tail(s) \o t
        BY <1>3, <1>4, <1>5, SeqEqual
  <1>7. Head(s \o t) = Head(s)
        BY <1>1, <1>2, ConcatProperties
  <1> QED  BY <1>2, <1>6, <1>7

(* The first half of a concatenation, and the second without its first.    *)
LEMMA PartsOfConcat ==
  ASSUME NEW S, NEW s \in Seq(S), NEW t \in Seq(S), t # <<>>
  PROVE  /\ Len(s) + 1 \in 1..Len(s \o t)
         /\ SubSeq(s \o t, 1, Len(s)) = s
         /\ SubSeq(s \o t, Len(s) + 2, Len(s \o t)) = Tail(t)
  <1>1. /\ s \o t \in Seq(S) /\ Len(s \o t) = Len(s) + Len(t)
        /\ Len(s) \in Nat /\ Len(t) \in Nat \ {0}
        BY ConcatProperties, LenProperties, EmptySeq
  <1>2. \A i \in 1..Len(s \o t) : (s \o t)[i] \in S
        BY <1>1, ElementOfSeq
  <1>3. SubSeq(s \o t, 1, Len(s)) = s
        <2> DEFINE u == SubSeq(s \o t, 1, Len(s))
        <2>1. /\ u \in Seq(S) /\ Len(u) = Len(s)
              /\ \A i \in 1..Len(s) : u[i] = (s \o t)[i]
              BY <1>1, <1>2, SubSeqProperties
        <2>2. \A i \in 1..Len(s) : (s \o t)[i] = s[i]
              BY <1>1, ConcatProperties
        <2> HIDE DEF u
        <2>3. u = s
              BY <2>1, <2>2, SeqEqual
        <2> QED  BY <2>3 DEF u
  <1>4. SubSeq(s \o t, Len(s) + 2, Len(s \o t)) = Tail(t)
        <2> DEFINE u == SubSeq(s \o t, Len(s) + 2, Len(s \o t))
        <2>1. /\ u \in Seq(S) /\ Len(u) = Len(t) - 1
              /\ \A i \in 1..(Len(t) - 1) : u[i] = (s \o t)[Len(s) + 1 + i]
              <3> DEFINE w == s \o t
                         k == Len(s) + 2
                         n == Len(s \o t)
              <3>1. k \in Int /\ n \in Int /\ \A i \in k..n : w[i] \in S
                    BY <1>1, <1>2
              <3> HIDE DEF w, k, n
              <3>2. /\ SubSeq(w, k, n) \in Seq(S)
                    /\ Len(SubSeq(w, k, n)) = IF k <= n THEN n - k + 1 ELSE 0
                    /\ \A i \in 1..(n - k + 1) : SubSeq(w, k, n)[i] = w[k + i - 1]
                    BY <3>1, SubSeqProperties
              <3>3. u = SubSeq(w, k, n) /\ k = Len(s) + 2 /\ n = Len(s) + Len(t) /\ w = s \o t
                    BY <1>1 DEF w, k, n
              <3> HIDE DEF u
              <3>4. k <= n + 1 /\ n - k + 1 = Len(t) - 1
                    BY <1>1, <3>3
              <3>5. u \in Seq(S) /\ Len(u) = Len(t) - 1
                    BY <1>1, <3>2, <3>3, <3>4
              <3>6. \A i \in 1..(Len(t) - 1) : u[i] = w[k + i - 1]
                    BY <3>2, <3>3, <3>4
              <3>7. \A i \in 1..(Len(t) - 1) : k + i - 1 = Len(s) + 1 + i
                    BY <1>1, <3>3
              <3> QED  BY <3>3, <3>5, <3>6, <3>7
        <2>2. \A i \in 1..(Len(t) - 1) : (s \o t)[Len(s) + 1 + i] = t[i + 1]
              BY <1>1, ConcatProperties
        <2>3. /\ Tail(t) \in Seq(S) /\ Len(Tail(t)) = Len(t) - 1
              /\ \A i \in 1..(Len(t) - 1) : Tail(t)[i] = t[i + 1]
              BY HeadTailProperties
        <2> HIDE DEF u
        <2>4. PICK v : v = Tail(t)
              OBVIOUS
        <2>5. v \in Seq(S) /\ Len(v) = Len(u) /\ \A i \in 1..Len(u) : u[i] = v[i]
              BY <2>1, <2>2, <2>3, <2>4
        <2>6. u = v
              BY <2>1, <2>5, SeqEqual
        <2> QED  BY <2>4, <2>6 DEF u
  <1> QED  BY <1>1, <1>3, <1>4

(* The types of the mapped queue, and how the three parts may be grouped.  *)
LEMMA MappedQueue ==
  ASSUME TypeOK
  PROVE  /\ Waiting \in Seq(Requests)
         /\ outbox \o inbox \in Seq(Requests)
         /\ (outbox \o inbox) \o Waiting \in Seq(Requests)
         /\ (outbox \o inbox) \o Waiting = outbox \o (inbox \o Waiting)
         /\ inbox \o Waiting \in Seq(Requests)
  <1>1. inbox \in Seq(Requests) /\ outbox \in Seq(Requests) /\ next \in Requests \cup {Null}
        BY DEF TypeOK
  <1>2. Waiting \in Seq(Requests)
        <2>1. CASE next = Null
              BY <2>1 DEF Waiting
        <2>2. CASE next # Null
              <3>1. next \in Requests
                    BY <1>1, <2>2
              <3> QED  BY <2>2, <3>1 DEF Waiting
        <2> QED  BY <2>1, <2>2
  <1>3. outbox \o inbox \in Seq(Requests) /\ inbox \o Waiting \in Seq(Requests)
        BY <1>1, <1>2, ConcatProperties
  <1> QED  BY <1>1, <1>2, <1>3, ConcatProperties, ConcatAssociative

(* The queue, as LatestWins sees it.                                       *)
Mapped == (outbox \o inbox) \o Waiting

(* A request handed over is taken.                                         *)
LEMMA SubmitTakes ==
  ASSUME IInv, Loaded, NEW n \in Requests, Submit(n), UNCHANGED <<shown, lost>>
  PROVE  Latest!Next
  <1>1. TypeOK /\ BusyMeansOne
        BY DEF IInv
  <1>2. /\ outbox \in Seq(Requests) /\ inbox \in Seq(Requests) /\ next \in Requests \cup {Null}
        /\ <<n>> \in Seq(Requests) /\ n # Null /\ busy \in BOOLEAN
        BY <1>1 DEF TypeOK, Requests, Null
  <1>3. outbox' = outbox /\ accepted' = n
        BY DEF Submit
  <1>4. CASE inbox' = Append(inbox, n) /\ next' = next /\ next = Null
        <2>1. Mapped = outbox \o inbox /\ Mapped' = outbox \o Append(inbox, n)
              BY <1>2, <1>3, <1>4, MappedQueue, <1>1, ConcatEmptySeq, ConcatProperties, AppendProperties
              DEF Mapped, Waiting
        <2>2. outbox \o Append(inbox, n) = Append(outbox \o inbox, n)
              BY <1>2, AppendIsConcat, ConcatAssociative, ConcatProperties
        <2> QED  BY <1>3, <2>1, <2>2 DEF Latest!Next, Latest!Take, Mapped, Waiting
  <1>5. CASE inbox' = inbox /\ next' = n /\ next = Null
        <2>1. Mapped = outbox \o inbox /\ Mapped' = (outbox \o inbox) \o <<n>>
              BY <1>2, <1>3, <1>5, MappedQueue, <1>1, ConcatEmptySeq, ConcatProperties
              DEF Mapped, Waiting
        <2>2. (outbox \o inbox) \o <<n>> = Append(outbox \o inbox, n)
              BY <1>2, AppendIsConcat, ConcatProperties
        <2> QED  BY <1>3, <2>1, <2>2 DEF Latest!Next, Latest!Take, Mapped, Waiting
  <1>6. CASE inbox' = inbox /\ next' = n /\ next # Null /\ useBlazor /\ busy
        <2> DEFINE q == outbox \o inbox
        <2>0. next \in Requests /\ <<next>> \in Seq(Requests) /\ <<next>> # <<>>
              BY <1>2, <1>6
        <2>1. Mapped = q \o <<next>> /\ Mapped' = q \o <<n>>
              BY <1>2, <1>3, <1>6 DEF Mapped, Waiting
        <2>2. q \in Seq(Requests) /\ Len(q) = Len(outbox) + Len(inbox) /\ Len(q) \in Nat
              BY <1>2, ConcatProperties, LenProperties
        <2>3. lost \/ Len(q) = 1
              BY <1>1, <1>2, <1>6, <2>2, LenProperties DEF BusyMeansOne
        <2> HIDE DEF q
        <2>4. Len(Mapped) = Len(q) + 1
              BY <2>0, <2>1, <2>2, ConcatProperties
        <2>5. SubSeq(Mapped, 1, Len(Mapped) - 1) = q
              <3>1. SubSeq(q \o <<next>>, 1, Len(q)) = q
                    BY <2>0, <2>2, PartsOfConcat
              <3>2. Len(Mapped) - 1 = Len(q)
                    BY <2>2, <2>4
              <3> QED  BY <2>1, <3>1, <3>2
        <2>6. Mapped' = Append(q, n)
              BY <2>1, <2>2, AppendIsConcat
        <2>7. Len(Mapped) > 1 \/ (lost /\ Len(Mapped) = 1)
              BY <2>2, <2>3, <2>4
        <2> QED
            BY <1>3, <2>5, <2>6, <2>7 DEF Latest!Next, Latest!Take, Latest!ButLast, Mapped, Waiting
  <1>7. \/ inbox' = Append(inbox, n) /\ next' = next /\ next = Null
        \/ inbox' = inbox /\ next' = n /\ useBlazor /\ busy
        BY <1>1 DEF BusyMeansOne, Submit, FSharpSubmit, OCamlSubmit
  <1> QED  BY <1>4, <1>5, <1>6, <1>7

(* The worker's step is seen by nobody, unless it loses the answer.        *)
LEMMA WorkStutters ==
  ASSUME IInv, Work
  PROVE  UNCHANGED <<Mapped, accepted, shown, lost>>
  <1>1. /\ inbox \in Seq(Requests) /\ outbox \in Seq(Requests) /\ inbox # <<>>
        /\ outbox' = Append(outbox, Head(inbox)) /\ inbox' = Tail(inbox)
        /\ UNCHANGED <<next, accepted, shown, lost>>
        BY DEF IInv, TypeOK, Work, history
  <1>2. Head(inbox) \in Requests /\ Tail(inbox) \in Seq(Requests)
        BY <1>1, TakenFirst
  <1>3. inbox = <<Head(inbox)>> \o Tail(inbox)
        BY <1>1
  <1>4. Append(outbox, Head(inbox)) = outbox \o <<Head(inbox)>>
        BY <1>1, <1>2, AppendIsConcat
  <1>5. (outbox \o <<Head(inbox)>>) \o Tail(inbox) = outbox \o (<<Head(inbox)>> \o Tail(inbox))
        BY <1>1, <1>2, ConcatAssociative
  <1> QED  BY <1>1, <1>3, <1>4, <1>5 DEF Mapped, Waiting

(* An answer that never comes is lost, to LatestWins as well.              *)
LEMMA ThrowLoses ==
  ASSUME IInv, WorkThrows
  PROVE  Latest!Next
  <1>1. /\ inbox \in Seq(Requests) /\ outbox \in Seq(Requests) /\ inbox # <<>>
        /\ outbox' = outbox /\ inbox' = Tail(inbox) /\ lost' = TRUE
        /\ UNCHANGED <<next, accepted, shown>>
        BY DEF IInv, TypeOK, WorkThrows
  <1>2. Waiting \in Seq(Requests) /\ Waiting' = Waiting
        BY <1>1, MappedQueue DEF IInv, Waiting
  <1> DEFINE t == inbox \o Waiting
             i == Len(outbox) + 1
  <1>3. t \in Seq(Requests) /\ t # <<>> /\ Tail(t) = Tail(inbox) \o Waiting
        BY <1>1, <1>2, TailOfConcat, ConcatProperties
  <1>4. Mapped = outbox \o t
        BY <1>1, <1>2, ConcatAssociative DEF Mapped
  <1>5. Mapped' = outbox \o Tail(t)
        <2>1. Tail(inbox) \in Seq(Requests)
              BY <1>1, TakenFirst
        <2> QED  BY <1>1, <1>2, <1>3, <2>1, ConcatAssociative DEF Mapped
  <1> HIDE DEF t
  <1>6. /\ i \in 1..Len(Mapped)
        /\ SubSeq(Mapped, 1, i - 1) = outbox
        /\ SubSeq(Mapped, i + 1, Len(Mapped)) = Tail(t)
        <2>1. Len(outbox) \in Nat /\ i - 1 = Len(outbox) /\ i + 1 = Len(outbox) + 2
              BY <1>1, LenProperties
        <2>2. /\ Len(outbox) + 1 \in 1..Len(outbox \o t)
              /\ SubSeq(outbox \o t, 1, Len(outbox)) = outbox
              /\ SubSeq(outbox \o t, Len(outbox) + 2, Len(outbox \o t)) = Tail(t)
              BY <1>1, <1>3, PartsOfConcat
        <2> QED  BY <1>4, <2>1, <2>2
  <1> HIDE DEF i
  <1>7. \E k \in 1..Len(Mapped) :
          Mapped' = SubSeq(Mapped, 1, k - 1) \o SubSeq(Mapped, k + 1, Len(Mapped))
        BY <1>5, <1>6
  <1> QED  BY <1>1, <1>7 DEF Latest!Next, Latest!Lose, Mapped, Waiting

LEMMA UndecodableLoses ==
  ASSUME IInv, AnswerUndecodable
  PROVE  Latest!Next
  <1>1. /\ inbox \in Seq(Requests) /\ outbox \in Seq(Requests) /\ outbox # <<>>
        /\ outbox' = Tail(outbox) /\ inbox' = inbox /\ lost' = TRUE
        /\ UNCHANGED <<next, accepted, shown>>
        BY DEF IInv, TypeOK, AnswerUndecodable
  <1>2. Waiting \in Seq(Requests) /\ Waiting' = Waiting
        BY <1>1, MappedQueue DEF IInv, Waiting
  <1>3. Mapped \in Seq(Requests) /\ Mapped # <<>> /\ Mapped' = Tail(Mapped)
        <2>1. outbox \o inbox \in Seq(Requests) /\ outbox \o inbox # <<>>
              /\ Tail(outbox \o inbox) = Tail(outbox) \o inbox
              BY <1>1, TailOfConcat, ConcatProperties
        <2> DEFINE q == outbox \o inbox
        <2>2. Mapped = q \o Waiting /\ Mapped' = Tail(q) \o Waiting
              BY <1>1, <1>2, <2>1 DEF Mapped
        <2> HIDE DEF q
        <2>3. q \o Waiting # <<>> /\ Tail(q \o Waiting) = Tail(q) \o Waiting
              /\ q \o Waiting \in Seq(Requests)
              <3>1. q \in Seq(Requests) /\ q # <<>>
                    BY <2>1 DEF q
              <3> QED  BY <1>2, <3>1, TailOfConcat, ConcatProperties
        <2> QED  BY <2>2, <2>3
  <1>4. /\ 1 \in 1..Len(Mapped)
        /\ SubSeq(Mapped, 1, 1 - 1) = <<>>
        /\ SubSeq(Mapped, 1 + 1, Len(Mapped)) = Tail(Mapped)
        BY <1>3, TakenFirst, TailIsSubSeq, SubSeqEmpty
  <1>5. <<>> \o Tail(Mapped) = Tail(Mapped)
        BY <1>3, TakenFirst, ConcatEmptySeq
  <1>6. \E k \in 1..Len(Mapped) :
          Mapped' = SubSeq(Mapped, 1, k - 1) \o SubSeq(Mapped, k + 1, Len(Mapped))
        BY <1>3, <1>4, <1>5
  <1> QED  BY <1>1, <1>6 DEF Latest!Next, Latest!Lose, Mapped, Waiting

(* An answer that comes is that to the oldest request taken.               *)
LEMMA AnswerAnswers ==
  ASSUME IInv, Answer
  PROVE  Latest!Next
  <1>1. /\ inbox \in Seq(Requests) /\ outbox \in Seq(Requests) /\ outbox # <<>>
        /\ next \in Requests \cup {Null}
        /\ outbox' = Tail(outbox) /\ shown' = Head(outbox)
        /\ UNCHANGED <<accepted, lost>>
        BY DEF IInv, TypeOK, Answer, history
  <1>2. Waiting \in Seq(Requests) /\ inbox \o Waiting \in Seq(Requests)
        /\ Mapped = outbox \o (inbox \o Waiting)
        BY MappedQueue DEF IInv, Mapped
  <1>3. inbox' \o Waiting' = inbox \o Waiting /\ inbox' \in Seq(Requests) /\ Waiting' \in Seq(Requests)
        <2>1. CASE next = Null /\ UNCHANGED <<next, inbox>>
              BY <1>1, <1>2, <2>1 DEF Waiting
        <2>2. CASE next # Null /\ next' = Null /\ inbox' = Append(inbox, next)
              <3>1. next \in Requests
                    BY <1>1, <2>2
              <3>2. Waiting' = <<>> /\ Waiting = <<next>>
                    BY <2>2 DEF Waiting
              <3>3. inbox' \in Seq(Requests) /\ inbox' = inbox \o <<next>>
                    BY <1>1, <2>2, <3>1, AppendIsConcat, AppendProperties
              <3> QED  BY <3>2, <3>3, ConcatEmptySeq, EmptySeq
        <2> QED  BY <2>1, <2>2 DEF Answer
  <1>4. Mapped' = Tail(outbox) \o (inbox \o Waiting)
        <2>1. Tail(outbox) \in Seq(Requests)
              BY <1>1, TakenFirst
        <2>2. Mapped' = (Tail(outbox) \o inbox') \o Waiting'
              BY <1>1 DEF Mapped
        <2>3. (Tail(outbox) \o inbox') \o Waiting' = Tail(outbox) \o (inbox' \o Waiting')
              <3>1. inbox' \in Seq(Requests) /\ Waiting' \in Seq(Requests)
                    BY <1>3
              <3> DEFINE v == inbox'
                         w == Waiting'
                         u == Tail(outbox)
              <3>2. u \in Seq(Requests) /\ v \in Seq(Requests) /\ w \in Seq(Requests)
                    BY <2>1, <3>1
              <3> HIDE DEF u, v, w
              <3>3. (u \o v) \o w = u \o (v \o w)
                    BY <3>2, ConcatAssociative
              <3> QED  BY <3>3 DEF u, v, w
        <2> QED  BY <1>3, <2>2, <2>3
  <1>5. Mapped # <<>> /\ Head(Mapped) = Head(outbox) /\ Mapped' = Tail(Mapped)
        BY <1>1, <1>2, <1>4, TailOfConcat
  <1> QED  BY <1>1, <1>5 DEF Latest!Next, Latest!Answer, Mapped, Waiting

(* Whichever engine it is, and whatever fails, the newest request is kept  *)
(* and the answers come in order: the queues implement LatestWins.         *)
THEOREM QueuesFollowLatestWins == Spec => FollowsLatestWins
  <1>1. Init => Latest!Init
        BY DEF Init, Latest!Init, Latest!Nothing, Null
  <1>2. IInv /\ [Next]_vars => [Latest!Next]_<<Mapped, accepted, shown, lost>>
        <2> SUFFICES ASSUME IInv, [Next]_vars
                     PROVE  Latest!Next \/ UNCHANGED <<Mapped, accepted, shown, lost>>
            OBVIOUS
        <2>1. CASE Boot \/ LoadFails \/ UNCHANGED vars
              BY <2>1 DEF Boot, LoadFails, PageUnchanged, vars, queue, history, Mapped, Waiting
        <2>2. CASE Request
              <3>1. CASE Loaded /\ Submit(asked + 1)
                    <4>1. asked + 1 \in Requests
                          BY <2>2, RequestsAssumption DEF Request, IInv, TypeOK, Requests
                    <4> QED  BY <2>2, <3>1, <4>1, SubmitTakes DEF Request
              <3>2. CASE Postpone(asked + 1, timers)
                    BY <2>2, <3>2 DEF Request, Postpone, queue, Mapped, Waiting
              <3> QED  BY <2>2, <3>1, <3>2 DEF Request
        <2>3. CASE Retry
              <3>1. CASE Loaded /\ Submit(Head(timers))
                    <4>1. Head(timers) \in Requests
                          BY <2>3, TakenFirst DEF Retry, IInv, TypeOK
                    <4> QED  BY <2>3, <3>1, <4>1, SubmitTakes DEF Retry, history
              <3>2. CASE Postpone(Head(timers), Tail(timers))
                    BY <2>3, <3>2 DEF Retry, Postpone, queue, history, Mapped, Waiting
              <3> QED  BY <2>3, <3>1, <3>2 DEF Retry
        <2> QED  BY <2>1, <2>2, <2>3, WorkStutters, ThrowLoses, AnswerAnswers, UndecodableLoses DEF Next
  <1> QED
      BY <1>1, <1>2, Invariance, PTL
      DEF Spec, FollowsLatestWins, Latest!Spec, Latest!vars, Mapped, Waiting

=============================================================================
