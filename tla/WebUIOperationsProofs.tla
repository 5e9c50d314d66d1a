------------------------- MODULE WebUIOperationsProofs -------------------------
(***************************************************************************)
(* What holds of the operations for any number of them, of threads and of  *)
(* crashes: one of them publishes at a time, the status of the one that    *)
(* ended says what it did, and both make up an abstract slot.              *)
(***************************************************************************)
EXTENDS WebUIOperations, TLAPS

-----------------------------------------------------------------------------
(***************************************************************************)
(* Types, and how far an operation is.                                     *)
(***************************************************************************)

\* What the record, the future and the requests of an operation agree on, although
\* each is written in steps of its own and a cancel writes the record at any time:
\* a future is there only once its request was answered, and while it is live the
\* record shows where it is, or canceled.
Agreed(o) ==
  /\ request[o] = "none" <=> status[o] = "none"
  /\ future[o] # "none" => request[o] = "answered"
  /\ request[o] \in {"created", "refused"} => status[o] \in {"pending", "canceled"}
  /\ future[o] \in {"queued", "begin"} => status[o] \in {"pending", "canceled"}
  /\ future[o] \in {"publish", "urls", "bare"} => status[o] \in {"running", "canceled"}
  /\ cancel[o] # "none" => request[o] # "none"
  /\ cancel[o] = "live" => future[o] # "none"

Agreement == \A o \in Op : Agreed(o)

LEMMA TypeInit == Init => TypeOK
BY CrashesAssumption DEF Init, TypeOK, Status, Future, RequestStep, CancelStep

LEMMA TypeNext == TypeOK /\ [Next]_vars => TypeOK'
<1>. SUFFICES ASSUME TypeOK, [Next]_vars PROVE TypeOK'
  OBVIOUS
<1>. USE DEF TypeOK, Status, Future, RequestStep, CancelStep, Terminal
<1>1. CASE UNCHANGED vars
  BY <1>1 DEF vars
<1>2. ASSUME NEW o \in Op, Requesting(o) PROVE TypeOK'
  BY <1>2 DEF Requesting, Create, Start, Refuse
<1>3. ASSUME NEW o \in Op, PickUp(o) PROVE TypeOK'
  BY <1>3 DEF PickUp
<1>4. ASSUME NEW o \in Op, Thread(o) PROVE TypeOK'
  <2>1. CASE Begin(o)
    BY <2>1 DEF Begin
  <2>2. ASSUME NEW new \in SUBSET Target, NEW old \in SUBSET Target, Publish(o, new, old)
        PROVE  TypeOK'
    BY <2>2 DEF Publish
  <2>3. ASSUME NEW recorded \in BOOLEAN, Fail(o, recorded) PROVE TypeOK'
    BY <2>3 DEF Fail
  <2>4. CASE Finish(o)
    BY <2>4 DEF Finish, OutcomeOf
  <2>. QED
    BY <1>4, <2>1, <2>2, <2>3, <2>4 DEF Thread
<1>5. ASSUME NEW o \in Op, AskCancel(o) PROVE TypeOK'
  BY <1>5 DEF AskCancel
<1>6. ASSUME NEW o \in Op, CancelStepOf(o) PROVE TypeOK'
  BY <1>6 DEF CancelStepOf, CancelFuture, Cancelled, CancelOrphan, CancelWrite
<1>7. CASE Crash
  BY <1>7, CrashesAssumption DEF Crash
<1>8. ASSUME NEW t \in Target, PostElsewhere(t) PROVE TypeOK'
  BY <1>8 DEF PostElsewhere
<1>. QED
  BY <1>1, <1>2, <1>3, <1>4, <1>5, <1>6, <1>7, <1>8 DEF Next

LEMMA AgreementInit == Init => Agreement
BY DEF Init, Agreement, Agreed

LEMMA AgreementNext == TypeOK /\ Agreement /\ [Next]_vars => Agreement'
<1>. SUFFICES ASSUME TypeOK, Agreement, [Next]_vars, NEW o \in Op PROVE Agreed(o)'
  BY DEF Agreement
<1>0. Agreed(o)
  BY DEF Agreement
<1>. USE DEF TypeOK, Agreed
<1>1. CASE UNCHANGED vars
  BY <1>0, <1>1 DEF vars
<1>2. ASSUME NEW x \in Op, Requesting(x) PROVE Agreed(o)'
  <2>1. CASE Create(x)
    BY <1>0, <2>1 DEF Create
  <2>2. CASE Start(x)
    <3>1. CASE x = o
      BY <1>0, <2>2, <3>1 DEF Start
    <3>2. CASE x # o
      <4>1. UNCHANGED <<status[o], future[o], request[o], cancel[o]>>
        BY <2>2, <3>2 DEF Start
      <4>. QED
        BY <1>0, <4>1
    <3>. QED
      BY <3>1, <3>2
  <2>3. CASE Refuse(x)
    BY <1>0, <2>3 DEF Refuse
  <2>. QED
    BY <1>2, <2>1, <2>2, <2>3 DEF Requesting
<1>3. ASSUME NEW x \in Op, PickUp(x) PROVE Agreed(o)'
  BY <1>0, <1>3 DEF PickUp
<1>4. ASSUME NEW x \in Op, Thread(x) PROVE Agreed(o)'
  BY <1>0, <1>4 DEF Thread, Begin, Publish, Fail, Finish, OutcomeOf, InThread
<1>5. ASSUME NEW x \in Op, AskCancel(x) PROVE Agreed(o)'
  BY <1>0, <1>5 DEF AskCancel, Live, InThread
<1>6. ASSUME NEW x \in Op, CancelStepOf(x) PROVE Agreed(o)'
  BY <1>0, <1>6 DEF CancelStepOf, CancelFuture, Cancelled, CancelOrphan, CancelWrite
<1>7. CASE Crash
  BY <1>0, <1>7 DEF Crash
<1>8. ASSUME NEW t \in Target, PostElsewhere(t) PROVE Agreed(o)'
  BY <1>0, <1>8 DEF PostElsewhere
<1>. QED
  BY <1>1, <1>2, <1>3, <1>4, <1>5, <1>6, <1>7, <1>8 DEF Next

\* The record, the future and the requests of an operation agree on how far it is
\* (Agreed), and every variable has its type, for every set of operations, every pool
\* and every bound on the crashes.
THEOREM RecordsAgree == Spec => [](TypeOK /\ Agreement)
BY TypeInit, TypeNext, AgreementInit, AgreementNext, PTL DEF Spec

-----------------------------------------------------------------------------
(***************************************************************************)
(* A future is live only if it was, or if start() just submitted it.       *)
(***************************************************************************)

LEMMA LiveStep ==
  ASSUME TypeOK, [Next]_vars, NEW o \in Op, Live(o)'
  PROVE  Live(o) \/ (Start(o) /\ ~(o \in Publishing /\ Busy))
<1>. USE DEF TypeOK, Live, InThread
<1>1. CASE UNCHANGED vars
  BY <1>1 DEF vars
<1>2. ASSUME NEW x \in Op, Create(x) \/ Refuse(x) PROVE Live(o)
  BY <1>2 DEF Create, Refuse
<1>3. ASSUME NEW x \in Op, Start(x)
      PROVE  Live(o) \/ (Start(o) /\ ~(o \in Publishing /\ Busy))
  <2>1. CASE x = o
    <3>1. CASE o \in Publishing /\ Busy
      <4>1. future' = future
        BY <1>3, <2>1, <3>1 DEF Start
      <4>. QED
        BY <4>1
    <3>. QED
      BY <1>3, <2>1, <3>1
  <2>2. CASE x # o
    <3>1. future'[o] = future[o]
      BY <1>3, <2>2 DEF Start
    <3>. QED
      BY <3>1
  <2>. QED
    BY <2>1, <2>2
<1>4. ASSUME NEW x \in Op, PickUp(x) PROVE Live(o)
  BY <1>4 DEF PickUp
<1>5. ASSUME NEW x \in Op, Thread(x) PROVE Live(o)
  BY <1>5 DEF Thread, Begin, Publish, Fail, Finish
<1>6. ASSUME NEW x \in Op, AskCancel(x) \/ CancelStepOf(x) PROVE Live(o)
  BY <1>6 DEF AskCancel, CancelStepOf, CancelFuture, Cancelled, CancelOrphan, CancelWrite
<1>7. CASE Crash
  BY <1>7 DEF Crash
<1>8. ASSUME NEW t \in Target, PostElsewhere(t) PROVE Live(o)
  BY <1>8 DEF PostElsewhere
<1>. QED
  BY <1>1, <1>2, <1>3, <1>4, <1>5, <1>6, <1>7, <1>8 DEF Next, Requesting

LEMMA SingleFlightNext == TypeOK /\ SingleFlight /\ [Next]_vars => SingleFlight'
<1>. SUFFICES ASSUME TypeOK, SingleFlight, [Next]_vars,
                     NEW o \in Publishing, NEW other \in Publishing, Live(o)', Live(other)'
              PROVE  o = other
  BY DEF SingleFlight
<1>1. o \in Op /\ other \in Op
  BY PublishingAssumption
<1>2. Live(o) \/ (Start(o) /\ ~Busy)
  BY <1>1, LiveStep
<1>3. Live(other) \/ (Start(other) /\ ~Busy)
  BY <1>1, LiveStep
<1>4. CASE Live(o) /\ Live(other)
  BY <1>4 DEF SingleFlight
<1>5. CASE Start(o) /\ ~Busy
  <2>1. ~Live(other)
    BY <1>5 DEF Busy
  <2>2. Start(other)
    BY <1>3, <2>1
  <2>3. request'[o] = "answered" /\ request'[other] = "answered" /\ request[other] = "created"
    BY <1>1, <1>5, <2>2 DEF Start, TypeOK
  <2>. QED
    BY <1>1, <1>5, <2>3 DEF Start, TypeOK
<1>6. CASE Start(other) /\ ~Busy
  <2>1. ~Live(o)
    BY <1>6 DEF Busy
  <2>2. Start(o)
    BY <1>2, <2>1
  <2>3. request'[o] = "answered" /\ request[o] = "created"
    BY <1>1, <1>6, <2>2 DEF Start, TypeOK
  <2>. QED
    BY <1>1, <1>6, <2>3 DEF Start, TypeOK
<1>. QED
  BY <1>2, <1>3, <1>4, <1>5, <1>6

\* Two operations of a single-flight kind are never queued or running at a time:
\* start() asks the futures and not the records, which a cancel changes while the
\* thread goes on.
THEOREM OneInFlight == Spec => []SingleFlight
<1>1. Init => SingleFlight
  BY PublishingAssumption DEF Init, SingleFlight, Live, InThread
<1>. QED
  BY <1>1, SingleFlightNext, TypeInit, TypeNext, PTL DEF Spec

-----------------------------------------------------------------------------
(***************************************************************************)
(* A future is submitted once, by the request that created the operation,  *)
(* and goes one way: what was taken out of the queue never published.      *)
(***************************************************************************)

Submitted(o) == request[o] = "answered"

OneWay(o) ==
  /\ ~Submitted(o) => future[o] = "none"
  /\ o \in posted => Submitted(o) /\ future[o] \in {"urls", "done", "none"}
  /\ o \in dropped => Submitted(o) /\ ~Live(o) /\ o \notin posted
  /\ future[o] = "urls" \/ status[o] = "success" =>
       o \in Publishing /\ Rows[o] \cap live # {} /\ Submitted(o)

History == \A o \in Op : OneWay(o)

LEMMA HistoryNext == TypeOK /\ History /\ [Next]_vars => History'
<1>. SUFFICES ASSUME TypeOK, History, [Next]_vars, NEW o \in Op PROVE OneWay(o)'
  BY DEF History
<1>. OneWay(o)
  BY DEF History
<1>. USE DEF OneWay, Submitted, Live, InThread, TypeOK
<1>1. CASE UNCHANGED vars
  BY <1>1 DEF vars
<1>2. ASSUME NEW x \in Op, Create(x) PROVE OneWay(o)'
  BY <1>2 DEF Create
<1>3. ASSUME NEW x \in Op, Start(x) PROVE OneWay(o)'
  BY <1>3 DEF Start
<1>4. ASSUME NEW x \in Op, Refuse(x) PROVE OneWay(o)'
  BY <1>4 DEF Refuse
<1>5. ASSUME NEW x \in Op, PickUp(x) PROVE OneWay(o)'
  BY <1>5 DEF PickUp
<1>6. ASSUME NEW x \in Op, Begin(x) PROVE OneWay(o)'
  BY <1>6 DEF Begin
<1>7. ASSUME NEW x \in Op, NEW new \in SUBSET Target, NEW old \in SUBSET Target, Publish(x, new, old)
      PROVE  OneWay(o)'
  <2>0. live \subseteq live'
    BY <1>7 DEF Publish
  <2>1. CASE x = o
    <3>1. Submitted(o) /\ o \notin dropped /\ o \notin posted /\ o \in Publishing
      BY <1>7, <2>1 DEF Publish
    <3>2. /\ future'[o] = (IF new \cup old # {} THEN "urls" ELSE "bare")
          /\ o \in posted' => new # {}
          /\ live' = live \cup new /\ UNCHANGED <<status, request, dropped>>
      BY <1>7, <2>1, <3>1 DEF Publish
    <3>3. future'[o] = "urls" => Rows[o] \cap live' # {}
      BY <1>7, <2>1, <3>2 DEF Publish
    <3>4. o \in posted' => future'[o] = "urls"
      BY <3>2
    <3>. QED
      BY <2>0, <3>1, <3>2, <3>3, <3>4
  <2>2. CASE x # o
    <3>1. /\ future'[o] = future[o] /\ (o \in posted' <=> o \in posted)
          /\ UNCHANGED <<status, request, dropped>>
      BY <1>7, <2>2 DEF Publish
    <3>. QED
      BY <2>0, <3>1
  <2>. QED
    BY <2>1, <2>2
<1>8. ASSUME NEW x \in Op, NEW recorded \in BOOLEAN, Fail(x, recorded) PROVE OneWay(o)'
  BY <1>8 DEF Fail
<1>9. ASSUME NEW x \in Op, Finish(x) PROVE OneWay(o)'
  BY <1>9 DEF Finish, OutcomeOf
<1>10. ASSUME NEW x \in Op, AskCancel(x) PROVE OneWay(o)'
  BY <1>10 DEF AskCancel
<1>11. ASSUME NEW x \in Op, CancelFuture(x) PROVE OneWay(o)'
  <2>1. CASE x = o
    BY <1>11, <2>1 DEF CancelFuture, Cancelled
  <2>2. CASE x # o
    <3>1. /\ future'[o] = future[o] /\ (o \in dropped' <=> o \in dropped)
          /\ UNCHANGED <<status, request, live, posted>>
      BY <1>11, <2>2 DEF CancelFuture, Cancelled
    <3>. QED
      BY <3>1
  <2>. QED
    BY <2>1, <2>2
<1>12. ASSUME NEW x \in Op, CancelOrphan(x) \/ CancelWrite(x) PROVE OneWay(o)'
  BY <1>12 DEF CancelOrphan, CancelWrite
<1>13. CASE Crash
  BY <1>13 DEF Crash
<1>14. ASSUME NEW t \in Target, PostElsewhere(t) PROVE OneWay(o)'
  <2>1. live \subseteq live'
    BY <1>14 DEF PostElsewhere
  <2>. QED
    BY <1>14, <2>1 DEF PostElsewhere
<1>. QED
  BY <1>1, <1>2, <1>3, <1>4, <1>5, <1>6, <1>7, <1>8, <1>9, <1>10, <1>11, <1>12, <1>13, <1>14
  DEF Next, Requesting, Thread, CancelStepOf

\* A green operation has a target with a post, its own or one that the rows it skipped
\* carry, and one that a cancel took out of the queue never posts, in whatever order
\* the threads and the requests write the record.
THEOREM Honest == Spec => []OutcomeIsHonest
<1>1. Init => History
  BY DEF Init, History, OneWay, Submitted, Live, InThread
<1>2. History => OutcomeIsHonest
  BY DEF History, OneWay, OutcomeIsHonest
<1>. QED
  BY <1>1, <1>2, HistoryNext, TypeInit, TypeNext, PTL DEF Spec

-----------------------------------------------------------------------------
(***************************************************************************)
(* The operations implement PublishSlot.  Which step of the slot a step is *)
(* depends on who flies (SingleFlight), on the request being answered once *)
(* (OneWay), and on records that say success only when the flight is over  *)
(* (Agreement).                                                            *)
(***************************************************************************)

LEMMA NotYetGreen ==
  ASSUME Agreement, NEW o \in Op, Live(o)
  PROVE  status[o] # "success"
BY DEF Agreement, Agreed, Live, InThread

Flying == {o \in Publishing : Live(o)}
Closed == {o \in Publishing : request[o] \in {"refused", "answered"}}
Green == {o \in Publishing : status[o] = "success"}

\* The slot is one operation's.
LEMMA FlyingAlone ==
  ASSUME SingleFlight, NEW o \in Publishing, Live(o)
  PROVE  Flying = {o}
BY DEF SingleFlight, Flying

SlotMoves(S, C, G) ==
  Flying' = S /\ Closed' = C /\ Green' = G /\ UNCHANGED <<live, posted>>

\* What a step about one operation leaves alone.
LEMMA SlotStays ==
  ASSUME TypeOK,
         \A o \in Publishing : Live(o)' = Live(o),
         \A o \in Publishing : request'[o] = request[o]
           \/ {request[o], request'[o]} \subseteq {"refused", "answered"}
           \/ {request[o], request'[o]} \subseteq {"none", "created"},
         \A o \in Publishing : status'[o] = status[o]
           \/ (status[o] # "success" /\ status'[o] # "success"),
         UNCHANGED <<live, posted>>
  PROVE  SlotMoves(Flying, Closed, Green)
<1>1. Flying' = Flying
  BY DEF Flying
<1>2. Closed' = Closed
  BY DEF Closed
<1>3. Green' = Green
  BY DEF Green
<1>. QED
  BY <1>1, <1>2, <1>3 DEF SlotMoves

LEMMA SlotRequest ==
  ASSUME TypeOK, History, NEW x \in Op, Requesting(x)
  PROVE  \/ SlotMoves(Flying, Closed, Green)
         \/ /\ x \in Publishing
            /\ \/ SlotMoves(Flying, Closed \cup {x}, Green)
               \/ /\ Flying = {} /\ x \notin Closed
                  /\ SlotMoves({x}, Closed \cup {x}, Green)
<1>. USE PublishingAssumption DEF TypeOK
<1>1. CASE Create(x)
  BY <1>1, SlotStays DEF Create, Live, InThread
<1>2. CASE Refuse(x)
  <2>1. status[x] # "success"
    <3>1. ~Submitted(x)
      BY <1>2 DEF Refuse, Submitted
    <3>. QED
      BY <3>1 DEF History, OneWay
  <2>. QED
    BY <1>2, <2>1, SlotStays DEF Refuse, Live, InThread
<1>3. CASE Start(x) /\ x \in Publishing /\ Busy
  <2>1. /\ future' = future /\ request' = [request EXCEPT ![x] = "refused"]
        /\ UNCHANGED <<status, live, posted>>
    BY <1>3 DEF Start
  <2>2. Flying' = Flying /\ Green' = Green
    BY <2>1 DEF Flying, Green, Live, InThread
  <2>3. Closed' = Closed \cup {x}
    BY <1>3, <2>1 DEF Closed
  <2>. QED
    BY <1>3, <2>1, <2>2, <2>3 DEF SlotMoves
<1>4. CASE Start(x) /\ x \in Publishing /\ ~Busy
  <2>1. /\ future' = [future EXCEPT ![x] = "queued"] /\ request[x] = "created"
        /\ request' = [request EXCEPT ![x] = "answered"]
        /\ UNCHANGED <<status, live, posted>>
    BY <1>4 DEF Start
  <2>2. Flying = {}
    BY <1>4 DEF Flying, Busy
  <2>3. Flying' = {x}
    BY <1>4, <2>1 DEF Flying, Busy, Live, InThread
  <2>4. Closed' = Closed \cup {x} /\ x \notin Closed
    BY <1>4, <2>1 DEF Closed
  <2>5. Green' = Green
    BY <2>1 DEF Green
  <2>. QED
    BY <1>4, <2>1, <2>2, <2>3, <2>4, <2>5 DEF SlotMoves
<1>5. CASE Start(x) /\ x \notin Publishing
  BY <1>5, SlotStays DEF Start, Live, InThread
<1>. QED
  BY <1>1, <1>2, <1>3, <1>4, <1>5 DEF Requesting

LEMMA SlotThread ==
  ASSUME TypeOK, SingleFlight, History, Agreement, NEW x \in Op, PickUp(x) \/ Thread(x)
  PROVE  \/ SlotMoves(Flying, Closed, Green)
         \/ /\ x \in Flying
            /\ \/ /\ UNCHANGED <<Flying, Closed, Green>>
                  /\ \E new \in SUBSET Target :
                       /\ new \subseteq Rows[x] /\ new # {}
                       /\ live' = live \cup new /\ posted' = posted \cup {x}
               \/ SlotMoves({}, Closed, Green)
               \/ Rows[x] \cap live # {} /\ SlotMoves({}, Closed, Green \cup {x})
<1>. USE PublishingAssumption DEF TypeOK
<1>1. CASE PickUp(x)
  BY <1>1, SlotStays DEF PickUp, Live, InThread
<1>2. CASE Begin(x)
  <2>1. status[x] # "success"
    BY <1>2, NotYetGreen DEF Begin, Live, InThread
  <2>. QED
    BY <1>2, <2>1, SlotStays DEF Begin, Live, InThread
<1>3. ASSUME NEW new \in SUBSET Target, NEW old \in SUBSET Target, Publish(x, new, old)
      PROVE  \/ SlotMoves(Flying, Closed, Green)
             \/ /\ x \in Flying /\ UNCHANGED <<Flying, Closed, Green>>
                /\ new \subseteq Rows[x] /\ new # {}
                /\ live' = live \cup new /\ posted' = posted \cup {x}
  <2>1. x \in Flying
    BY <1>3 DEF Publish, Flying, Live, InThread
  <2>2. Flying' = Flying /\ Closed' = Closed /\ Green' = Green
    BY <1>3 DEF Publish, Flying, Closed, Green, Live, InThread
  <2>3. CASE new = {}
    BY <1>3, <2>2, <2>3 DEF Publish, SlotMoves
  <2>4. CASE new # {}
    BY <1>3, <2>1, <2>2, <2>4 DEF Publish
  <2>. QED
    BY <2>3, <2>4
<1>4. ASSUME NEW recorded \in BOOLEAN, Fail(x, recorded)
      PROVE  \/ SlotMoves(Flying, Closed, Green)
             \/ x \in Flying /\ SlotMoves({}, Closed, Green)
  <2>1. Live(x) /\ status[x] # "success"
    BY <1>4, NotYetGreen DEF Fail, Live
  <2>2. CASE x \notin Publishing
    BY <1>4, <2>2, SlotStays DEF Fail, Live, InThread
  <2>3. CASE x \in Publishing
    <3>1. Flying = {x}
      BY <2>1, <2>3, FlyingAlone
    <3>2. Flying' = {}
      BY <1>4, <3>1 DEF Fail, Flying, Live, InThread
    <3>3. Closed' = Closed /\ UNCHANGED <<live, posted>>
      BY <1>4 DEF Fail, Closed
    <3>4. Green' = Green
      BY <1>4, <2>1 DEF Fail, Green
    <3>. QED
      BY <3>1, <3>2, <3>3, <3>4 DEF SlotMoves
  <2>. QED
    BY <2>2, <2>3
<1>5. CASE Finish(x)
  <2>1. Live(x) /\ status[x] # "success"
    BY <1>5, NotYetGreen DEF Finish, Live, InThread
  <2>2. CASE x \notin Publishing
    BY <1>5, <2>2, SlotStays DEF Finish, Live, InThread
  <2>3. CASE x \in Publishing
    <3>1. Flying = {x}
      BY <2>1, <2>3, FlyingAlone
    <3>2. Flying' = {}
      BY <1>5, <3>1 DEF Finish, Flying, Live, InThread
    <3>3. Closed' = Closed /\ UNCHANGED <<live, posted>>
      BY <1>5 DEF Finish, Closed
    <3>4. future[x] = "bare" => Green' = Green
      BY <1>5, <2>1 DEF Finish, OutcomeOf, Green
    <3>5. future[x] = "urls" => Green' = Green \cup {x} /\ Rows[x] \cap live # {}
      BY <1>5, <2>3 DEF Finish, OutcomeOf, Green, History, OneWay
    <3>. QED
      BY <1>5, <3>1, <3>2, <3>3, <3>4, <3>5 DEF SlotMoves, Finish
  <2>. QED
    BY <2>2, <2>3
<1>. QED
  BY <1>1, <1>2, <1>3, <1>4, <1>5 DEF Thread

LEMMA SlotCancel ==
  ASSUME TypeOK, SingleFlight, NEW x \in Op, AskCancel(x) \/ CancelStepOf(x)
  PROVE  \/ SlotMoves(Flying, Closed, Green)
         \/ x \in Flying /\ SlotMoves({}, Closed, Green)
         \/ x \in Publishing /\ SlotMoves(Flying, Closed, Green \ {x})
<1>. USE PublishingAssumption DEF TypeOK
<1>1. CASE AskCancel(x) \/ CancelOrphan(x)
  BY <1>1, SlotStays DEF AskCancel, CancelOrphan, Live, InThread
<1>2. CASE CancelFuture(x) /\ x \in Publishing /\ future[x] = "queued"
  <2>1. Flying = {x}
    BY <1>2, FlyingAlone DEF Live
  <2>2. Flying' = {}
    BY <1>2, <2>1 DEF CancelFuture, Cancelled, Flying, Live, InThread
  <2>3. Closed' = Closed /\ UNCHANGED <<live, posted>> /\ Green' = Green
    BY <1>2 DEF CancelFuture, Closed, Green
  <2>. QED
    BY <2>1, <2>2, <2>3 DEF SlotMoves
<1>3. CASE CancelFuture(x) /\ ~(x \in Publishing /\ future[x] = "queued")
  BY <1>3, SlotStays DEF CancelFuture, Cancelled, Live, InThread
<1>4. CASE CancelWrite(x) /\ x \in Publishing
  <2>1. Green' = Green \ {x}
    BY <1>4 DEF CancelWrite, Green
  <2>2. Flying' = Flying /\ Closed' = Closed /\ UNCHANGED <<live, posted>>
    BY <1>4 DEF CancelWrite, Flying, Closed, Live, InThread
  <2>. QED
    BY <1>4, <2>1, <2>2 DEF SlotMoves
<1>5. CASE CancelWrite(x) /\ x \notin Publishing
  BY <1>5, SlotStays DEF CancelWrite, Live, InThread
<1>. QED
  BY <1>1, <1>2, <1>3, <1>4, <1>5 DEF CancelStepOf

LEMMA SlotStep ==
  TypeOK /\ SingleFlight /\ History /\ Agreement /\ [Next]_vars => [Slot!Next]_(Slot!vars)
<1>. SUFFICES ASSUME TypeOK, SingleFlight, History, Agreement, [Next]_vars
              PROVE  [Slot!Next]_(Slot!vars)
  OBVIOUS
<1>0. Flying \subseteq Publishing
  BY DEF Flying
<1>1. SlotMoves(Flying, Closed, Green) => UNCHANGED Slot!vars
  BY DEF SlotMoves, Flying, Closed, Green, Slot!vars
<1>2. CASE UNCHANGED vars
  <2>1. SlotMoves(Flying, Closed, Green)
    BY <1>2 DEF vars, SlotMoves, Flying, Closed, Green, Live, InThread
  <2>. QED
    BY <1>1, <2>1
<1>3. ASSUME NEW x \in Op, Requesting(x) PROVE [Slot!Next]_(Slot!vars)
  <2>1. ASSUME x \in Publishing, SlotMoves(Flying, Closed \cup {x}, Green)
        PROVE  Slot!Close(x)
    BY <2>1 DEF SlotMoves, Flying, Closed, Green, Slot!Close
  <2>2. ASSUME x \in Publishing, Flying = {}, x \notin Closed,
               SlotMoves({x}, Closed \cup {x}, Green)
        PROVE  Slot!Take(x)
    BY <2>2 DEF SlotMoves, Flying, Closed, Green, Slot!Take
  <2>. QED
    BY <1>1, <1>3, <2>1, <2>2, SlotRequest DEF Slot!Next
<1>4. ASSUME NEW x \in Op, PickUp(x) \/ Thread(x) PROVE [Slot!Next]_(Slot!vars)
  <2>1. ASSUME x \in Flying, UNCHANGED <<Flying, Closed, Green>>, NEW new \in SUBSET Target,
               new \subseteq Rows[x], new # {}, live' = live \cup new, posted' = posted \cup {x}
        PROVE  Slot!Post(x, new)
    BY <2>1 DEF Flying, Closed, Green, Slot!Post
  <2>2. ASSUME x \in Flying, SlotMoves({}, Closed, Green)
        PROVE  Slot!Leave(x)
    BY <2>2 DEF SlotMoves, Flying, Closed, Green, Slot!Leave
  <2>3. ASSUME x \in Flying, Rows[x] \cap live # {}, SlotMoves({}, Closed, Green \cup {x})
        PROVE  Slot!Succeed(x)
    BY <2>3 DEF SlotMoves, Flying, Closed, Green, Slot!Succeed
  <2>. QED
    BY <1>0, <1>1, <1>4, <2>1, <2>2, <2>3, SlotThread DEF Slot!Next
<1>5. ASSUME NEW x \in Op, AskCancel(x) \/ CancelStepOf(x) PROVE [Slot!Next]_(Slot!vars)
  <2>1. ASSUME x \in Flying, SlotMoves({}, Closed, Green)
        PROVE  Slot!Leave(x)
    BY <2>1 DEF SlotMoves, Flying, Closed, Green, Slot!Leave
  <2>2. ASSUME SlotMoves(Flying, Closed, Green \ {x})
        PROVE  Slot!Retract(x)
    BY <2>2 DEF SlotMoves, Flying, Closed, Green, Slot!Retract
  <2>. QED
    BY <1>0, <1>1, <1>5, <2>1, <2>2, SlotCancel DEF Slot!Next
<1>6. CASE Crash
  <2>1. Flying' = {}
    BY <1>6, PublishingAssumption DEF Crash, Flying, Live, InThread
  <2>2. Closed \subseteq Closed' /\ Closed' \subseteq Publishing
    BY <1>6, PublishingAssumption DEF Crash, Closed
  <2>3. UNCHANGED <<live, posted>> /\ Green' = Green
    BY <1>6 DEF Crash, Green
  <2>4. Slot!Die
    BY <2>1, <2>2, <2>3 DEF Flying, Closed, Green, Slot!Die
  <2>. QED
    BY <2>4 DEF Slot!Next
<1>7. ASSUME NEW t \in Target, PostElsewhere(t) PROVE [Slot!Next]_(Slot!vars)
  <2>1. Flying' = Flying /\ Closed' = Closed /\ Green' = Green
    BY <1>7 DEF PostElsewhere, Flying, Closed, Green, Live, InThread
  <2>2. Slot!PostElsewhere(t)
    BY <1>7, <2>1 DEF PostElsewhere, Flying, Closed, Green, Slot!PostElsewhere
  <2>. QED
    BY <2>2 DEF Slot!Next
<1>. QED
  BY <1>2, <1>3, <1>4, <1>5, <1>6, <1>7 DEF Next

\* The operations that publish share one slot: each has it at most once, posts only
\* while it has it, and turns green only as it leaves it and only if one of its targets
\* has a post, for any operations, rows, threads, cancels and crashes.
THEOREM SlotImplemented == Spec => ImplementsSlot
<1>1. Init => Slot!Init
  BY PublishingAssumption DEF Init, Live, InThread, Slot!Init
<1>2. Init => History
  BY DEF Init, History, OneWay, Submitted, Live, InThread
<1>. QED
  BY <1>1, <1>2, SlotStep, HistoryNext, AgreementInit, AgreementNext, TypeInit, TypeNext, OneInFlight, PTL
  DEF Spec, ImplementsSlot, Slot!Spec

=============================================================================
