------------------------- MODULE EventProjectionProofs -------------------------
(***************************************************************************)
(* What the event log says of the checkpoints, for any number of runs,     *)
(* items, targets, URLs and reconcilers, flushes that interleave at every  *)
(* step and writes of a checkpoint that undo each other; and that          *)
(* EventProjection implements PostLedger.                                  *)
(***************************************************************************)
EXTENDS EventProjection, TLAPS

-----------------------------------------------------------------------------
(***************************************************************************)
(* Types, and what every process has in its hands.  A row that a process   *)
(* read may be old, but it was true: it is done only with a post, and has  *)
(* a URL only when its run got it.  This is what a write may rely on.      *)
(***************************************************************************)

Landed(t) == \E u \in Live : posts[u] = t

Good(i, s) ==
  /\ s.status = "done" => Landed(TargetOf[i])
  /\ s.url # NoUrl => s.status = "done" /\ <<i, s.url>> \in sent
  /\ s.status = "policy_skip" => i \in skipped

\* A flush has a checkpoint, a run that of its own; an outcome that is not recorded is
\* one of an item of a run that goes on.
ProcGood(p, c) ==
  /\ c.pc \in {"load", "write"} => c.run \in Run /\ (p \in Run => c.run = p)
  /\ c.item # NoItem =>
       /\ p \in Run /\ c.pc \in {"going", "save"} /\ RunOf[c.item] = p
       /\ Good(c.item, c.row)
  /\ c.pc = "save" => c.item # NoItem
  /\ p \in Run => \A i \in c.left : RunOf[i] = p
  /\ \A i \in Item : Good(i, c.seen[i])

\* A reconciler has items whose record is done.
ReconGood(d) ==
  /\ \A i \in Item : Good(i, d.seen[i])
  /\ \A i \in d.todo : TargetOf[i] \in settled
  /\ d.pc = "fix" => d.item \in Item /\ TargetOf[d.item] \in settled

PostsGood ==
  /\ \A t \in settled : Landed(t)
  /\ \A s \in sent : posts[s[2]] = TargetOf[s[1]]

TypeInv ==
  /\ TypeOK /\ PostsGood
  /\ \A i \in Item : Good(i, file[i])
  /\ \A p \in Process : ProcGood(p, proc[p])
  /\ \A c \in Reconciler : ReconGood(recon[c])

\* Nothing is taken back.
Grows ==
  /\ sent \subseteq sent' /\ skipped \subseteq skipped' /\ settled \subseteq settled'
  /\ \A u \in Live : posts[u] # NoTarget => posts'[u] = posts[u]

LEMMA ClaimType ==
  /\ \A s \in ItemState : Claim(s) \in Claims
  /\ Pending \in ItemState /\ Claim(Pending) = Pending
  /\ NoClaim \in Claims
  /\ NoCursor \in [Item -> Claims]
  /\ NoRows \in [Item -> ItemState]
  /\ \A url \in Live \cup {NoUrl} : DoneAt(url) \in ItemState
  /\ \A class \in {"failed", "policy_skip"} : Failed(class) \in ItemState
BY DEF Claims, Claim, Pending, ItemState, NoCursor, NoRows, DoneAt, Failed

LEMMA PendingGood == \A i : Good(i, Pending) /\ NoRows \in [Item -> {Pending}]
BY DEF Good, Pending, NoRows

LEMMA AtType ==
  ASSUME NEW pc \in PC
  PROVE  /\ At(pc) \in ProcState
         /\ At(pc).pc = pc /\ At(pc).item = NoItem /\ At(pc).left = {} /\ At(pc).seen = NoRows
BY ClaimType DEF At, ProcState

LEMMA AtGood ==
  ASSUME NEW p, NEW pc \in PC, pc \notin {"load", "write", "save"}
  PROVE  ProcGood(p, At(pc))
BY AtType, PendingGood DEF ProcGood, At

LEMMA RowsNowGood ==
  ASSUME TypeInv, NEW r
  PROVE  /\ RowsNow(r) \in [Item -> ItemState]
         /\ \A i \in Item : Good(i, RowsNow(r)[i])
<1>1. RowsNow(r) \in [Item -> ItemState]
  BY ClaimType DEF TypeInv, TypeOK, RowsNow
<1>2. ASSUME NEW i \in Item PROVE Good(i, RowsNow(r)[i])
  <2>1. CASE RunOf[i] = r
    BY <2>1 DEF TypeInv, RowsNow
  <2>2. CASE RunOf[i] # r
    BY <2>2, PendingGood DEF RowsNow
  <2>. QED
    BY <2>1, <2>2
<1>. QED
  BY <1>1, <1>2

LEMMA TypeInit == Init => TypeInv
<1>. SUFFICES ASSUME Init PROVE TypeInv
  OBVIOUS
<1>1. ASSUME NEW p \in Process PROVE proc[p] \in ProcState /\ ProcGood(p, proc[p])
  <2>1. PICK pc \in {"idle", "none"} : proc[p] = At(pc)
    BY DEF Init
  <2>. QED
    BY <2>1, AtType, AtGood DEF PC
<1>2. proc \in [Process -> ProcState]
  BY <1>1 DEF Init
<1>3. file \in [Item -> ItemState] /\ cursor \in [Run -> [Item -> Claims]]
  BY ClaimType DEF Init
<1>4. Pass("idle", {}) \in ReconState /\ ReconGood(Pass("idle", {}))
  BY ClaimType, PendingGood DEF Pass, ReconState, ReconGood
<1>5. \A c \in Reconciler : recon[c] = Pass("idle", {})
  BY DEF Init
<1>6. recon \in [Reconciler -> ReconState] /\ \A c \in Reconciler : ReconGood(recon[c])
  BY <1>4, <1>5 DEF Init
<1>7. \A i \in Item : Good(i, file[i])
  BY PendingGood DEF Init
<1>8. TypeOK
  BY <1>2, <1>3, <1>6, ResumesAssumption DEF Init, TypeOK
<1>. QED
  BY <1>1, <1>6, <1>7, <1>8 DEF Init, TypeInv, PostsGood

LEMMA GoodStays ==
  ASSUME Grows, NEW i \in Item, NEW s, Good(i, s)
  PROVE  Good(i, s)'
<1>1. TargetOf[i] # NoTarget
  BY TargetOfAssumption, OutsidersAssumption
<1>2. Landed(TargetOf[i]) => Landed(TargetOf[i])'
  BY <1>1 DEF Landed, Grows
<1>. QED
  BY <1>2 DEF Good, Grows

LEMMA ProcGoodStays ==
  ASSUME Grows, NEW p \in Process, NEW c \in ProcState, ProcGood(p, c)
  PROVE  ProcGood(p, c)'
<1>1. \A i \in Item : Good(i, c.seen[i])'
  BY GoodStays DEF ProcGood
<1>2. c.item # NoItem => Good(c.item, c.row)'
  BY GoodStays DEF ProcGood, ProcState
<1>. QED
  BY <1>1, <1>2 DEF ProcGood

LEMMA ReconGoodStays ==
  ASSUME Grows, NEW d, ReconGood(d)
  PROVE  ReconGood(d)'
<1>1. \A i \in Item : Good(i, d.seen[i])'
  BY GoodStays DEF ReconGood
<1>. QED
  BY <1>1 DEF ReconGood, Grows

\* A step of one process, or of none.
LEMMA ProcsStay ==
  ASSUME TypeInv, Grows,
         \/ UNCHANGED proc
         \/ \E p \in Process, c \in ProcState : proc' = [proc EXCEPT ![p] = c] /\ ProcGood(p, c)'
  PROVE  proc' \in [Process -> ProcState] /\ \A q \in Process : ProcGood(q, proc[q])'
<1>0. proc \in [Process -> ProcState] /\ \A q \in Process : ProcGood(q, proc[q])
  BY DEF TypeInv, TypeOK
<1>1. ASSUME NEW q \in Process, proc'[q] = proc[q] PROVE ProcGood(q, proc[q])'
  <2>1. PICK c : c = proc[q]
    OBVIOUS
  <2>2. ProcGood(q, c)'
    BY <1>0, <2>1, ProcGoodStays
  <2>. QED
    BY <1>1, <2>1, <2>2 DEF ProcGood, Good, Landed
<1>2. CASE UNCHANGED proc
  BY <1>0, <1>1, <1>2
<1>3. ASSUME NEW p \in Process, NEW c \in ProcState, proc' = [proc EXCEPT ![p] = c], ProcGood(p, c)'
      PROVE  proc' \in [Process -> ProcState] /\ \A q \in Process : ProcGood(q, proc[q])'
  <2>1. proc' \in [Process -> ProcState] /\ proc'[p] = c
    BY <1>0, <1>3
  <2>2. ProcGood(p, proc[p])'
    BY <1>3, <2>1 DEF ProcGood, Good, Landed
  <2>3. \A q \in Process : q # p => proc'[q] = proc[q]
    BY <1>0, <1>3
  <2>. QED
    BY <1>1, <2>1, <2>2, <2>3
<1>. QED
  BY <1>2, <1>3

\* A step of one reconciler, or of none.
LEMMA ReconsStay ==
  ASSUME TypeInv, Grows,
         \/ UNCHANGED recon
         \/ \E c \in Reconciler, d \in ReconState : recon' = [recon EXCEPT ![c] = d] /\ ReconGood(d)
  PROVE  recon' \in [Reconciler -> ReconState] /\ \A c \in Reconciler : ReconGood(recon[c])'
<1>0. recon \in [Reconciler -> ReconState] /\ \A c \in Reconciler : ReconGood(recon[c])
  BY DEF TypeInv, TypeOK
<1>1. ASSUME NEW c \in Reconciler, NEW d, ReconGood(d), recon'[c] = d PROVE ReconGood(recon[c])'
  <2>1. ReconGood(d)'
    BY <1>1, ReconGoodStays
  <2>. QED
    BY <1>1, <2>1 DEF ReconGood, Good, Landed
<1>2. CASE UNCHANGED recon
  BY <1>0, <1>1, <1>2
<1>3. ASSUME NEW x \in Reconciler, NEW d \in ReconState, recon' = [recon EXCEPT ![x] = d], ReconGood(d)
      PROVE  recon' \in [Reconciler -> ReconState] /\ \A c \in Reconciler : ReconGood(recon[c])'
  <2>1. recon' \in [Reconciler -> ReconState] /\ recon'[x] = d
    BY <1>0, <1>3
  <2>2. \A c \in Reconciler : c # x => recon'[c] = recon[c]
    BY <1>0, <1>3
  <2>. QED
    BY <1>0, <1>1, <1>3, <2>1, <2>2
<1>. QED
  BY <1>2, <1>3

\* The rows of the file after a step.
LEMMA FileStays ==
  ASSUME TypeInv, Grows, lost' \subseteq sent',
         \/ UNCHANGED file
         \/ \E r : \E rows \in [Item -> ItemState] :
              Write(r, rows) /\ \A i \in Item : Good(i, rows[i])
  PROVE  file' \in [Item -> ItemState] /\ \A i \in Item : Good(i, file[i])'
<1>0. file \in [Item -> ItemState] /\ \A i \in Item : Good(i, file[i])
  BY DEF TypeInv, TypeOK
<1>1. ASSUME NEW i \in Item, NEW s, Good(i, s), file'[i] = s PROVE Good(i, file[i])'
  <2>1. Good(i, s)'
    BY <1>1, GoodStays
  <2>. QED
    BY <1>1, <2>1 DEF Good, Landed
<1>2. CASE UNCHANGED file
  BY <1>0, <1>1, <1>2
<1>3. ASSUME NEW r, NEW rows \in [Item -> ItemState], Write(r, rows), \A i \in Item : Good(i, rows[i])
      PROVE  file' \in [Item -> ItemState] /\ \A i \in Item : Good(i, file[i])'
  <2>1. file' = [i \in Item |-> IF RunOf[i] = r THEN rows[i] ELSE file[i]]
    BY <1>3 DEF Write
  <2>. QED
    BY <1>0, <1>1, <1>3, <2>1
<1>. QED
  BY <1>2, <1>3

\* A step that publishes nothing.
LEMMA Quiet ==
  ASSUME UNCHANGED <<sent, skipped, settled, posts>>
  PROVE  Grows
BY DEF Grows

LEMMA PostsStay ==
  ASSUME TypeInv, UNCHANGED <<sent, settled, posts>>
  PROVE  PostsGood'
BY DEF TypeInv, PostsGood, Landed

LEMMA WriteType ==
  ASSUME TypeInv, NEW r, NEW rows, Write(r, rows)
  PROVE  lost' \subseteq sent' /\ UNCHANGED <<sent, skipped>>
BY DEF TypeInv, TypeOK, Write

LEMMA TypePublishing ==
  ASSUME TypeInv, NEW r \in Run, Publishing(r)
  PROVE  TypeInv'
<1>0. /\ r \in Process /\ proc[r] \in ProcState /\ ProcGood(r, proc[r])
      /\ TypeOK /\ proc \in [Process -> ProcState] /\ r # Dashboard
  BY OutsidersAssumption DEF TypeInv, TypeOK, Process
<1>. DEFINE Steps(c) == proc' = [proc EXCEPT ![r] = c]
\* A step that writes nothing.
<1>1. ASSUME NEW c \in ProcState, Steps(c), ProcGood(r, c)', Grows, PostsGood', TypeOK',
             UNCHANGED <<file, recon>>
      PROVE  TypeInv'
  <2>1. lost' \subseteq sent'
    BY <1>1 DEF TypeOK
  <2>. QED
    BY <1>0, <1>1, <2>1, ProcsStay, ReconsStay, FileStays DEF TypeInv
<1>2. ASSUME NEW c \in ProcState, Steps(c), ProcGood(r, c), UNCHANGED <<file, logged, published, recon>>,
             UNCHANGED <<sent, skipped>>, lost' \subseteq sent, resumes' \in [Run -> 0..MaxResumes]
      PROVE  TypeInv'
  <2>1. Grows /\ PostsGood'
    BY <1>2, Quiet, PostsStay DEF published
  <2>2. ProcGood(r, c)'
    BY <1>0, <1>2, <2>1, ProcGoodStays
  <2>3. proc' \in [Process -> ProcState]
    BY <1>0, <1>2
  <2>4. TypeOK'
    BY <1>0, <1>2, <2>3 DEF TypeOK, logged, published
  <2>. QED
    BY <1>1, <1>2, <2>1, <2>2, <2>4
<1>3. CASE Create(r)
  <2>. DEFINE c == [At("going") EXCEPT !.left = Rows(r)]
  <2>1. c \in ProcState /\ ProcGood(r, c)
    BY AtType, AtGood DEF PC, ProcState, ProcGood, Rows
  <2>2. Steps(c) /\ UNCHANGED <<file, logged, published, recon, sent, skipped, lost, resumes>>
    BY <1>3 DEF Create, history
  <2>. HIDE DEF c
  <2>. QED
    BY <1>0, <1>2, <2>1, <2>2 DEF TypeOK
<1>4. CASE Resume(r)
  <2>. DEFINE left == {i \in Rows(r) : file[i].status \in {"pending", "failed"}}
              c == [At("going") EXCEPT !.left = left]
  <2>1. left \subseteq Rows(r) /\ left \subseteq Item
    BY DEF Rows
  <2>. HIDE DEF left
  <2>2. c \in ProcState /\ ProcGood(r, c)
    BY <2>1, AtType, AtGood DEF PC, ProcState, ProcGood, Rows
  <2>3. Steps(c) /\ UNCHANGED <<file, logged, published, recon, sent, skipped, lost>>
    BY <1>4 DEF Resume, history, left
  <2>4. resumes' \in [Run -> 0..MaxResumes]
    BY <1>0, <1>4, ResumesAssumption DEF Resume, TypeOK
  <2>. HIDE DEF c
  <2>. QED
    BY <1>0, <1>2, <2>2, <2>3, <2>4 DEF TypeOK
<1>5. CASE Die(r)
  <2>1. Steps(At("over")) /\ UNCHANGED <<file, logged, published, recon, sent, skipped, resumes>>
    BY <1>5 DEF Die
  <2>2. lost' \subseteq sent
    BY <1>0, <1>5 DEF Die, TypeOK
  <2>3. At("over") \in ProcState /\ ProcGood(r, At("over"))
    BY AtType, AtGood DEF PC
  <2>. QED
    BY <1>0, <1>2, <2>1, <2>2, <2>3 DEF TypeOK
<1>6. CASE Finish(r)
  <2>. DEFINE c == [At("load") EXCEPT !.run = r, !.seen = RowsNow(r)]
  <2>1. At("load") \in ProcState /\ At("load").item = NoItem /\ At("load").left = {}
        /\ At("load").pc = "load"
    BY AtType DEF PC
  <2>2. c \in ProcState
    BY <2>1, RowsNowGood DEF ProcState
  <2>3. c.pc = "load" /\ c.run = r /\ c.item = NoItem /\ c.left = {} /\ c.seen = RowsNow(r)
    BY <2>1 DEF ProcState
  <2>4. Steps(c) /\ UNCHANGED <<file, logged, published, recon, sent, skipped, lost, resumes>>
    BY <1>6 DEF Finish, history
  <2>. HIDE DEF c
  <2>5. ProcGood(r, c)
    BY <2>3, RowsNowGood DEF ProcGood
  <2>. QED
    BY <1>0, <1>2, <2>2, <2>4, <2>5 DEF TypeOK
<1>7. CASE LoadFile(r)
  <2>. DEFINE c == [proc[r] EXCEPT !.pc = "save", !.seen = RowsNow(r)]
  <2>1. c \in ProcState
    BY <1>0, RowsNowGood DEF ProcState, PC
  <2>2. /\ c.pc = "save" /\ c.item = proc[r].item /\ c.row = proc[r].row
        /\ c.left = proc[r].left /\ c.seen = RowsNow(r)
    BY <1>0 DEF ProcState
  <2>3. Steps(c) /\ UNCHANGED <<file, logged, published, recon, sent, skipped, lost, resumes>>
    BY <1>0, <1>7 DEF LoadFile, history
  <2>. HIDE DEF c
  <2>4. ProcGood(r, c)
    <3>1. proc[r].item # NoItem
      BY <1>7 DEF LoadFile
    <3>. QED
      BY <1>0, <2>2, <3>1, RowsNowGood DEF ProcGood
  <2>. QED
    BY <1>0, <1>2, <2>1, <2>3, <2>4 DEF TypeOK
<1>8. CASE MarkLoad(r)
  <2>. DEFINE c == [At("mark") EXCEPT !.seen = RowsNow(r)]
  <2>1. At("mark") \in ProcState /\ At("mark").item = NoItem /\ At("mark").left = {}
        /\ At("mark").pc = "mark"
    BY AtType DEF PC
  <2>2. c \in ProcState
    BY <2>1, RowsNowGood DEF ProcState
  <2>3. c.pc = "mark" /\ c.item = NoItem /\ c.left = {} /\ c.seen = RowsNow(r)
    BY <2>1 DEF ProcState
  <2>4. Steps(c) /\ UNCHANGED <<file, logged, published, recon, sent, skipped, lost, resumes>>
    BY <1>8 DEF MarkLoad, history
  <2>. HIDE DEF c
  <2>5. ProcGood(r, c)
    BY <2>3, RowsNowGood DEF ProcGood
  <2>. QED
    BY <1>0, <1>2, <2>2, <2>4, <2>5 DEF TypeOK
\* A write of the run's checkpoint.
<1>9. ASSUME NEW rows \in [Item -> ItemState], Write(r, rows), \A i \in Item : Good(i, rows[i]),
             NEW c \in ProcState, Steps(c), ProcGood(r, c),
             UNCHANGED <<logged, resumes, published, recon>>
      PROVE  TypeInv'
  <2>1. lost' \subseteq sent' /\ UNCHANGED <<sent, skipped>>
    BY <1>9, WriteType
  <2>2. Grows /\ PostsGood'
    BY <1>9, <2>1, Quiet, PostsStay DEF published
  <2>3. file' \in [Item -> ItemState] /\ \A i \in Item : Good(i, file[i])'
    <3>1. \E q : \E w \in [Item -> ItemState] : Write(q, w) /\ \A i \in Item : Good(i, w[i])
      BY <1>9
    <3>. QED
      BY <2>1, <2>2, <3>1, FileStays
  <2>4. ProcGood(r, c)'
    BY <1>0, <1>9, <2>2, ProcGoodStays
  <2>5. proc' \in [Process -> ProcState] /\ \A q \in Process : ProcGood(q, proc[q])'
    BY <1>0, <1>9, <2>2, <2>4, ProcsStay
  <2>6. recon' \in [Reconciler -> ReconState] /\ \A x \in Reconciler : ReconGood(recon[x])'
    BY <1>9, <2>2, ReconsStay
  <2>7. TypeOK'
    BY <1>0, <1>9, <2>1, <2>3, <2>5, <2>6 DEF TypeOK, logged, published
  <2>. QED
    BY <2>2, <2>3, <2>5, <2>6, <2>7 DEF TypeInv
<1>10. CASE SaveFile(r)
  <2>. DEFINE rows == [proc[r].seen EXCEPT ![proc[r].item] = proc[r].row]
              c == [At("going") EXCEPT !.left = proc[r].left]
  <2>1. /\ proc[r].item \in Item /\ proc[r].row \in ItemState /\ proc[r].seen \in [Item -> ItemState]
        /\ Good(proc[r].item, proc[r].row) /\ \A i \in Item : Good(i, proc[r].seen[i])
        /\ proc[r].left \subseteq Item /\ \A i \in proc[r].left : RunOf[i] = r
    BY <1>0, <1>10 DEF SaveFile, ProcGood, ProcState
  <2>2. rows \in [Item -> ItemState] /\ \A i \in Item : Good(i, rows[i])
    <3>1. rows \in [Item -> ItemState]
      BY <2>1
    <3>2. ASSUME NEW i \in Item PROVE Good(i, rows[i])
      <4>1. CASE i = proc[r].item
        BY <2>1, <4>1
      <4>2. CASE i # proc[r].item
        BY <2>1, <4>2
      <4>. QED
        BY <4>1, <4>2
    <3>. QED
      BY <3>1, <3>2
  <2>3. At("going") \in ProcState /\ ProcGood(r, At("going"))
    BY AtType, AtGood DEF PC
  <2>4. c \in ProcState /\ ProcGood(r, c)
    BY <2>1, <2>3, AtType DEF PC, ProcState, ProcGood
  <2>5. Write(r, rows) /\ Steps(c) /\ UNCHANGED <<logged, resumes, published, recon>>
    BY <1>10 DEF SaveFile
  <2>. HIDE DEF rows, c
  <2>. QED
    BY <1>9, <2>2, <2>4, <2>5
<1>11. CASE MarkSave(r)
  <2>1. proc[r].seen \in [Item -> ItemState] /\ \A i \in Item : Good(i, proc[r].seen[i])
    BY <1>0 DEF ProcGood, ProcState
  <2>2. At("over") \in ProcState /\ ProcGood(r, At("over"))
    BY AtType, AtGood DEF PC
  <2>3. Write(r, proc[r].seen) /\ Steps(At("over")) /\ UNCHANGED <<logged, resumes, published, recon>>
    BY <1>11 DEF MarkSave
  <2>. QED
    BY <1>9, <2>1, <2>2, <2>3
\* An item has its outcome.
<1>12. ASSUME NEW i \in Item, TakesUp(r, i), NEW row \in ItemState, Outcome(r, i, row), Good(i, row)',
              Grows, PostsGood', lost' = lost, sent' \subseteq Item \X Live, skipped' \subseteq Item,
              posts' \in [Live -> Target \cup {NoTarget}], settled' \subseteq Target,
              UNCHANGED <<file, logged, resumes, recon>>
       PROVE  TypeInv'
  <2>. DEFINE left == {j \in proc[r].left : j > i}
  <2>1. /\ proc[r].pc = "going" /\ i \in proc[r].left /\ RunOf[i] = r
        /\ left \subseteq proc[r].left /\ proc[r].left \subseteq Item
        /\ \A j \in proc[r].left : RunOf[j] = r
    BY <1>0, <1>12 DEF TakesUp, ProcGood, ProcState
  <2>. HIDE DEF left
  <2>a. PICK c : c = [proc[r] EXCEPT !.item = i, !.row = row, !.left = left]
    OBVIOUS
  <2>2. c \in ProcState
    BY <1>0, <2>1, <2>a DEF ProcState
  <2>3. c.pc = "going" /\ c.item = i /\ c.row = row /\ c.left = left /\ c.seen = proc[r].seen
    BY <1>0, <2>1, <2>a DEF ProcState
  <2>4. Steps(c)
    BY <1>0, <1>12, <2>a DEF Outcome, left
  <2>5. \A j \in Item : Good(j, c.seen[j])'
    BY <1>0, <1>12, <2>3, GoodStays DEF ProcGood
  <2>6. ProcGood(r, c)'
    BY <1>12, <2>1, <2>3, <2>5 DEF ProcGood
  <2>7. proc' \in [Process -> ProcState]
    BY <1>0, <2>2, <2>4
  <2>8. TypeOK'
    <3>1. lost' \subseteq sent'
      BY <1>0, <1>12 DEF TypeOK, Grows
    <3>. QED
      BY <1>0, <1>12, <2>7, <3>1 DEF TypeOK, logged
  <2>. QED
    BY <1>1, <1>12, <2>2, <2>4, <2>6, <2>8
<1>13. ASSUME NEW i \in Item, NEW url \in Live, Publish(r, i, url) PROVE TypeInv'
  <2>1. /\ posts' = [posts EXCEPT ![url] = TargetOf[i]] /\ settled' = settled \cup {TargetOf[i]}
        /\ sent' = sent \cup {<<i, url>>} /\ posts[url] \in {NoTarget, TargetOf[i]}
        /\ UNCHANGED <<file, logged, resumes, recon, lost, skipped>>
        /\ TakesUp(r, i) /\ Outcome(r, i, DoneAt(url))
    BY <1>13 DEF Publish
  <2>2. /\ posts' \in [Live -> Target \cup {NoTarget}] /\ posts'[url] = TargetOf[i]
        /\ TargetOf[i] \in Target /\ settled' \subseteq Target
        /\ sent' \subseteq Item \X Live /\ skipped' \subseteq Item
    BY <1>0, <2>1, TargetOfAssumption DEF TypeOK
  <2>3. \A u \in Live : posts[u] # NoTarget => posts'[u] = posts[u]
    BY <1>0, <2>1 DEF TypeOK
  <2>4. Grows
    BY <2>1, <2>3 DEF Grows
  <2>5. Landed(TargetOf[i])'
    BY <2>2 DEF Landed
  <2>6. PostsGood'
    <3>1. ASSUME NEW t \in settled PROVE Landed(t)'
      <4>1. PICK u \in Live : posts[u] = t
        BY DEF TypeInv, PostsGood, Landed
      <4>2. t # NoTarget
        BY <1>0, OutsidersAssumption DEF TypeOK
      <4>. QED
        BY <2>3, <4>1, <4>2 DEF Landed
    <3>2. ASSUME NEW s \in sent PROVE posts'[s[2]] = TargetOf[s[1]]
      <4>1. s[1] \in Item /\ s[2] \in Live /\ posts[s[2]] = TargetOf[s[1]]
        BY <1>0 DEF TypeInv, PostsGood, TypeOK
      <4>2. TargetOf[s[1]] # NoTarget
        BY <4>1, TargetOfAssumption, OutsidersAssumption
      <4>. QED
        BY <2>3, <4>1, <4>2
    <3>. QED
      BY <2>1, <2>2, <2>5, <3>1, <3>2 DEF PostsGood, Landed
  <2>7. DoneAt(url) \in ItemState /\ DoneAt(url).status = "done" /\ DoneAt(url).url = url
    BY ClaimType DEF DoneAt
  <2>8. Good(i, DoneAt(url))'
    BY <2>1, <2>5, <2>7 DEF Good
  <2>. QED
    BY <1>12, <2>1, <2>2, <2>4, <2>6, <2>7, <2>8
<1>14. ASSUME NEW i \in Item, NEW class \in {"failed", "policy_skip"}, Fail(r, i, class)
       PROVE  TypeInv'
  <2>1. /\ TakesUp(r, i) /\ Outcome(r, i, Failed(class))
        /\ skipped' = IF class = "policy_skip" THEN skipped \cup {i} ELSE skipped
        /\ UNCHANGED <<file, logged, resumes, published, recon, sent, lost>>
    BY <1>14 DEF Fail
  <2>2. Grows /\ PostsGood'
    BY <2>1, PostsStay DEF Grows, published
  <2>3. Failed(class) \in ItemState /\ Failed(class).status = class /\ Failed(class).url = NoUrl
    BY ClaimType DEF Failed
  <2>4. Good(i, Failed(class))'
    BY <2>1, <2>3 DEF Good
  <2>5. /\ sent' \subseteq Item \X Live /\ skipped' \subseteq Item
        /\ posts' \in [Live -> Target \cup {NoTarget}] /\ settled' \subseteq Target
    BY <1>0, <2>1 DEF TypeOK, published
  <2>. QED
    BY <1>12, <2>1, <2>2, <2>3, <2>4, <2>5
<1>. QED
  BY <1>3, <1>4, <1>5, <1>6, <1>7, <1>8, <1>10, <1>11, <1>13, <1>14 DEF Publishing

LEMMA ConfirmedType ==
  ASSUME TypeOK, NEW p \in Process
  PROVE  Confirmed(p) \subseteq Live /\ Changed(p) \subseteq Item
<1>1. \A i \in Item : proc[p].seen[i].url \in Live \cup {NoUrl}
  BY DEF TypeOK, ProcState, ItemState
<1>. QED
  BY <1>1 DEF Confirmed, Changed, Rows

LEMMA EmitType ==
  ASSUME TypeOK, NEW p \in Process, Emit(p), proc[p].run \in Run
  PROVE  log' \in [confirmed : [Live -> Nat], blank : SUBSET Item,
                   failed : SUBSET (Run \X Target), intent : SUBSET (Run \X Target)]
<1>1. \A rows \in SUBSET Item : TargetsOf(p, rows) \subseteq Run \X Target
  BY TargetOfAssumption DEF TargetsOf
<1>2. \A status : ChangedTo(p, status) \in SUBSET Item
  BY DEF ChangedTo, Changed, Rows
<1>3. {i \in ChangedTo(p, "pending") : proc[p].prior[i] = NoClaim} \in SUBSET Item
  BY <1>2
<1>4. [u \in Live |-> log.confirmed[u] + IF u \in Confirmed(p) THEN 1 ELSE 0] \in [Live -> Nat]
  BY DEF TypeOK
<1>. DEFINE blank == {i \in ChangedTo(p, "done") : proc[p].seen[i].url = NoUrl}
            failed == TargetsOf(p, ChangedTo(p, "failed"))
            intent == TargetsOf(p, {i \in ChangedTo(p, "pending") : proc[p].prior[i] = NoClaim})
<1>5. blank \subseteq Item
  BY <1>2
<1>6. failed \subseteq Run \X Target
  BY <1>1, <1>2
<1>7. intent \subseteq Run \X Target
  BY <1>1, <1>3
<1>8. log' = [confirmed |-> [u \in Live |-> log.confirmed[u] + IF u \in Confirmed(p) THEN 1 ELSE 0],
              blank |-> log.blank \cup blank, failed |-> log.failed \cup failed,
              intent |-> log.intent \cup intent]
  BY DEF Emit
<1>. HIDE DEF blank, failed, intent
<1>. QED
  BY <1>4, <1>5, <1>6, <1>7, <1>8 DEF TypeOK

LEMMA TypeFlush ==
  ASSUME TypeInv, (\E p \in Process : Flush(p)) \/ Loading
  PROVE  TypeInv'
<1>0. /\ Dashboard \in Process /\ Dashboard \notin Run /\ TypeOK
      /\ proc[Dashboard] \in ProcState /\ proc \in [Process -> ProcState]
  BY OutsidersAssumption DEF Process, TypeInv, TypeOK
\* A step that changes but a process, and what it logs.
<1>1. ASSUME NEW p \in Process, NEW c \in ProcState, proc' = [proc EXCEPT ![p] = c], ProcGood(p, c),
             UNCHANGED <<file, resumes, published, recon, history>>,
             /\ cursor' \in [Run -> [Item -> Claims]] /\ articles' \subseteq Live
             /\ log' \in [confirmed : [Live -> Nat], blank : SUBSET Item,
                          failed : SUBSET (Run \X Target), intent : SUBSET (Run \X Target)]
      PROVE  TypeInv'
  <2>1. Grows /\ PostsGood' /\ lost' \subseteq sent'
    BY <1>0, <1>1, Quiet, PostsStay DEF published, history, TypeOK
  <2>2. ProcGood(p, c)'
    BY <1>1, <2>1, ProcGoodStays
  <2>3. proc' \in [Process -> ProcState] /\ \A q \in Process : ProcGood(q, proc[q])'
    BY <1>1, <2>1, <2>2, ProcsStay
  <2>4. recon' \in [Reconciler -> ReconState] /\ \A x \in Reconciler : ReconGood(recon[x])'
    BY <1>1, <2>1, ReconsStay
  <2>5. file' \in [Item -> ItemState] /\ \A i \in Item : Good(i, file[i])'
    BY <1>1, <2>1, FileStays
  <2>6. TypeOK'
    BY <1>0, <1>1, <2>3, <2>4, <2>5 DEF TypeOK, published, history
  <2>. QED
    BY <2>1, <2>3, <2>4, <2>5, <2>6 DEF TypeInv
<1>2. ASSUME NEW p \in Process, LoadCursor(p) PROVE TypeInv'
  <2>. DEFINE c == [proc[p] EXCEPT !.pc = "write", !.prior = cursor[proc[p].run]]
  <2>1. proc[p] \in ProcState /\ ProcGood(p, proc[p]) /\ proc[p].pc = "load" /\ proc[p].run \in Run
    BY <1>2 DEF LoadCursor, TypeInv, TypeOK, ProcGood
  <2>2. cursor[proc[p].run] \in [Item -> Claims]
    BY <1>0, <2>1 DEF TypeOK
  <2>3. c \in ProcState
    BY <2>1, <2>2 DEF ProcState, PC
  <2>4. /\ c.pc = "write" /\ c.run = proc[p].run /\ c.item = proc[p].item /\ c.row = proc[p].row
        /\ c.left = proc[p].left /\ c.seen = proc[p].seen
    BY <2>1 DEF ProcState
  <2>5. proc' = [proc EXCEPT ![p] = c] /\ UNCHANGED <<file, logged, resumes, published, recon, history>>
    BY <1>0, <1>2 DEF LoadCursor
  <2>. HIDE DEF c
  <2>6. ProcGood(p, c)
    BY <2>1, <2>4 DEF ProcGood
  <2>7. UNCHANGED <<cursor, articles, log>>
    BY <2>5 DEF logged
  <2>. QED
    BY <1>0, <1>1, <2>3, <2>5, <2>6, <2>7 DEF TypeOK
<1>3. ASSUME NEW p \in Process, Commit(p) PROVE TypeInv'
  <2>1. proc[p] \in ProcState /\ proc[p].run \in Run
    BY <1>3 DEF Commit, TypeInv, TypeOK, ProcGood
  <2>2. Flushed(p) \in ProcState /\ ProcGood(p, Flushed(p))
    <3>1. proc[p].todo \subseteq Run
      BY <2>1 DEF ProcState
    <3>2. \A pc \in {"projected", "idle", "source"} : At(pc) \in ProcState /\ ProcGood(p, At(pc))
      BY AtType, AtGood DEF PC
    <3>3. [At("source") EXCEPT !.todo = proc[p].todo] \in ProcState
      BY <3>1, <3>2 DEF ProcState
    <3>4. ProcGood(p, [At("source") EXCEPT !.todo = proc[p].todo])
      BY <3>2 DEF ProcGood, At
    <3>. QED
      BY <3>2, <3>3, <3>4 DEF Flushed
  <2>3. log' \in [confirmed : [Live -> Nat], blank : SUBSET Item,
                  failed : SUBSET (Run \X Target), intent : SUBSET (Run \X Target)]
    BY <1>0, <1>3, <2>1, EmitType DEF Commit
  <2>4. articles' \subseteq Live
    BY <1>0, <1>3, ConfirmedType DEF Commit, TypeOK
  <2>5. cursor' \in [Run -> [Item -> Claims]]
    <3>1. \A i \in Item : Claim(proc[p].seen[i]) \in Claims
      BY <2>1, ClaimType DEF ProcState
    <3>2. [i \in Item |-> IF RunOf[i] = proc[p].run THEN Claim(proc[p].seen[i]) ELSE NoClaim]
            \in [Item -> Claims]
      BY <3>1, ClaimType
    <3>. QED
      BY <1>0, <1>3, <3>2 DEF Commit, TypeOK
  <2>6. proc' = [proc EXCEPT ![p] = Flushed(p)] /\ UNCHANGED <<file, resumes, published, recon, history>>
    BY <1>3 DEF Commit
  <2>. QED
    BY <1>1, <2>2, <2>3, <2>4, <2>5, <2>6
<1>4. ASSUME NEW c \in ProcState, proc' = [proc EXCEPT ![Dashboard] = c], ProcGood(Dashboard, c),
             UNCHANGED <<file, logged, resumes, published, recon, history>>
      PROVE  TypeInv'
  BY <1>0, <1>1, <1>4 DEF TypeOK, logged
<1>5. CASE Load
  <2>. DEFINE todo == {r \in Run : Exists(r) /\ ~HasCursor(r)}
              c == [At("source") EXCEPT !.todo = todo]
  <2>1. At("source") \in ProcState /\ ProcGood(Dashboard, At("source")) /\ todo \subseteq Run
    BY AtType, AtGood DEF PC
  <2>2. c \in ProcState
    BY <2>1 DEF ProcState
  <2>3. ProcGood(Dashboard, c)
    BY <2>1 DEF ProcGood, At
  <2>4. proc' = [proc EXCEPT ![Dashboard] = c] /\ UNCHANGED <<file, logged, resumes, published, recon, history>>
    BY <1>5 DEF Load
  <2>. HIDE DEF c
  <2>. QED
    BY <1>4, <2>2, <2>3, <2>4
<1>6. ASSUME NEW r \in Run, NextSource(r) PROVE TypeInv'
  <2>. DEFINE c == [At("load") EXCEPT !.run = r, !.todo = proc[Dashboard].todo \ {r},
                                      !.seen = RowsNow(r)]
  <2>1. /\ proc[Dashboard].todo \subseteq Run /\ At("load") \in ProcState
        /\ At("load").item = NoItem /\ At("load").left = {} /\ At("load").pc = "load"
    BY <1>0, AtType DEF ProcState, PC
  <2>2. c \in ProcState
    BY <2>1, RowsNowGood DEF ProcState
  <2>3. c.pc = "load" /\ c.run = r /\ c.item = NoItem /\ c.left = {} /\ c.seen = RowsNow(r)
    BY <2>1 DEF ProcState
  <2>4. proc' = [proc EXCEPT ![Dashboard] = c] /\ UNCHANGED <<file, logged, resumes, published, recon, history>>
    BY <1>6 DEF NextSource
  <2>. HIDE DEF c
  <2>5. ProcGood(Dashboard, c)
    BY <1>0, <2>3, RowsNowGood DEF ProcGood
  <2>. QED
    BY <1>4, <2>2, <2>4, <2>5
<1>7. CASE LoadFails
  <2>1. At("idle") \in ProcState /\ ProcGood(Dashboard, At("idle"))
    BY AtType, AtGood DEF PC
  <2>2. /\ proc' = [proc EXCEPT ![Dashboard] = At("idle")]
        /\ UNCHANGED <<file, logged, resumes, published, recon, history>>
    BY <1>7 DEF LoadFails
  <2>. QED
    BY <1>4, <2>1, <2>2
<1>. QED
  BY <1>2, <1>3, <1>5, <1>6, <1>7 DEF Flush, Loading

\* A reconciler writes the rows it read, with the item of its fix done.
FixRows(c) == [recon[c].seen EXCEPT ![recon[c].item] = DoneAt(NoUrl)]

LEMMA FixGood ==
  ASSUME TypeInv, NEW c \in Reconciler, recon[c].pc = "fix"
  PROVE  /\ recon[c].item \in Item /\ FixRows(c) \in [Item -> ItemState]
         /\ \A i \in Item : Good(i, FixRows(c)[i])
<1>1. /\ recon[c] \in ReconState /\ ReconGood(recon[c])
  BY DEF TypeInv, TypeOK
<1>2. /\ recon[c].item \in Item /\ Landed(TargetOf[recon[c].item])
      /\ recon[c].seen \in [Item -> ItemState]
  BY <1>1 DEF ReconGood, ReconState, TypeInv, PostsGood
<1>3. DoneAt(NoUrl) \in ItemState /\ Good(recon[c].item, DoneAt(NoUrl))
  BY <1>2, ClaimType DEF Good, DoneAt
<1>4. FixRows(c) \in [Item -> ItemState]
  BY <1>2, <1>3 DEF FixRows
<1>5. ASSUME NEW i \in Item PROVE Good(i, FixRows(c)[i])
  <2>1. CASE i = recon[c].item
    BY <1>2, <1>3, <2>1 DEF FixRows
  <2>2. CASE i # recon[c].item
    BY <1>1, <1>2, <2>2 DEF FixRows, ReconGood
  <2>. QED
    BY <2>1, <2>2
<1>. QED
  BY <1>2, <1>4, <1>5

LEMMA TypeReconciling ==
  ASSUME TypeInv, NEW c \in Reconciler, Reconciling(c)
  PROVE  TypeInv'
<1>0. /\ TypeOK /\ recon[c] \in ReconState /\ ReconGood(recon[c])
  BY DEF TypeInv, TypeOK
<1>1. ASSUME NEW d \in ReconState, ReconGood(d), recon' = [recon EXCEPT ![c] = d],
             UNCHANGED <<logged, proc, resumes, published>>, UNCHANGED <<sent, skipped>>,
             lost' \subseteq sent',
             file' \in [Item -> ItemState], \A i \in Item : Good(i, file[i])'
      PROVE  TypeInv'
  <2>1. Grows /\ PostsGood'
    BY <1>1, Quiet, PostsStay DEF published
  <2>2. recon' \in [Reconciler -> ReconState] /\ \A x \in Reconciler : ReconGood(recon[x])'
    BY <1>1, <2>1, ReconsStay
  <2>3. proc' \in [Process -> ProcState] /\ \A q \in Process : ProcGood(q, proc[q])'
    BY <1>1, <2>1, ProcsStay
  <2>4. TypeOK'
    BY <1>0, <1>1, <2>2, <2>3 DEF TypeOK, logged, published
  <2>. QED
    BY <1>1, <2>1, <2>2, <2>3, <2>4 DEF TypeInv
<1>2. ASSUME NEW d \in ReconState, ReconGood(d), recon' = [recon EXCEPT ![c] = d],
             UNCHANGED <<file, logged, proc, resumes, published, history>>
      PROVE  TypeInv'
  <2>1. Grows /\ lost' \subseteq sent'
    BY <1>0, <1>2, Quiet DEF published, history, TypeOK
  <2>2. file' \in [Item -> ItemState] /\ \A i \in Item : Good(i, file[i])'
    BY <1>2, <2>1, FileStays
  <2>. QED
    BY <1>1, <1>2, <2>1, <2>2 DEF history
<1>3. \A pc \in {"matched", "over"} : \A todo \in SUBSET Item :
        /\ Pass(pc, todo) \in ReconState
        /\ (\A i \in todo : TargetOf[i] \in settled) => ReconGood(Pass(pc, todo))
  BY ClaimType, PendingGood DEF Pass, ReconState, ReconGood
<1>4. CASE Match(c)
  <2>. DEFINE todo == {i \in Item : Exists(RunOf[i]) /\ Unfinished(file[i]) /\ TargetOf[i] \in settled}
  <2>1. recon' = [recon EXCEPT ![c] = Pass("matched", todo)]
        /\ UNCHANGED <<file, logged, proc, resumes, published, history>>
    BY <1>4 DEF Match
  <2>2. todo \in SUBSET Item /\ \A i \in todo : TargetOf[i] \in settled
    OBVIOUS
  <2>. HIDE DEF todo
  <2>. QED
    BY <1>2, <1>3, <2>1, <2>2
<1>5. CASE Reconciled(c)
  BY <1>2, <1>3, <1>5 DEF Reconciled
<1>6. ASSUME NEW i \in Item, FixLoad(c, i) PROVE TypeInv'
  <2>. DEFINE todo == {j \in recon[c].todo : j > i}
              d == [pc |-> "fix", todo |-> todo, item |-> i, seen |-> RowsNow(RunOf[i])]
  <2>1. /\ recon' = [recon EXCEPT ![c] = d] /\ i \in recon[c].todo
        /\ UNCHANGED <<file, logged, proc, resumes, published, history>>
    BY <1>6 DEF FixLoad
  <2>2. todo \subseteq recon[c].todo /\ recon[c].todo \subseteq Item
    BY <1>0 DEF ReconState
  <2>. HIDE DEF todo
  <2>3. d \in ReconState
    BY <2>2, RowsNowGood DEF ReconState
  <2>4. ReconGood(d)
    BY <1>0, <2>1, <2>2, RowsNowGood DEF ReconGood
  <2>. HIDE DEF d
  <2>. QED
    BY <1>2, <2>1, <2>3, <2>4
<1>7. ASSUME NEW saved \in BOOLEAN, FixSave(c, saved) PROVE TypeInv'
  <2>1. /\ recon[c].pc = "fix" /\ recon' = [recon EXCEPT ![c] = Pass("matched", recon[c].todo)]
        /\ UNCHANGED <<logged, proc, resumes, published>>
        /\ IF saved THEN Write(RunOf[recon[c].item], FixRows(c)) ELSE UNCHANGED <<file, history>>
    BY <1>7 DEF FixSave, FixRows
  <2>2. Pass("matched", recon[c].todo) \in ReconState /\ ReconGood(Pass("matched", recon[c].todo))
    BY <1>0, <1>3 DEF ReconState, ReconGood
  <2>3. CASE ~saved
    BY <1>2, <2>1, <2>2, <2>3
  <2>4. CASE saved
    <3>1. Write(RunOf[recon[c].item], FixRows(c))
      BY <2>1, <2>4
    <3>2. lost' \subseteq sent' /\ UNCHANGED <<sent, skipped>>
      BY <3>1, WriteType
    <3>3. Grows
      BY <2>1, <3>2, Quiet DEF published
    <3>4. \E q : \E w \in [Item -> ItemState] : Write(q, w) /\ \A i \in Item : Good(i, w[i])
      BY <2>1, <3>1, FixGood
    <3>5. file' \in [Item -> ItemState] /\ \A i \in Item : Good(i, file[i])'
      BY <3>2, <3>3, <3>4, FileStays
    <3>. QED
      BY <1>1, <2>1, <2>2, <3>2, <3>5
  <2>. QED
    BY <2>3, <2>4
<1>. QED
  BY <1>4, <1>5, <1>6, <1>7 DEF Reconciling

LEMMA TypeNext == TypeInv /\ [Next]_vars => TypeInv'
<1>. SUFFICES ASSUME TypeInv, [Next]_vars PROVE TypeInv'
  OBVIOUS
<1>1. CASE UNCHANGED vars
  BY <1>1 DEF vars, TypeInv, TypeOK, PostsGood, ProcGood, ReconGood, Good, Landed
<1>2. CASE Next
  BY <1>2, TypePublishing, TypeFlush, TypeReconciling DEF Next
<1>. QED
  BY <1>1, <1>2

\* Every variable has its type, for all runs, items, targets and URLs.
THEOREM ProjectionTypeCorrect == Spec => []TypeOK
<1>1. TypeInv => TypeOK
  BY DEF TypeInv
<1>. QED
  BY <1>1, TypeInit, TypeNext, PTL DEF Spec

\* An item that its run or a reconciler calls done has a post, although a reconciler
\* acts on a record it read before, and both write rows back that they read before.
THEOREM DoneIsPublished == Spec => []DoneHasLanded
<1>1. TypeInv => DoneHasLanded
  BY DEF TypeInv, Good, Landed, DoneHasLanded
<1>. QED
  BY <1>1, TypeInit, TypeNext, PTL DEF Spec

-----------------------------------------------------------------------------
(***************************************************************************)
(* Every article has its event, and one.                                   *)
(***************************************************************************)

\* The log and the articles change in the transaction of a flush only.
LEMMA LogStep ==
  ASSUME TypeInv, [Next]_vars
  PROVE  UNCHANGED logged \/ \E p \in Process : Commit(p)
<1>1. CASE UNCHANGED vars
  BY <1>1 DEF vars, logged
<1>2. ASSUME NEW r \in Run, Publishing(r) PROVE UNCHANGED logged
  BY <1>2 DEF Publishing, Create, Resume, Finish, Die, Publish, Fail, LoadFile, SaveFile,
              MarkLoad, MarkSave
<1>3. ASSUME NEW p \in Process, LoadCursor(p) PROVE UNCHANGED logged
  BY <1>3 DEF LoadCursor
<1>4. CASE Loading
  BY <1>4 DEF Loading, Load, NextSource, LoadFails
<1>5. ASSUME NEW c \in Reconciler, Reconciling(c) PROVE UNCHANGED logged
  BY <1>5 DEF Reconciling, Match, Reconciled, FixLoad, FixSave
<1>. QED
  BY <1>1, <1>2, <1>3, <1>4, <1>5 DEF Next, Flush

LEMMA ConfirmedNext == TypeInv /\ ConfirmedOnce /\ [Next]_vars => ConfirmedOnce'
<1>. SUFFICES ASSUME TypeInv, ConfirmedOnce, [Next]_vars PROVE ConfirmedOnce'
  OBVIOUS
<1>1. CASE UNCHANGED logged
  BY <1>1 DEF logged, ConfirmedOnce
<1>2. ASSUME NEW p \in Process, Commit(p) PROVE ConfirmedOnce'
  <2>. SUFFICES ASSUME NEW u \in Live
                PROVE  log'.confirmed[u] = IF u \in articles' THEN 1 ELSE 0
    BY DEF ConfirmedOnce
  <2>1. log'.confirmed[u] = log.confirmed[u] + IF u \in Confirmed(p) THEN 1 ELSE 0
    BY <1>2 DEF Commit, Emit
  <2>2. log.confirmed[u] = IF u \in articles THEN 1 ELSE 0
    BY DEF ConfirmedOnce
  <2>3. articles' = articles \cup Confirmed(p) /\ Confirmed(p) \cap articles = {}
    BY <1>2 DEF Commit, Confirmed
  <2>. QED
    BY <2>1, <2>2, <2>3
<1>. QED
  BY <1>1, <1>2, LogStep

\* A post is confirmed once, by whichever of the flushes that interleave commits
\* first, over any number of checkpoints that have its URL.
THEOREM ConfirmsOnce == Spec => []ConfirmedOnce
<1>1. Init => ConfirmedOnce
  BY DEF Init, ConfirmedOnce
<1>. QED
  BY <1>1, ConfirmedNext, TypeInit, TypeNext, PTL DEF Spec

-----------------------------------------------------------------------------
(***************************************************************************)
(* What the cursor says is in the log.  The log only grows, so it does not *)
(* matter that a cursor may move back, or that a row is undone.            *)
(***************************************************************************)

LEMMA Emitted ==
  ASSUME NEW p \in Process, Commit(p)
  PROVE  /\ articles' = articles \cup Confirmed(p)
         /\ log'.blank = log.blank \cup {i \in ChangedTo(p, "done") : proc[p].seen[i].url = NoUrl}
         /\ log'.failed = log.failed \cup TargetsOf(p, ChangedTo(p, "failed"))
         /\ log'.intent = log.intent
              \cup TargetsOf(p, {i \in ChangedTo(p, "pending") : proc[p].prior[i] = NoClaim})
BY Zenon DEF Commit, Emit

\* A run publishes or skips an item, and nothing is taken back.
LEMMA HistoryGrows ==
  ASSUME TypeInv, [Next]_vars
  PROVE  sent \subseteq sent' /\ skipped \subseteq skipped' /\ lost \subseteq lost'
<1>1. CASE UNCHANGED history
  BY <1>1 DEF history
<1>2. ASSUME NEW r, NEW rows, Write(r, rows)
      PROVE  sent \subseteq sent' /\ skipped \subseteq skipped' /\ lost \subseteq lost'
  BY <1>2 DEF Write
<1>3. ASSUME NEW r \in Run, Publishing(r)
      PROVE  sent \subseteq sent' /\ skipped \subseteq skipped' /\ lost \subseteq lost'
  <2>1. CASE Create(r) \/ Resume(r) \/ Finish(r) \/ LoadFile(r) \/ MarkLoad(r)
    BY <1>1, <2>1 DEF Create, Resume, Finish, LoadFile, MarkLoad
  <2>2. CASE SaveFile(r)
    BY <1>2, <2>2 DEF SaveFile
  <2>3. CASE MarkSave(r)
    BY <1>2, <2>3 DEF MarkSave
  <2>4. CASE Die(r)
    BY <2>4 DEF Die
  <2>5. ASSUME NEW i \in Item, NEW url \in Live, Publish(r, i, url)
        PROVE  sent \subseteq sent' /\ skipped \subseteq skipped' /\ lost \subseteq lost'
    BY <2>5 DEF Publish
  <2>6. ASSUME NEW i \in Item, NEW class \in {"failed", "policy_skip"}, Fail(r, i, class)
        PROVE  sent \subseteq sent' /\ skipped \subseteq skipped' /\ lost \subseteq lost'
    BY <2>6 DEF Fail
  <2>. QED
    BY <1>3, <2>1, <2>2, <2>3, <2>4, <2>5, <2>6 DEF Publishing
<1>4. CASE (\E p \in Process : Flush(p)) \/ Loading
  BY <1>1, <1>4 DEF Flush, LoadCursor, Commit, Loading, Load, NextSource, LoadFails
<1>5. ASSUME NEW c \in Reconciler, Reconciling(c)
      PROVE  sent \subseteq sent' /\ skipped \subseteq skipped' /\ lost \subseteq lost'
  <2>1. CASE Match(c) \/ Reconciled(c) \/ \E i \in Item : FixLoad(c, i)
    BY <1>1, <2>1 DEF Match, Reconciled, FixLoad
  <2>2. ASSUME NEW saved \in BOOLEAN, FixSave(c, saved)
        PROVE  sent \subseteq sent' /\ skipped \subseteq skipped' /\ lost \subseteq lost'
    <3>1. CASE saved
      BY <1>2, <2>2, <3>1 DEF FixSave
    <3>2. CASE ~saved
      BY <1>1, <2>2, <3>2 DEF FixSave
    <3>. QED
      BY <3>1, <3>2
  <2>. QED
    BY <1>5, <2>1, <2>2 DEF Reconciling
<1>. QED
  BY <1>1, <1>3, <1>4, <1>5 DEF Next, vars, history

LEMMA LogGrows ==
  ASSUME TypeInv, [Next]_vars
  PROVE  /\ articles \subseteq articles' /\ log.blank \subseteq log'.blank
         /\ log.failed \subseteq log'.failed /\ log.intent \subseteq log'.intent
<1>1. CASE UNCHANGED logged
  BY <1>1 DEF logged
<1>2. ASSUME NEW p \in Process, Commit(p)
      PROVE  /\ articles \subseteq articles' /\ log.blank \subseteq log'.blank
             /\ log.failed \subseteq log'.failed /\ log.intent \subseteq log'.intent
  BY <1>2, Emitted
<1>. QED
  BY <1>1, <1>2, LogStep

\* A claim that was true when it was made: it is in the log, and its URL is one that
\* the run got for the item.
Told(i, s) ==
  s # NoClaim => InLog(i, s) /\ (s.status = "done" /\ s.url # NoUrl => <<i, s.url>> \in sent)

LEMMA ToldStays ==
  ASSUME TypeInv, [Next]_vars, NEW i \in Item, NEW s, Told(i, s)
  PROVE  Told(i, s)'
BY HistoryGrows, LogGrows DEF Told, InLog, FailureLogged

TruthInv ==
  /\ TypeInv
  /\ \A i \in Item : Told(i, cursor[RunOf[i]][i])
  /\ \A p \in Process, i \in Item :
       proc[p].pc = "write" /\ proc[p].run = RunOf[i] => Told(i, proc[p].prior[i])

\* What a committed flush leaves of a row.
LEMMA Committed ==
  ASSUME TruthInv, NEW p \in Process, Commit(p), NEW i \in Item, RunOf[i] = proc[p].run,
         NEW s, s = proc[p].seen[i]
  PROVE  Told(i, Claim(s))'
<1>0. PICK prior : prior = proc[p].prior[i]
  OBVIOUS
<1>1. /\ TypeInv /\ proc[p].pc = "write" /\ Told(i, prior) /\ Good(i, s)
      /\ s \in ItemState /\ prior \in Claims /\ sent' = sent /\ skipped' = skipped
  BY <1>0 DEF TruthInv, TypeInv, TypeOK, Commit, ProcGood, ProcState, history
<1>2. Next
  BY DEF Next, Flush
<1>3. Told(i, prior)'
  BY <1>1, <1>2, ToldStays
<1>4. CASE i \notin Changed(p)
  <2>1. Claim(s) = prior
    BY <1>0, <1>4 DEF Changed, Rows
  <2>. QED
    BY <1>3, <2>1
<1>5. CASE i \in Changed(p) /\ s.status = "done"
  <2>1. Claim(s) = s /\ i \in ChangedTo(p, "done")
    BY <1>5 DEF Claim, ChangedTo
  <2>2. s.url = NoUrl => i \in log'.blank
    BY <2>1, Emitted
  <2>3. s.url # NoUrl => s.url \in articles'
    BY <1>5, Emitted DEF Confirmed
  <2>4. s.url # NoUrl => <<i, s.url>> \in sent'
    BY <1>1 DEF Good
  <2>. QED
    BY <1>5, <2>1, <2>2, <2>3, <2>4 DEF Told, InLog
<1>6. CASE i \in Changed(p) /\ s.status = "pending"
  <2>1. Claim(s) = s /\ i \in ChangedTo(p, "pending")
    BY <1>6 DEF Claim, ChangedTo
  <2>2. CASE prior = NoClaim
    <3>1. i \in {x \in ChangedTo(p, "pending") : proc[p].prior[x] = NoClaim}
      BY <1>0, <2>1, <2>2
    <3>2. <<RunOf[i], TargetOf[i]>> \in log'.intent
      BY <3>1, Emitted DEF TargetsOf
    <3>. QED
      BY <1>6, <2>1, <3>2 DEF Told, InLog
  <2>3. CASE prior # NoClaim
    <3>1. prior.status \in {"pending", "done", "failed"} /\ prior.url \in Live \cup {NoUrl}
      BY <1>1, <2>3 DEF Claims, Claim, Failed, ItemState
    <3>. QED
      BY <1>3, <1>6, <2>1, <2>3, <3>1 DEF Told, InLog
  <2>. QED
    BY <2>2, <2>3
<1>7. CASE i \in Changed(p) /\ s.status = "failed"
  <2>1. Claim(s) = s /\ i \in ChangedTo(p, "failed")
    BY <1>7 DEF Claim, ChangedTo
  <2>2. <<RunOf[i], TargetOf[i]>> \in log'.failed
    BY <2>1, Emitted DEF TargetsOf
  <2>. QED
    BY <1>7, <2>1, <2>2 DEF Told, InLog, FailureLogged
<1>8. CASE s.status = "policy_skip"
  <2>1. Claim(s).status = "failed"
    BY <1>8 DEF Claim, Failed
  <2>2. i \in skipped'
    BY <1>1, <1>8 DEF Good
  <2>. QED
    BY <2>1, <2>2 DEF Told, InLog, FailureLogged
<1>. QED
  BY <1>1, <1>4, <1>5, <1>6, <1>7, <1>8 DEF ItemState

\* A step of a run changes its own process only, and but for its end starts no flush.
LEMMA RunStep ==
  ASSUME TypeInv, NEW r \in Run, Publishing(r)
  PROVE  \/ Finish(r)
         \/ \E c : proc' = [proc EXCEPT ![r] = c] /\ c.pc \notin {"load", "write", "projected"}
<1>0. r \in Process /\ proc[r] \in ProcState /\ proc \in [Process -> ProcState]
  BY DEF Process, TypeInv, TypeOK
<1>1. CASE Create(r) \/ Resume(r) \/ SaveFile(r)
  <2>1. PICK left : proc' = [proc EXCEPT ![r] = [At("going") EXCEPT !.left = left]]
    BY <1>1 DEF Create, Resume, SaveFile
  <2>2. [At("going") EXCEPT !.left = left].pc = "going"
    BY DEF At
  <2>. QED
    BY <2>1, <2>2
<1>2. CASE Die(r) \/ MarkSave(r)
  BY <1>2, AtType DEF Die, MarkSave, PC
<1>3. CASE LoadFile(r)
  <2>. DEFINE c == [proc[r] EXCEPT !.pc = "save", !.seen = RowsNow(r)]
  <2>1. proc' = [proc EXCEPT ![r] = c] /\ c.pc = "save"
    BY <1>0, <1>3 DEF LoadFile, ProcState
  <2>. QED
    BY <2>1
<1>4. CASE MarkLoad(r)
  <2>1. [At("mark") EXCEPT !.seen = RowsNow(r)].pc = "mark"
    BY DEF At
  <2>. QED
    BY <1>4, <2>1 DEF MarkLoad
<1>5. ASSUME NEW i \in Item, NEW row, TakesUp(r, i), Outcome(r, i, row)
      PROVE  \E c : proc' = [proc EXCEPT ![r] = c] /\ c.pc \notin {"load", "write", "projected"}
  <2>. DEFINE c == [proc[r] EXCEPT !.item = i, !.row = row, !.left = {j \in @ : j > i}]
  <2>1. proc' = [proc EXCEPT ![r] = c] /\ c.pc = "going"
    BY <1>0, <1>5 DEF Outcome, TakesUp, ProcState
  <2>. QED
    BY <2>1
<1>. QED
  BY <1>1, <1>2, <1>3, <1>4, <1>5 DEF Publishing, Publish, Fail

\* A process that is in a flush was, or reads the cursor, or just read the file.
LEMMA FlushStep ==
  ASSUME TypeInv, [Next]_vars, NEW q \in Process, proc'[q].pc \in {"load", "write"}
  PROVE  \/ proc'[q] = proc[q]
         \/ /\ proc[q].pc = "load" /\ proc'[q].pc = "write" /\ proc'[q].run = proc[q].run
            /\ proc'[q].seen = proc[q].seen /\ proc'[q].prior = cursor[proc[q].run]
            /\ UNCHANGED <<file, logged, history>>
         \/ \E r \in Run : /\ proc'[q].pc = "load" /\ proc'[q].run = r
                           /\ proc'[q].seen = RowsNow(r)
                           /\ proc[q].item = NoItem /\ UNCHANGED <<file, logged, history>>
<1>. USE DEF TypeInv, TypeOK
<1>1. CASE UNCHANGED vars
  BY <1>1 DEF vars
<1>2. ASSUME NEW p \in Process, NEW c \in ProcState, proc' = [proc EXCEPT ![p] = c],
             c.pc \notin {"load", "write"}
      PROVE  proc'[q] = proc[q]
  BY <1>2
<1>3. ASSUME NEW r \in Run, NEW p \in Process, NEW c \in ProcState,
             UNCHANGED <<file, logged, history>>, proc[p].item = NoItem,
             proc' = [proc EXCEPT ![p] = c], c.pc = "load", c.run = r, c.seen = RowsNow(r)
      PROVE  \/ proc'[q] = proc[q]
             \/ /\ proc'[q].pc = "load" /\ proc'[q].run = r
                /\ proc'[q].seen = RowsNow(r)
                /\ proc[q].item = NoItem /\ UNCHANGED <<file, logged, history>>
  BY <1>3
<1>4. ASSUME NEW r \in Run, Publishing(r)
      PROVE  \/ proc'[q] = proc[q]
             \/ /\ proc'[q].pc = "load" /\ proc'[q].run = r
                /\ proc'[q].seen = RowsNow(r)
                /\ proc[q].item = NoItem /\ UNCHANGED <<file, logged, history>>
  <2>0. r \in Process /\ proc[r] \in ProcState
    BY DEF Process
  <2>1. CASE Finish(r)
    <3>. DEFINE c == [At("load") EXCEPT !.run = r, !.seen = RowsNow(r)]
    <3>1. c \in ProcState /\ c.pc = "load" /\ c.run = r /\ c.seen = RowsNow(r)
      BY AtType, RowsNowGood DEF ProcState, PC
    <3>2. proc' = [proc EXCEPT ![r] = c] /\ proc[r].item = NoItem /\ UNCHANGED <<file, logged, history>>
      BY <2>1 DEF Finish
    <3>. HIDE DEF c
    <3>. QED
      BY <1>3, <2>0, <3>1, <3>2
  <2>2. CASE ~Finish(r)
    <3>1. PICK c : proc' = [proc EXCEPT ![r] = c] /\ c.pc \notin {"load", "write"}
      BY <1>4, <2>0, <2>2, RunStep
    <3>. QED
      BY <2>0, <3>1
  <2>. QED
    BY <2>1, <2>2
<1>5. ASSUME NEW p \in Process, LoadCursor(p)
      PROVE  \/ proc'[q] = proc[q]
             \/ /\ proc[q].pc = "load" /\ proc'[q].pc = "write" /\ proc'[q].run = proc[q].run
                /\ proc'[q].seen = proc[q].seen /\ proc'[q].prior = cursor[proc[q].run]
                /\ UNCHANGED <<file, logged, history>>
  BY <1>5 DEF LoadCursor, ProcState
<1>6. ASSUME NEW p \in Process, Commit(p) PROVE proc'[q] = proc[q]
  <2>1. proc' = [proc EXCEPT ![p] = Flushed(p)]
    BY <1>6 DEF Commit
  <2>2. Flushed(p).pc \in {"projected", "idle", "source"}
    BY AtType DEF Flushed, ProcState, PC
  <2>. QED
    BY <2>1, <2>2
<1>7. CASE Loading
  <2>0. Dashboard \in Process /\ proc[Dashboard] \in ProcState
    BY DEF Process
  <2>1. CASE Load
    <3>. DEFINE c == [At("source") EXCEPT !.todo = {r \in Run : Exists(r) /\ ~HasCursor(r)}]
    <3>1. c \in ProcState /\ c.pc = "source"
      BY AtType DEF ProcState, PC
    <3>2. proc' = [proc EXCEPT ![Dashboard] = c]
      BY <2>1 DEF Load
    <3>. HIDE DEF c
    <3>. QED
      BY <1>2, <2>0, <3>1, <3>2
  <2>2. ASSUME NEW r \in Run, NextSource(r)
        PROVE  \/ proc'[q] = proc[q]
               \/ /\ proc'[q].pc = "load" /\ proc'[q].run = r
                  /\ proc'[q].seen = RowsNow(r)
                  /\ proc[q].item = NoItem /\ UNCHANGED <<file, logged, history>>
    <3>. DEFINE c == [At("load") EXCEPT !.run = r, !.todo = proc[Dashboard].todo \ {r},
                                        !.seen = RowsNow(r)]
    <3>1. proc[Dashboard].todo \subseteq Run /\ proc[Dashboard].item = NoItem
      BY <2>0, OutsidersAssumption DEF ProcState, ProcGood
    <3>2. c \in ProcState /\ c.pc = "load" /\ c.run = r /\ c.seen = RowsNow(r)
      BY <3>1, AtType, RowsNowGood DEF ProcState, PC
    <3>3. proc' = [proc EXCEPT ![Dashboard] = c] /\ UNCHANGED <<file, logged, history>>
      BY <2>2 DEF NextSource
    <3>. HIDE DEF c
    <3>. QED
      BY <1>3, <2>0, <3>1, <3>2, <3>3
  <2>3. CASE LoadFails
    <3>1. At("idle") \in ProcState /\ At("idle").pc = "idle"
      BY AtType DEF PC
    <3>2. proc' = [proc EXCEPT ![Dashboard] = At("idle")]
      BY <2>3 DEF LoadFails
    <3>. QED
      BY <1>2, <2>0, <3>1, <3>2
  <2>. QED
    BY <1>7, <2>1, <2>2, <2>3 DEF Loading
<1>8. ASSUME NEW c \in Reconciler, Reconciling(c) PROVE proc' = proc
  BY <1>8 DEF Reconciling, Match, Reconciled, FixLoad, FixSave
<1>. QED
  BY <1>1, <1>4, <1>5, <1>6, <1>7, <1>8 DEF Next, Flush

LEMMA TruthInit == Init => TruthInv
<1>. SUFFICES ASSUME Init PROVE TruthInv
  OBVIOUS
<1>1. \A i \in Item : Told(i, cursor[RunOf[i]][i])
  BY RunOfAssumption DEF Init, Told, NoCursor
<1>2. \A p \in Process : proc[p].pc # "write"
  BY DEF Init, At
<1>. QED
  BY <1>1, <1>2, TypeInit DEF TruthInv

LEMMA TruthNext == TruthInv /\ [Next]_vars => TruthInv'
<1>. SUFFICES ASSUME TruthInv, [Next]_vars PROVE TruthInv'
  OBVIOUS
<1>0. TypeInv /\ TypeOK /\ TypeInv' /\ TypeOK'
  BY TypeNext DEF TruthInv, TypeInv
<1>a. ASSUME NEW i \in Item, NEW s, Told(i, s) PROVE Told(i, s)'
  BY <1>0, <1>a, ToldStays
<1>1. ASSUME NEW i \in Item PROVE Told(i, cursor[RunOf[i]][i])'
  <2>0. RunOf[i] \in Run
    BY RunOfAssumption
  <2>1. PICK c, d : c = cursor[RunOf[i]][i] /\ d = cursor'[RunOf[i]][i]
    OBVIOUS
  <2>2. Told(i, c)'
    BY <1>a, <2>1 DEF TruthInv
  <2>3. ASSUME NEW p \in Process, Commit(p), proc[p].run = RunOf[i] PROVE Told(i, d)'
    <3>1. PICK s : s = proc[p].seen[i]
      OBVIOUS
    <3>2. d = Claim(s)
      BY <1>0, <2>0, <2>1, <2>3, <3>1 DEF Commit, TypeOK
    <3>. QED
      BY <2>3, <3>1, <3>2, Committed
  <2>4. ASSUME NEW p \in Process, Commit(p), proc[p].run # RunOf[i] PROVE d = c
    BY <1>0, <2>0, <2>1, <2>4 DEF Commit, TypeOK
  <2>5. UNCHANGED logged => d = c
    BY <2>1 DEF logged
  <2>6. Told(i, d)'
    BY <1>0, <2>2, <2>3, <2>4, <2>5, LogStep
  <2>. QED
    BY <2>1, <2>6 DEF Told, InLog, FailureLogged
<1>2. ASSUME NEW q \in Process, NEW i \in Item, proc'[q].pc = "write", proc'[q].run = RunOf[i]
      PROVE  Told(i, proc[q].prior[i])'
  <2>1. PICK s : s = proc'[q].prior[i]
    OBVIOUS
  <2>2. ASSUME proc'[q] = proc[q] PROVE Told(i, s)'
    <3>1. proc[q].pc = "write" /\ proc[q].run = RunOf[i] /\ s = proc[q].prior[i]
      BY <1>2, <2>1, <2>2
    <3>2. Told(i, s)
      BY <3>1 DEF TruthInv
    <3>. QED
      BY <1>a, <3>2
  <2>3. ASSUME proc'[q].run = proc[q].run, proc'[q].prior = cursor[proc[q].run]
        PROVE  Told(i, s)'
    <3>1. s = cursor[RunOf[i]][i]
      BY <1>2, <2>1, <2>3
    <3>2. Told(i, s)
      BY <3>1 DEF TruthInv
    <3>. QED
      BY <1>a, <3>2
  <2>4. \/ proc'[q] = proc[q]
        \/ proc'[q].run = proc[q].run /\ proc'[q].prior = cursor[proc[q].run]
    <3>1. proc'[q].pc \in {"load", "write"} /\ proc'[q].pc # "load"
      BY <1>2
    <3>. QED
      BY <1>0, <3>1, FlushStep
  <2>5. Told(i, s)'
    BY <2>2, <2>3, <2>4
  <2>. QED
    BY <2>1, <2>5 DEF Told, InLog, FailureLogged
<1>. QED
  BY <1>0, <1>1, <1>2 DEF TruthInv

\* What the cursor says of an item is in the log, however the flushes of the run
\* and of the dashboard interleave and the writes of its row undo each other: a
\* cursor may move back, and never ahead.
THEOREM CursorIsTruthful == Spec => []CursorTellsTheTruth
<1>1. TruthInv => CursorTellsTheTruth
  BY DEF TruthInv, Told, CursorTellsTheTruth
<1>. QED
  BY <1>1, TruthInit, TruthNext, PTL DEF Spec

-----------------------------------------------------------------------------
(***************************************************************************)
(* The flush of a run has the run's own last word: a post that it does not *)
(* log is one whose record was lost.                                       *)
(***************************************************************************)

Noted(i, u) == u \in articles \/ <<i, u>> \in lost

\* A post that is not in the log yet is in the file, and in what the run's own flush
\* read of it, or in the run's hands.
OnItsWay(i, u) ==
  \/ /\ file[i] = DoneAt(u)
     /\ proc[RunOf[i]].pc \in {"load", "write"} => proc[RunOf[i]].seen[i] = DoneAt(u)
  \/ proc[RunOf[i]].item = i /\ proc[RunOf[i]].row = DoneAt(u)

Own(i, u) ==
  <<i, u>> \in sent =>
    /\ Noted(i, u) \/ OnItsWay(i, u)
    /\ proc[RunOf[i]].pc = "projected" => Noted(i, u)

OwnInv == TruthInv /\ \A i \in Item, u \in Live : Own(i, u)

LEMMA NotedStays ==
  ASSUME TypeInv, [Next]_vars, NEW i \in Item, NEW u, Noted(i, u)
  PROVE  Noted(i, u)'
BY HistoryGrows, LogGrows DEF Noted

\* A write keeps the post of a row, or loses it.
LEMMA WriteKeeps ==
  ASSUME TypeInv, NEW r, NEW rows, Write(r, rows), NEW i \in Item, NEW u, <<i, u>> \in sent,
         file[i] = DoneAt(u)
  PROVE  file'[i] = DoneAt(u) \/ <<i, u>> \in lost'
<1>1. file'[i] = IF RunOf[i] = r THEN rows[i] ELSE file[i]
  BY DEF Write
<1>2. RunOf[i] = r /\ rows[i] # DoneAt(u) => <<i, u>> \in lost'
  BY DEF Write
<1>. QED
  BY <1>1, <1>2

\* What another process, or a reconciler, does to a post of a run.
LEMMA OwnElsewhere ==
  ASSUME OwnInv, [Next]_vars, NEW i \in Item, NEW u \in Live,
         proc'[RunOf[i]] = proc[RunOf[i]], <<i, u>> \in sent' => <<i, u>> \in sent,
         UNCHANGED file \/ \E r : \E rows : Write(r, rows)
  PROVE  Own(i, u)'
<1>0. TypeInv /\ Own(i, u)
  BY DEF OwnInv, TruthInv
<1>. SUFFICES ASSUME <<i, u>> \in sent PROVE Own(i, u)'
  BY DEF Own
<1>1. Noted(i, u) => Noted(i, u)'
  BY <1>0, NotedStays
<1>2. OnItsWay(i, u) => Noted(i, u)' \/ OnItsWay(i, u)'
  <2>1. file[i] = DoneAt(u) => file'[i] = DoneAt(u) \/ <<i, u>> \in lost'
    BY <1>0, WriteKeeps
  <2>. QED
    BY <2>1 DEF OnItsWay, Noted
<1>. QED
  BY <1>0, <1>1, <1>2 DEF Own

LEMMA OwnPublishing ==
  ASSUME OwnInv, NEW r \in Run, Publishing(r), NEW i \in Item, NEW u \in Live
  PROVE  Own(i, u)'
<1>0. /\ TypeInv /\ TypeOK /\ Own(i, u) /\ r \in Process /\ proc[r] \in ProcState
      /\ proc \in [Process -> ProcState] /\ ProcGood(r, proc[r]) /\ [Next]_vars
      /\ RunOf[i] \in Process
  BY RunOfAssumption DEF OwnInv, TruthInv, TypeInv, TypeOK, Process, Next
<1>a. Noted(i, u) => Noted(i, u)'
  BY <1>0, NotedStays
<1>1. ASSUME <<i, u>> \in sent', <<i, u>> \notin sent
      PROVE  /\ RunOf[i] = r /\ \E j \in Item, url \in Live : Publish(r, j, url) /\ i = j /\ u = url
  <2>1. ASSUME NEW q, NEW rows, Write(q, rows) PROVE FALSE
    BY <1>1, <2>1 DEF Write
  <2>2. PICK j \in Item, url \in Live : Publish(r, j, url)
    BY <1>1, <2>1 DEF Publishing, Create, Resume, Finish, Die, Fail, LoadFile, SaveFile,
                      MarkLoad, MarkSave, history
  <2>3. i = j /\ u = url
    BY <1>1, <2>2 DEF Publish
  <2>4. RunOf[i] = r
    BY <1>0, <2>2, <2>3 DEF Publish, TakesUp, ProcGood
  <2>. QED
    BY <2>2, <2>3, <2>4
<1>2. CASE RunOf[i] # r
  <2>1. proc'[RunOf[i]] = proc[RunOf[i]]
    <3>1. \E c : proc' = [proc EXCEPT ![r] = c]
      BY <1>0, RunStep DEF Finish
    <3>. QED
      BY <1>0, <1>2, <3>1
  <2>2. UNCHANGED file \/ \E q : \E rows : Write(q, rows)
    BY DEF Publishing, Create, Resume, Finish, Die, Publish, Fail, LoadFile, SaveFile,
           MarkLoad, MarkSave
  <2>. QED
    BY <1>0, <1>1, <1>2, <2>1, <2>2, OwnElsewhere
<1>3. CASE RunOf[i] = r /\ <<i, u>> \in sent /\ Noted(i, u)
  BY <1>a, <1>3 DEF Own
<1>4. ASSUME RunOf[i] = r, <<i, u>> \in sent, ~Noted(i, u)
      PROVE  Own(i, u)'
  <2>0. OnItsWay(i, u) /\ proc[r].pc # "projected"
    BY <1>0, <1>4 DEF Own
  <2>1. ASSUME UNCHANGED file, NEW c, proc' = [proc EXCEPT ![r] = c], c.pc # "projected",
               c.pc \in {"load", "write"} => c.seen[i] = file[i],
               (c.item = proc[r].item /\ c.row = proc[r].row) \/ proc[r].item = NoItem
        PROVE  Own(i, u)'
    <3>1. proc'[r] = c
      BY <1>0, <2>1
    <3>2. i # NoItem
      BY OutsidersAssumption
    <3>. QED
      BY <1>4, <2>0, <2>1, <3>1, <3>2 DEF Own, OnItsWay
  <2>2. CASE Create(r) \/ Resume(r) \/ Finish(r)
    <3>1. proc[r].item = NoItem
      BY <1>0, <2>2 DEF Create, Resume, Finish, ProcGood
    <3>2. CASE Finish(r)
      <4>. DEFINE c == [At("load") EXCEPT !.run = r, !.seen = RowsNow(r)]
      <4>1. c.pc = "load" /\ c.seen = RowsNow(r)
        BY DEF At
      <4>2. RowsNow(r)[i] = file[i]
        BY <1>4 DEF RowsNow
      <4>3. proc' = [proc EXCEPT ![r] = c] /\ UNCHANGED file
        BY <3>2 DEF Finish
      <4>. HIDE DEF c
      <4>. QED
        BY <2>1, <3>1, <4>1, <4>2, <4>3
    <3>3. CASE Create(r) \/ Resume(r)
      <4>1. PICK c : proc' = [proc EXCEPT ![r] = c] /\ c.pc \notin {"load", "write", "projected"}
        <5>1. PICK left : proc' = [proc EXCEPT ![r] = [At("going") EXCEPT !.left = left]]
          BY <3>3 DEF Create, Resume
        <5>2. [At("going") EXCEPT !.left = left].pc = "going"
          BY DEF At
        <5>. QED
          BY <5>1, <5>2
      <4>. QED
        BY <2>1, <3>1, <3>3, <4>1 DEF Create, Resume
    <3>. QED
      BY <2>2, <3>2, <3>3
  <2>3. CASE Die(r)
    <3>1. proc'[r] = At("over") /\ At("over").pc = "over" /\ UNCHANGED file
      BY <1>0, <2>3, AtType DEF Die, PC
    <3>2. proc[r].item = i /\ proc[r].row = DoneAt(u) => <<i, u>> \in lost'
      BY <1>4, <2>3 DEF Die
    <3>. QED
      BY <1>4, <2>0, <3>1, <3>2 DEF Own, OnItsWay, Noted
  <2>4. CASE LoadFile(r)
    <3>. DEFINE c == [proc[r] EXCEPT !.pc = "save", !.seen = RowsNow(r)]
    <3>1. c.pc = "save" /\ c.item = proc[r].item /\ c.row = proc[r].row
      BY <1>0 DEF ProcState
    <3>2. proc' = [proc EXCEPT ![r] = c] /\ UNCHANGED file
      BY <1>0, <2>4 DEF LoadFile
    <3>. HIDE DEF c
    <3>. QED
      BY <2>1, <3>1, <3>2
  <2>5. CASE MarkLoad(r)
    BY <2>0, <2>5 DEF MarkLoad
  <2>6. CASE SaveFile(r)
    <3>. DEFINE rows == [proc[r].seen EXCEPT ![proc[r].item] = proc[r].row]
                c == [At("going") EXCEPT !.left = proc[r].left]
    <3>1. proc'[r] = c /\ c.pc = "going"
      BY <1>0, <2>6 DEF SaveFile, At
    <3>2. Write(r, rows)
      BY <2>6 DEF SaveFile
    <3>3. proc[r].item = i /\ proc[r].row = DoneAt(u) => file'[i] = DoneAt(u)
      <4>1. file'[i] = rows[i]
        BY <1>4, <3>2 DEF Write
      <4>2. proc[r].seen \in [Item -> ItemState]
        BY <1>0 DEF ProcState
      <4>. QED
        BY <4>1, <4>2
    <3>. HIDE DEF rows, c
    <3>4. file[i] = DoneAt(u) => file'[i] = DoneAt(u) \/ <<i, u>> \in lost'
      BY <1>0, <1>4, <3>2, WriteKeeps
    <3>. QED
      BY <1>4, <2>0, <3>1, <3>3, <3>4 DEF Own, OnItsWay, Noted
  <2>7. CASE MarkSave(r)
    <3>1. proc'[r] = At("over") /\ At("over").pc = "over" /\ Write(r, proc[r].seen)
      BY <1>0, <2>7, AtType DEF MarkSave, PC
    <3>2. proc[r].item = NoItem /\ i # NoItem
      BY <1>0, <2>7, OutsidersAssumption DEF MarkSave, ProcGood
    <3>3. file[i] = DoneAt(u) => file'[i] = DoneAt(u) \/ <<i, u>> \in lost'
      BY <1>0, <1>4, <3>1, WriteKeeps
    <3>. QED
      BY <1>4, <2>0, <3>1, <3>2, <3>3 DEF Own, OnItsWay, Noted
  <2>8. ASSUME NEW j \in Item, NEW row, TakesUp(r, j), Outcome(r, j, row), UNCHANGED file
        PROVE  Own(i, u)'
    <3>. DEFINE c == [proc[r] EXCEPT !.item = j, !.row = row, !.left = {x \in @ : x > j}]
    <3>1. proc' = [proc EXCEPT ![r] = c] /\ c.pc = "going" /\ proc[r].item = NoItem
      BY <1>0, <2>8 DEF Outcome, TakesUp, ProcState
    <3>. HIDE DEF c
    <3>. QED
      BY <2>1, <2>8, <3>1
  <2>. QED
    BY <2>2, <2>3, <2>4, <2>5, <2>6, <2>7, <2>8 DEF Publishing, Publish, Fail
<1>5. ASSUME RunOf[i] = r, <<i, u>> \in sent', <<i, u>> \notin sent
      PROVE  Own(i, u)'
  <2>1. Publish(r, i, u)
    BY <1>1, <1>5
  <2>2. proc'[r].item = i /\ proc'[r].row = DoneAt(u) /\ proc'[r].pc = "going"
    BY <1>0, <2>1 DEF Publish, Outcome, TakesUp, ProcState
  <2>. QED
    BY <1>5, <2>2 DEF Own, OnItsWay
<1>. QED
  BY <1>1, <1>2, <1>3, <1>4, <1>5 DEF Own

LEMMA OwnNext == OwnInv /\ [Next]_vars => OwnInv'
<1>. SUFFICES ASSUME OwnInv, [Next]_vars, NEW i \in Item, NEW u \in Live PROVE Own(i, u)'
  BY TruthNext DEF OwnInv
<1>. DEFINE r == RunOf[i]
<1>0. /\ TypeInv /\ TypeOK /\ TruthInv /\ Own(i, u) /\ r \in Run /\ r \in Process /\ r # Dashboard
      /\ proc \in [Process -> ProcState] /\ ProcGood(r, proc[r])
  BY RunOfAssumption, OutsidersAssumption DEF OwnInv, TruthInv, TypeInv, TypeOK, Process
<1>1. CASE UNCHANGED vars
  BY <1>1, OwnElsewhere DEF vars
<1>2. ASSUME NEW x \in Run, Publishing(x) PROVE Own(i, u)'
  BY <1>2, OwnPublishing
<1>3. CASE Loading
  BY <1>0, <1>3, OwnElsewhere DEF Loading, Load, NextSource, LoadFails, history
<1>4. ASSUME NEW c \in Reconciler, Reconciling(c) PROVE Own(i, u)'
  <2>1. CASE Match(c) \/ Reconciled(c) \/ \E j \in Item : FixLoad(c, j)
    BY <2>1, OwnElsewhere DEF Match, Reconciled, FixLoad, history
  <2>2. ASSUME NEW saved \in BOOLEAN, FixSave(c, saved) PROVE Own(i, u)'
    <3>1. CASE saved
      <4>1. PICK q, rows : Write(q, rows)
        BY <2>2, <3>1 DEF FixSave
      <4>2. sent' = sent /\ proc' = proc
        BY <2>2, <4>1 DEF Write, FixSave
      <4>. QED
        BY <4>1, <4>2, OwnElsewhere
    <3>2. CASE ~saved
      BY <2>2, <3>2, OwnElsewhere DEF FixSave, history
    <3>. QED
      BY <3>1, <3>2
  <2>. QED
    BY <1>4, <2>1, <2>2 DEF Reconciling
<1>5. ASSUME NEW p \in Process, LoadCursor(p) PROVE Own(i, u)'
  <2>1. UNCHANGED <<file, articles, sent, lost>>
    BY <1>5 DEF LoadCursor, logged, history
  <2>2. /\ proc'[r].item = proc[r].item /\ proc'[r].row = proc[r].row
        /\ proc'[r].seen = proc[r].seen
        /\ proc'[r].pc \in {"load", "write"} => proc[r].pc \in {"load", "write"}
        /\ proc'[r].pc = "projected" => proc[r].pc = "projected"
    BY <1>0, <1>5 DEF LoadCursor, ProcState
  <2>. QED
    BY <1>0, <2>1, <2>2 DEF Own, OnItsWay, Noted
<1>6. ASSUME NEW p \in Process, Commit(p) PROVE Own(i, u)'
  <2>1. CASE p # r
    BY <1>0, <1>6, <2>1, OwnElsewhere DEF Commit, history
  <2>2. CASE p = r /\ <<i, u>> \in sent
    <3>1. proc[r].item = NoItem /\ proc[r].run = r /\ proc[r].pc = "write" /\ i # NoItem
      BY <1>0, <1>6, <2>2, OutsidersAssumption DEF Commit, ProcGood
    <3>2. Noted(i, u) \/ proc[r].seen[i] = DoneAt(u)
      BY <1>0, <2>2, <3>1 DEF Own, OnItsWay
    <3>3. ASSUME proc[r].seen[i] = DoneAt(u) PROVE u \in articles'
      <4>1. PICK s : s = proc[r].seen[i]
        OBVIOUS
      <4>2. Told(i, Claim(s))'
        BY <1>0, <1>6, <2>2, <3>1, <4>1, Committed
      <4>3. Claim(s) = s /\ s.status = "done" /\ s.url = u /\ s # NoClaim /\ u # NoUrl
        BY <3>3, <4>1, ClaimType, NoClaimAssumption, OutsidersAssumption DEF Claim, DoneAt
      <4>. QED
        BY <4>2, <4>3 DEF Told, InLog
    <3>4. Noted(i, u)'
      BY <1>0, <3>2, <3>3, NotedStays DEF Noted
    <3>. QED
      BY <3>4 DEF Own
  <2>3. CASE <<i, u>> \notin sent
    BY <1>6, <2>3 DEF Own, Commit, history
  <2>. QED
    BY <2>1, <2>2, <2>3
<1>. QED
  BY <1>1, <1>2, <1>3, <1>4, <1>5, <1>6 DEF Next, Flush

\* The flush at the end of a run puts every post of the run into the log, whatever the
\* dashboard and the reconcilers do between its steps, but those whose record was lost:
\* with the process that had it in hand, or to the write of another process.
THEOREM FlushLogsTheRun == Spec => []FlushedRunIsLogged
<1>1. Init => OwnInv
  BY TruthInit DEF Init, OwnInv, Own
<1>2. OwnInv => FlushedRunIsLogged
  BY DEF OwnInv, Own, Noted, FlushedRunIsLogged, Rows
<1>. QED
  BY <1>1, <1>2, OwnNext, PTL DEF Spec

-----------------------------------------------------------------------------
(***************************************************************************)
(* EventProjection implements PostLedger.  A flush confirms, and a write   *)
(* puts into the file, what was read some steps before: both rely on what  *)
(* TypeInv says of every row that a process has in hand.                   *)
(***************************************************************************)

LEMMA LedgerWrite ==
  ASSUME TypeInv, NEW r \in Run, NEW rows \in [Item -> ItemState], Write(r, rows),
         \A i \in Item : Good(i, rows[i]), UNCHANGED <<posts, log>>
  PROVE  Ledger!Next
<1>. DEFINE done == {i \in Item : file[i].status = "done"}
            url == [i \in Item |-> file[i].url]
<1>0. \A i \in Item : file'[i] = IF RunOf[i] = r THEN rows[i] ELSE file[i]
  BY DEF Write
<1>1. ASSUME NEW i \in Item, RunOf[i] = r
      PROVE  /\ i \in done' => Landed(TargetOf[i])
             /\ url'[i] # NoUrl => i \in done' /\ <<i, url'[i]>> \in sent
  <2>1. Good(i, rows[i]) /\ file'[i] = rows[i]
    BY <1>0, <1>1
  <2>. QED
    BY <2>1 DEF Good
<1>2. ASSUME NEW i \in Item, RunOf[i] # r
      PROVE  url'[i] = url[i] /\ (i \in done' <=> i \in done)
  BY <1>0, <1>2
<1>3. UNCHANGED <<posts, sent, log>>
  BY DEF Write
<1>. HIDE DEF done, url
<1>4. Ledger!Rewrite(r)
  BY <1>1, <1>2, <1>3 DEF done, url, Landed, Ledger!Rewrite, Ledger!Justified, Ledger!Kept, Ledger!Landed
<1>. QED
  BY <1>4 DEF Ledger!Next

\* A step is one of a post, of the items of a run, or of the log.
LEMMA LedgerStep ==
  ASSUME TypeInv, ConfirmedOnce, [Next]_vars
  PROVE  [Ledger!Next]_(Ledger!vars)
<1>0. TypeOK
  BY DEF TypeInv
<1>1. CASE UNCHANGED <<file, posts, sent, log>>
  BY <1>1 DEF Ledger!vars
<1>2. ASSUME NEW r \in Run, NEW i \in Item, NEW u \in Live, Publish(r, i, u)
      PROVE  Ledger!Next
  <2>1. /\ UNCHANGED <<file, log>> /\ posts' = [posts EXCEPT ![u] = TargetOf[i]]
        /\ sent' = sent \cup {<<i, u>>} /\ posts[u] \in {NoTarget, TargetOf[i]}
    BY <1>2 DEF Publish, logged
  <2>2. Ledger!Send(i, u)
    BY <2>1 DEF Ledger!Send
  <2>. QED
    BY <2>2 DEF Ledger!Next
<1>3. ASSUME NEW r \in Run, SaveFile(r) PROVE Ledger!Next
  <2>. DEFINE rows == [proc[r].seen EXCEPT ![proc[r].item] = proc[r].row]
  <2>1. /\ r \in Process /\ proc[r].row \in ItemState /\ proc[r].seen \in [Item -> ItemState]
        /\ proc[r].item \in Item /\ Good(proc[r].item, proc[r].row)
        /\ \A i \in Item : Good(i, proc[r].seen[i])
    BY <1>0, <1>3 DEF SaveFile, TypeInv, TypeOK, ProcGood, ProcState, Process
  <2>2. rows \in [Item -> ItemState]
    BY <2>1
  <2>3. ASSUME NEW i \in Item PROVE Good(i, rows[i])
    <3>1. CASE i = proc[r].item
      BY <2>1, <3>1
    <3>2. CASE i # proc[r].item
      BY <2>1, <3>2
    <3>. QED
      BY <3>1, <3>2
  <2>4. Write(r, rows) /\ UNCHANGED <<posts, log>>
    BY <1>3 DEF SaveFile, logged, published
  <2>. HIDE DEF rows
  <2>. QED
    BY <2>2, <2>3, <2>4, LedgerWrite
<1>4. ASSUME NEW r \in Run, MarkSave(r) PROVE Ledger!Next
  <2>1. proc[r].seen \in [Item -> ItemState] /\ \A i \in Item : Good(i, proc[r].seen[i])
    BY <1>0 DEF TypeInv, TypeOK, ProcGood, ProcState, Process
  <2>2. Write(r, proc[r].seen) /\ UNCHANGED <<posts, log>>
    BY <1>4 DEF MarkSave, logged, published
  <2>. QED
    BY <2>1, <2>2, LedgerWrite
<1>5. ASSUME NEW c \in Reconciler, NEW saved \in BOOLEAN, FixSave(c, saved)
      PROVE  Ledger!Next \/ UNCHANGED <<file, posts, sent, log>>
  <2>1. recon[c].pc = "fix" /\ UNCHANGED <<posts, log>>
    BY <1>5 DEF FixSave, logged, published
  <2>2. CASE saved
    <3>1. Write(RunOf[recon[c].item], FixRows(c))
      BY <1>5, <2>2 DEF FixSave, FixRows
    <3>2. RunOf[recon[c].item] \in Run
      BY <2>1, FixGood, RunOfAssumption
    <3>. QED
      BY <2>1, <3>1, <3>2, FixGood, LedgerWrite
  <2>3. CASE ~saved
    BY <1>5, <2>1, <2>3 DEF FixSave, history
  <2>. QED
    BY <2>2, <2>3
<1>6. ASSUME NEW p \in Process, Commit(p) PROVE Ledger!Next
  <2>1. UNCHANGED <<file, posts, sent>>
    BY <1>6 DEF Commit, published, history
  <2>2. log'.confirmed = [u \in Live |-> log.confirmed[u] + IF u \in Confirmed(p) THEN 1 ELSE 0]
    BY <1>6 DEF Commit, Emit
  <2>3. Confirmed(p) \in SUBSET Live
    BY <1>0, ConfirmedType
  <2>4. ASSUME NEW u \in Confirmed(p) PROVE posts[u] # NoTarget /\ log.confirmed[u] = 0
    <3>1. PICK i \in Item : u = proc[p].seen[i].url
      BY DEF Confirmed, Changed, Rows
    <3>2. u \in Live /\ u # NoUrl /\ u \notin articles
      BY <2>3, OutsidersAssumption DEF Confirmed
    <3>3. <<i, u>> \in sent
      BY <3>1, <3>2 DEF TypeInv, ProcGood, Good
    <3>4. posts[u] = TargetOf[i]
      BY <3>3 DEF TypeInv, PostsGood
    <3>. QED
      BY <3>2, <3>4, TargetOfAssumption, OutsidersAssumption DEF ConfirmedOnce
  <2>5. Ledger!Confirm(Confirmed(p))
    BY <2>1, <2>2, <2>4 DEF Ledger!Confirm
  <2>. QED
    BY <2>3, <2>5 DEF Ledger!Next
<1>7. CASE UNCHANGED vars \/ Loading \/ \E p \in Process : LoadCursor(p)
  <2>1. UNCHANGED <<file, posts, sent, log>>
    BY <1>7 DEF vars, logged, published, history, Loading, Load, NextSource, LoadFails, LoadCursor
  <2>. QED
    BY <1>1, <2>1
<1>8. ASSUME NEW r \in Run,
             \/ Create(r) \/ Resume(r) \/ Finish(r) \/ Die(r) \/ LoadFile(r) \/ MarkLoad(r)
             \/ \E i \in Item, class \in {"failed", "policy_skip"} : Fail(r, i, class)
      PROVE  UNCHANGED <<file, posts, sent, log>>
  BY <1>8 DEF logged, published, history, Create, Resume, Finish, Die, LoadFile, MarkLoad, Fail
<1>9. ASSUME NEW c \in Reconciler, Match(c) \/ Reconciled(c) \/ \E i \in Item : FixLoad(c, i)
      PROVE  UNCHANGED <<file, posts, sent, log>>
  BY <1>9 DEF logged, published, history, Match, Reconciled, FixLoad
<1>. QED
  BY <1>1, <1>2, <1>3, <1>4, <1>5, <1>6, <1>7, <1>8, <1>9 DEF Next, Publishing, Flush, Reconciling

\* The checkpoints, the event log and the reconcilers together keep the ledger of the
\* posts, although the writes of a checkpoint may undo each other: nothing is
\* confirmed before it is published, or twice; what is called done has a post, and a
\* URL only when its own run got it.
THEOREM LedgerImplemented == Spec => ImplementsLedger
<1>1. Init => ConfirmedOnce /\ Ledger!Init
  <2>. SUFFICES ASSUME Init PROVE ConfirmedOnce /\ Ledger!Init
    OBVIOUS
  <2>1. \A i \in Item : file[i].url = NoUrl /\ file[i].status # "done"
    BY DEF Init, Pending
  <2>2. [i \in Item |-> file[i].url] = [i \in Item |-> NoUrl]
    BY <2>1
  <2>. QED
    BY <2>1, <2>2 DEF Init, ConfirmedOnce, Ledger!Init
<1>. QED
  BY <1>1, TypeInit, TypeNext, ConfirmedNext, LedgerStep, PTL DEF Spec, ImplementsLedger, Ledger!Spec

============================================================================
