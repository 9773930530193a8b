-------------------------- MODULE RaidWeek_proofs --------------------------
(***************************************************************************)
(* What the writers of a raid document and the weekly job guarantee about  *)
(* its clears and choices. The invariant dates the documents and every     *)
(* loaded copy, and says what a copy that may still be saved has kept of   *)
(* the document it was loaded from: a rejected save is why that document   *)
(* is the stored one.                                                      *)
(***************************************************************************)
EXTENDS Schedules_proofs

\* The clears that a copy loaded at time t keeps.
Kept(d, t) == Cleared(Fresh(d, t))

\* The dates of a document: no clear is of a week that was closed, a synced
\* clear is of the week of its fight, and the gold choice is of the week.
Dated(d) ==
  /\ \A g \in Cleared(d) :
       /\ Week(d.clear[g]) >= d.week
       /\ d.of[g] # Never => Week(d.clear[g]) = Week(d.of[g])
  /\ d.gold # Never => Week(d.gold) = d.week

\* What a writer has read and what it has made of it.
ReadOK(w, t) == \A l \in w.logs : l.at # Never /\ l.at <= t
\* What is still to be applied counts for the week of the copy.
Undone(w) ==
  \A l \in w.left :
    /\ w.task.kind \in {"logs", "local"}
    /\ w.task.kind = "logs" => l.at >= StartOf(w.draft.week)
    /\ w.task.kind = "local" => Week(l.at) = Week(w.now)
\* A loaded copy is of the week of its writer's clock.
DraftOK(w, t) ==
  /\ Dated(w.draft) /\ w.draft.week = Week(w.now)
  /\ w.now # Never /\ w.now <= t
  /\ w.left \subseteq w.logs /\ Undone(w)

\* A copy e of the document d, loaded for the task of w: the gold choice of
\* the week is in it, and so are the clears, unless the task takes them.
Follows(w, d, e) ==
  LET kept == Kept(d, w.now)
      kind == w.task.kind
  IN /\ d.week = e.week /\ d.gold # Never => e.gold # Never
     /\ kind \in {"mode", "gold"} => kept \subseteq Cleared(e)
     /\ kind = "mark" => kept \subseteq Cleared(e) \/ e.mode # d.mode
     /\ kind \in {"logs", "local"} =>
          \/ kept = {} \/ \E l \in w.logs : l.mode # d.mode
          \/ kept \subseteq Cleared(e) /\ e.mode = d.mode

\* While nobody else has saved, a copy follows the stored document.
WriterOK(w, docs, t) ==
  /\ ReadOK(w, t)
  /\ w.at = "apply" =>
       DraftOK(w, t) /\ (w.valid => Follows(w, docs[w.task.user], w.draft))
\* The copy of a job is the stored document, rolled.
JobOK(r, docs, t) ==
  /\ r.now <= t
  /\ r.at = "save" =>
       /\ Dated(r.draft)
       /\ r.valid => r.draft = Fresh(docs[r.user], r.now)

\* The inductive invariant.
RaidInv ==
  /\ \A u \in DOMAIN doc : Dated(doc[u])
  /\ \A x \in Writers : WriterOK(writer[x], doc, clock)
  /\ \A j \in Jobs : JobOK(job[j], doc, clock)

-----------------------------------------------------------------------------
\* Weeks and dates. Weeks grow with time.
LEMMA WeekLe ==
  ASSUME NEW s \in Nat, NEW t \in Nat, s <= t
  PROVE  Week(s) <= Week(t) /\ Week(s) \in Nat /\ Week(t) \in Nat
  BY WeekAssumption DEF Week

\* A time is of a week or a later one if it is not before its start.
LEMMA StartLe ==
  ASSUME NEW s \in Nat, NEW w \in Nat
  PROVE  s >= StartOf(w) <=> Week(s) >= w
  BY WeekAssumption DEF Week, StartOf

LEMMA WeekStartLe ==
  ASSUME NEW s \in Nat, NEW t \in Nat
  PROVE  s >= WeekStart(t) <=> Week(s) >= Week(t)
<1>1. Week(t) \in Nat /\ WeekStart(t) = StartOf(Week(t))
  BY WeekLe DEF WeekStart, StartOf
<1> QED
  BY <1>1, StartLe

\* The parts of a document.
LEMMA DocParts ==
  ASSUME NEW d \in Doc
  PROVE  /\ d.week \in Int /\ d.gold \in Nat /\ d.mode \in Modes
         /\ \A g \in Gate : d.clear[g] \in Nat /\ d.of[g] \in Nat
         /\ Never \in Nat
  BY DEF Doc, NoWeek, Never

\* A rollover keeps the clears since the reset, with their mode.
LEMMA RollParts ==
  ASSUME NEW d \in Doc, NEW t \in Nat
  PROVE  LET e == Roll(d, WeekStart(t))
             kept == {g \in Cleared(d) : Week(d.clear[g]) >= Week(t)}
         IN /\ e.gold = Never /\ Cleared(e) = kept
            /\ \A g \in kept : e.clear[g] = d.clear[g] /\ e.of[g] = d.of[g]
            /\ kept # {} => e.mode = d.mode
<1> DEFINE e == Roll(d, WeekStart(t))
           kept == {g \in Cleared(d) : Week(d.clear[g]) >= Week(t)}
           k2 == {g \in Gate : d.clear[g] # Never /\ d.clear[g] >= WeekStart(t)}
<1>1. kept = k2
  BY WeekStartLe, DocParts DEF Cleared
<1>2. /\ e.gold = Never
      /\ e.clear = [g \in Gate |-> IF g \in k2 THEN d.clear[g] ELSE Never]
      /\ e.of = [g \in Gate |-> IF g \in k2 THEN d.of[g] ELSE Never]
      /\ k2 # {} => e.mode = d.mode
  BY DEF Roll, Doc
<1>3. Cleared(e) = k2
  BY <1>2 DEF Cleared
<1>4. \A g \in k2 : e.clear[g] = d.clear[g] /\ e.of[g] = d.of[g]
  BY <1>2
<1> HIDE DEF k2
<1> QED
  BY <1>1, <1>2, <1>3, <1>4, Zenon

\* ensureFreshWeek leaves a dated document of the week of the clock, with the
\* clears of that week and, if it was of that week, its gold choice.
LEMMA FreshParts ==
  ASSUME NEW d \in Doc, NEW t \in Nat, Dated(d)
  PROVE  LET e == Fresh(d, t)
         IN /\ Dated(e) /\ e.week = Week(t) /\ e \in Doc
            /\ \A g \in Cleared(d) : Week(d.clear[g]) >= Week(t) => g \in Cleared(e)
            /\ Cleared(e) # {} => e.mode = d.mode
            /\ d.week = Week(t) => e.gold = d.gold
            /\ d.week # Week(t) => e.gold = Never
<1> DEFINE e == Fresh(d, t)
           r == Roll(d, WeekStart(t))
<1>0. e \in Doc /\ e.week = Week(t) /\ Week(t) \in Nat
  BY FreshType, WeekLe
<1>1. CASE d.week = Week(t)
  BY <1>0, <1>1 DEF Fresh
<1>2. CASE d.week # Week(t)
  <2>0. r \in Doc
    BY RollType, WeekType
  <2>1. /\ e.clear = r.clear /\ e.of = r.of /\ e.gold = r.gold
        /\ e.mode = r.mode
    <3> HIDE DEF r
    <3>1. e = [r EXCEPT !.week = Week(t)]
      BY <1>2 DEF Fresh, r
    <3> QED
      BY <2>0, <3>1 DEF Doc
  <2>2. /\ r.gold = Never
        /\ Cleared(r) = {g \in Cleared(d) : Week(d.clear[g]) >= Week(t)}
        /\ \A g \in Cleared(r) : r.clear[g] = d.clear[g] /\ r.of[g] = d.of[g]
        /\ Cleared(r) # {} => r.mode = d.mode
    BY RollParts
  <2> HIDE DEF r, e
  <2>3. Cleared(e) = Cleared(r)
    BY <2>1 DEF Cleared
  <2> QED
    BY <1>0, <1>2, <2>1, <2>2, <2>3 DEF Dated, e
<1> QED
  BY <1>1, <1>2

\* What each change of a document does to its dates and its clears.
LEMMA InModeParts ==
  ASSUME NEW d \in Doc, Dated(d), NEW m \in Modes
  PROVE  LET e == InMode(d, m)
         IN /\ Dated(e) /\ e \in Doc /\ e.week = d.week /\ e.gold = d.gold
            /\ e.mode = m /\ (d.mode = m => e = d)
<1> DEFINE e == InMode(d, m)
<1>1. CASE d.mode = m
  BY <1>1 DEF InMode
<1>2. CASE d.mode # m
  <2>1. /\ e.week = d.week /\ e.gold = d.gold /\ e.mode = m
        /\ e.clear = [g \in Gate |-> Never]
    BY <1>2 DEF InMode, Doc
  <2>2. Cleared(e) = {}
    BY <2>1 DEF Cleared
  <2>3. e \in Doc
    BY InModeType
  <2> HIDE DEF e
  <2> QED
    BY <1>2, <2>1, <2>2, <2>3 DEF Dated, e
<1> QED
  BY <1>1, <1>2

LEMMA StampParts ==
  ASSUME NEW d \in Doc, Dated(d), NEW gates, NEW at \in Nat, NEW of \in Nat,
         at # Never => Week(at) >= d.week /\ (of # Never => Week(at) = Week(of))
  PROVE  LET e == Stamp(d, gates, at, of)
         IN /\ Dated(e) /\ e \in Doc /\ e.week = d.week /\ e.gold = d.gold
            /\ e.mode = d.mode /\ (at # Never => Cleared(d) \subseteq Cleared(e))
<1> DEFINE e == Stamp(d, gates, at, of)
<1>1. /\ e.week = d.week /\ e.gold = d.gold /\ e.mode = d.mode
      /\ e.clear = [g \in Gate |-> IF g \in gates THEN at ELSE d.clear[g]]
      /\ e.of = [g \in Gate |-> IF g \in gates THEN of ELSE d.of[g]]
  BY DEF Stamp, Doc
<1>2. e \in Doc
  BY StampType
<1> HIDE DEF e
<1> QED
  BY <1>1, <1>2 DEF Dated, Cleared, e

LEMMA MarkParts ==
  ASSUME NEW d \in Doc, Dated(d), NEW m \in Modes, NEW gates,
         NEW at \in Nat, NEW of \in Nat, at # Never, Week(at) >= d.week,
         of # Never => Week(at) = Week(of)
  PROVE  LET e == Mark(d, m, gates, at, of)
         IN /\ Dated(e) /\ e \in Doc /\ e.week = d.week /\ e.gold = d.gold
            /\ Cleared(d) \subseteq Cleared(e) \/ e.mode # d.mode
            /\ m = d.mode => Cleared(d) \subseteq Cleared(e) /\ e.mode = d.mode
<1> DEFINE i == InMode(d, m)
           e == Stamp(i, gates, at, of)
<1>1. /\ Dated(i) /\ i \in Doc /\ i.week = d.week /\ i.gold = d.gold
      /\ i.mode = m /\ (d.mode = m => i = d)
  BY InModeParts
<1> HIDE DEF i
<1>2. /\ Dated(e) /\ e \in Doc /\ e.week = i.week /\ e.gold = i.gold
      /\ e.mode = i.mode /\ Cleared(i) \subseteq Cleared(e)
  BY <1>1, StampParts
<1> HIDE DEF e
<1>3. Mark(d, m, gates, at, of) \in {d, e}
  BY DEF Mark, e, i
<1> QED
  BY <1>1, <1>2, <1>3

LEMMA ReconcileParts ==
  ASSUME NEW d \in Doc, Dated(d), NEW l \in Fight, l.at # Never,
         Week(l.at) >= d.week
  PROVE  LET e == Reconcile(d, l)
         IN /\ Dated(e) /\ e \in Doc /\ e.week = d.week /\ e.gold = d.gold
            /\ l.mode = d.mode => Cleared(d) \subseteq Cleared(e) /\ e.mode = d.mode
<1> DEFINE i == InMode(d, l.mode)
           new == {g \in 1..l.gate : \/ i.clear[g] = Never
                                     \/ g = l.gate /\ l.at > i.clear[g]}
           e == Stamp(i, new, l.at, Never)
<1>0. l.mode \in Modes /\ l.at \in Nat /\ Never \in Nat
  BY DEF Fight, Never
<1>1. /\ Dated(i) /\ i \in Doc /\ i.week = d.week /\ i.gold = d.gold
      /\ i.mode = l.mode /\ (d.mode = l.mode => i = d)
  BY <1>0, InModeParts
<1>3. Reconcile(d, l) \in {d, e}
  BY DEF Reconcile
<1> HIDE DEF i, new
<1>4. Week(l.at) >= i.week
  BY <1>1
<1>2. /\ Dated(e) /\ e \in Doc /\ e.week = i.week /\ e.gold = i.gold
      /\ e.mode = i.mode /\ Cleared(i) \subseteq Cleared(e)
  <2>1. \A at, of \in Nat : of = Never /\ at = l.at =>
          LET f == Stamp(i, new, at, of)
          IN /\ Dated(f) /\ f \in Doc /\ f.week = i.week /\ f.gold = i.gold
             /\ f.mode = i.mode /\ Cleared(i) \subseteq Cleared(f)
    BY <1>1, <1>4, StampParts
  <2> QED
    BY <1>0, <2>1
<1> HIDE DEF e
<1> QED
  BY <1>1, <1>2, <1>3

LEMMA ChooseModeParts ==
  ASSUME NEW d \in Doc, Dated(d), NEW m \in Modes
  PROVE  LET e == ChooseMode(d, m)
         IN /\ Dated(e) /\ e \in Doc /\ e.week = d.week /\ e.gold = d.gold
            /\ Cleared(d) \subseteq Cleared(e)
<1> DEFINE e == ChooseMode(d, m)
           i == InMode(d, m)
<1>1. /\ Dated(i) /\ i \in Doc /\ i.week = d.week /\ i.gold = d.gold
  BY InModeParts
<1>2. e \in Doc
  BY ChooseModeType
<1> HIDE DEF i
<1>3. CASE Cleared(d) = {}
  <2>1. e = [i EXCEPT !.pending = NoMode]
    BY <1>3 DEF ChooseMode, i
  <2>2. /\ e.week = i.week /\ e.gold = i.gold /\ e.clear = i.clear /\ e.of = i.of
    BY <1>1, <2>1 DEF Doc
  <2> HIDE DEF e
  <2> QED
    BY <1>1, <1>2, <1>3, <2>2 DEF e, Dated, Cleared
<1>4. CASE Cleared(d) # {}
  <2>1. e = [d EXCEPT !.pending = IF m = d.mode THEN NoMode ELSE m]
    BY <1>4 DEF ChooseMode
  <2>2. /\ e.week = d.week /\ e.gold = d.gold /\ e.clear = d.clear /\ e.of = d.of
    BY <2>1 DEF Doc
  <2> HIDE DEF e
  <2> QED
    BY <1>2, <2>2 DEF e, Dated, Cleared
<1> QED
  BY <1>3, <1>4

LEMMA ChooseGoldParts ==
  ASSUME NEW d \in Doc, Dated(d), NEW t \in Nat, d.week = Week(t)
  PROVE  LET e == ChooseGold(d, t)
         IN /\ Dated(e) /\ e \in Doc /\ e.week = d.week
            /\ d.gold # Never => e.gold = d.gold
            /\ Cleared(d) \subseteq Cleared(e)
<1> DEFINE e == ChooseGold(d, t)
<1>1. CASE d.gold # Never
  BY <1>1 DEF ChooseGold
<1>2. CASE d.gold = Never
  <2>1. /\ e.week = d.week /\ e.gold = t /\ e.clear = d.clear /\ e.of = d.of
        /\ e \in Doc
    BY <1>2 DEF ChooseGold, Doc
  <2> HIDE DEF e
  <2> QED
    BY <1>2, <2>1 DEF e, Dated, Cleared
<1> QED
  BY <1>1, <1>2

LEMMA ChangeParts ==
  ASSUME NEW k \in Tasks, NEW d \in Doc, Dated(d), clock \in Nat, clock # Never,
         d.week = Week(clock)
  PROVE  LET e == Change(k, d)
         IN /\ Dated(e) /\ e \in Doc /\ e.week = d.week
            /\ d.gold # Never => e.gold # Never
            /\ k.kind \in {"mode", "gold"} => Cleared(d) \subseteq Cleared(e)
            /\ k.kind = "mark" => Cleared(d) \subseteq Cleared(e) \/ e.mode # d.mode
            /\ k.kind \in {"logs", "local"} => e = d
<1>0. k.mode \in Modes /\ Never \in Nat
  BY DEF Tasks, Never
<1>1. CASE k.kind = "mark"
  <2> DEFINE e == Mark(d, k.mode, k.gates, clock, Never)
  <2>1. Change(k, d) = e
    BY <1>1 DEF Change
  <2>2. Week(clock) >= d.week
    BY WeekLe
  <2>3. /\ Dated(e) /\ e \in Doc /\ e.week = d.week /\ e.gold = d.gold
        /\ Cleared(d) \subseteq Cleared(e) \/ e.mode # d.mode
    <3> HIDE DEF e
    <3> QED
      <4>1. \A of \in Nat : of = Never =>
              LET f == Mark(d, k.mode, k.gates, clock, of)
              IN /\ Dated(f) /\ f \in Doc /\ f.week = d.week /\ f.gold = d.gold
                 /\ Cleared(d) \subseteq Cleared(f) \/ f.mode # d.mode
        BY <1>0, <2>2, MarkParts
      <4> QED
        BY <1>0, <4>1 DEF e
  <2> QED
    BY <1>1, <2>1, <2>3
<1>2. CASE k.kind = "reset"
  <2> DEFINE e == Stamp(d, k.gates, Never, Never)
  <2>1. Change(k, d) = e
    BY <1>2 DEF Change, Unmark
  <2>2. /\ Dated(e) /\ e \in Doc /\ e.week = d.week /\ e.gold = d.gold
    BY <1>0, StampParts
  <2> QED
    BY <1>2, <2>1, <2>2
<1>3. CASE k.kind = "mode"
  <2>1. Change(k, d) = ChooseMode(d, k.mode)
    BY <1>3 DEF Change
  <2> QED
    BY <1>0, <1>3, <2>1, ChooseModeParts
<1>4. CASE k.kind = "gold"
  <2>1. Change(k, d) = ChooseGold(d, clock)
    BY <1>4 DEF Change
  <2> QED
    BY <1>4, <2>1, ChooseGoldParts
<1>5. CASE k.kind \in {"logs", "local"}
  <2>1. Change(k, d) = d
    BY <1>5 DEF Change
  <2> QED
    BY <1>5, <2>1
<1> QED
  BY <1>1, <1>2, <1>3, <1>4, <1>5 DEF Tasks

-----------------------------------------------------------------------------
\* The steps. Time and the saves for others do not touch a copy.
LEMMA WriterStays ==
  ASSUME NEW s \in Nat, NEW t \in Nat, s <= t, NEW docs, NEW new,
         NEW w \in Writer, WriterOK(w, docs, s),
         w.at = "apply" /\ w.valid => new[w.task.user] = docs[w.task.user]
  PROVE  WriterOK(w, new, t)
<1>1. ReadOK(w, t)
  <2>1. \A l \in w.logs : l.at \in Nat
    BY DEF Writer, Fight
  <2> QED
    BY <2>1 DEF WriterOK, ReadOK
<1>2. w.at = "apply" => DraftOK(w, t)
  <2>1. w.now \in Nat
    BY DEF Writer
  <2> QED
    BY <2>1 DEF WriterOK, DraftOK
<1> QED
  BY <1>1, <1>2 DEF WriterOK

LEMMA JobStays ==
  ASSUME NEW s \in Nat, NEW t \in Nat, s <= t, NEW docs, NEW new,
         NEW r \in Job, JobOK(r, docs, s),
         r.at = "save" /\ r.valid => new[r.user] = docs[r.user]
  PROVE  JobOK(r, new, t)
<1>1. r.now \in Nat
  BY DEF Job
<1> QED
  BY <1>1 DEF JobOK

\* The types, one by one.
LEMMA RaidTypes ==
  ASSUME StateInv
  PROVE  /\ clock \in Nat /\ clock # Never
         /\ writer \in [Writers -> Writer] /\ job \in [Jobs -> Job]
         /\ \A x \in Writers :
              /\ writer[x] \in Writer /\ writer[x].task \in Tasks
              /\ writer[x].at # "off" => writer[x].task.user \in DOMAIN doc
         /\ \A j \in Jobs :
              /\ job[j] \in Job /\ job[j].todo \subseteq DOMAIN doc
              /\ job[j].at = "save" => job[j].user \in DOMAIN doc
         /\ \A u \in DOMAIN doc : doc[u] \in Doc
         /\ doc = [u \in DOMAIN doc |-> doc[u]]
  BY RecordTypes, DayAssumption
     DEF StateInv, WeekInv, WeekTypeOK, GuildInv, GoodJob, Never

\* Steps elsewhere keep the invariant.
LEMMA RaidKept ==
  ASSUME StateInv, clock' \in Nat, clock <= clock', RaidInv, UNCHANGED weekVars
  PROVE  RaidInv'
<1>1. UNCHANGED <<doc, writer, job>>
  BY DEF weekVars
<1>2. ASSUME NEW x \in Writers PROVE WriterOK(writer[x], doc, clock')
  BY RaidTypes, WriterStays DEF RaidInv
<1>3. ASSUME NEW j \in Jobs PROVE JobOK(job[j], doc, clock')
  BY RaidTypes, JobStays DEF RaidInv
<1> QED
  BY <1>1, <1>2, <1>3 DEF RaidInv

\* So does a step of a writer or a job that ends well.
LEMMA RaidWriterMove ==
  ASSUME StateInv, RaidInv, NEW x \in Writers, NEW w,
         writer' = [writer EXCEPT ![x] = w], UNCHANGED <<clock, doc, job>>,
         WriterOK(w, doc, clock)
  PROVE  RaidInv'
<1>1. ASSUME NEW y \in Writers PROVE WriterOK(writer'[y], doc, clock)
  BY RaidTypes DEF RaidInv
<1> QED
  BY <1>1 DEF RaidInv

LEMMA RaidJobMove ==
  ASSUME StateInv, RaidInv, NEW j \in Jobs, NEW r,
         job' = [job EXCEPT ![j] = r], UNCHANGED <<clock, doc, writer>>,
         JobOK(r, doc, clock)
  PROVE  RaidInv'
<1>1. ASSUME NEW i \in Jobs PROVE JobOK(job'[i], doc, clock)
  BY RaidTypes DEF RaidInv
<1> QED
  BY <1>1 DEF RaidInv

\* A save leaves every other copy of the document void.
LEMMA VoidOK ==
  ASSUME StateInv, RaidInv, NEW u \in DOMAIN doc, NEW d, Stored(u, d)
  PROVE  /\ \A x \in Writers : WriterOK(VoidWriters(u)[x], doc', clock)
         /\ \A j \in Jobs : JobOK(VoidJobs(u)[j], doc', clock)
<1>1. \A v \in DOMAIN doc \ {u} : doc'[v] = doc[v]
  BY RaidTypes DEF Stored
<1>2. ASSUME NEW x \in Writers
      PROVE  WriterOK(VoidWriters(u)[x], doc', clock)
  <2>0. writer[x] \in Writer /\ WriterOK(writer[x], doc, clock)
    BY RaidTypes DEF RaidInv
  <2>1. CASE writer[x].task.user = u /\ writer[x].valid
    <3> DEFINE w == [writer[x] EXCEPT !.valid = FALSE]
    <3>1. VoidWriters(u)[x] = w
      BY <2>1 DEF VoidWriters
    <3>2. /\ w.at = writer[x].at /\ w.logs = writer[x].logs /\ w.now = writer[x].now
          /\ w.left = writer[x].left /\ w.draft = writer[x].draft
          /\ w.task = writer[x].task /\ ~w.valid
      BY <2>0 DEF Writer
    <3> HIDE DEF w
    <3>3. WriterOK(w, doc', clock)
      BY <2>0, <3>2 DEF WriterOK, ReadOK, DraftOK, Undone
    <3> QED
      BY <3>1, <3>3
  <2>2. CASE ~(writer[x].task.user = u /\ writer[x].valid)
    <3>1. VoidWriters(u)[x] = writer[x]
      BY <2>2 DEF VoidWriters
    <3>2. writer[x].at = "apply" /\ writer[x].valid =>
            doc'[writer[x].task.user] = doc[writer[x].task.user]
      BY <1>1, <2>2, RaidTypes
    <3> QED
      BY <2>0, <3>1, <3>2, RaidTypes, WriterStays
  <2> QED
    BY <2>1, <2>2
<1>3. ASSUME NEW j \in Jobs
      PROVE  JobOK(VoidJobs(u)[j], doc', clock)
  <2>0. job[j] \in Job /\ JobOK(job[j], doc, clock)
    BY RaidTypes DEF RaidInv
  <2>1. CASE job[j].user = u
    <3> DEFINE r == [job[j] EXCEPT !.valid = FALSE]
    <3>1. VoidJobs(u)[j] = r
      BY <2>1 DEF VoidJobs
    <3>2. /\ r.at = job[j].at /\ r.now = job[j].now /\ r.draft = job[j].draft
          /\ ~r.valid
      BY <2>0 DEF Job
    <3> HIDE DEF r
    <3>3. JobOK(r, doc', clock)
      BY <2>0, <3>2 DEF JobOK
    <3> QED
      BY <3>1, <3>3
  <2>2. CASE job[j].user # u
    <3>1. VoidJobs(u)[j] = job[j]
      BY <2>2 DEF VoidJobs
    <3>2. job[j].at = "save" => doc'[job[j].user] = doc[job[j].user]
      BY <1>1, <2>2, RaidTypes
    <3> QED
      BY <2>0, <3>1, <3>2, RaidTypes, JobStays
  <2> QED
    BY <2>1, <2>2
<1> QED
  BY <1>2, <1>3

\* A save of a dated copy keeps the invariant.
LEMMA RaidStore ==
  ASSUME StateInv, RaidInv, NEW u \in DOMAIN doc, NEW d, Dated(d), Stored(u, d),
         UNCHANGED clock,
         \A x \in Writers : WriterOK(writer'[x], doc', clock),
         \A j \in Jobs : JobOK(job'[j], doc', clock)
  PROVE  RaidInv'
  BY RaidTypes DEF Stored, RaidInv

\* Whoever is through has nothing to prove.
LEMMA RestOK ==
  ASSUME NEW k \in Tasks, NEW docs, NEW t \in Nat
  PROVE  /\ WriterOK([IdleWriter(k) EXCEPT !.at = "off"], docs, t)
         /\ JobOK(IdleJob, docs, t)
  BY DEF WriterOK, ReadOK, IdleWriter, JobOK, IdleJob

LEMMA RaidGather ==
  ASSUME StateInv, RaidInv, NEW x \in Writers, Gather(x)
  PROVE  RaidInv'
<1>1. UNCHANGED <<clock, doc, job>>
  BY DEF Gather
<1>2. writer[x] \in Writer /\ clock \in Nat /\ ReadOK(writer[x], clock)
  BY RaidTypes DEF RaidInv, WriterOK
<1>3. ASSUME NEW step \in {"gather", "load"}, FixWeek(x, step)
      PROVE  RaidInv'
  <2> DEFINE w == [writer[x] EXCEPT !.at = step, !.since = WeekStart(clock)]
  <2>1. w.logs = writer[x].logs /\ w.at = step
    BY <1>2 DEF Writer
  <2>2. writer' = [writer EXCEPT ![x] = w]
    BY <1>3, RaidTypes DEF FixWeek
  <2> HIDE DEF w
  <2>3. WriterOK(w, doc, clock)
    BY <1>2, <2>1 DEF WriterOK, ReadOK
  <2> QED
    BY <1>1, <2>2, <2>3, RaidWriterMove
<1>4. ASSUME NEW step \in {"gather", "load"}, Scan(x, step)
      PROVE  RaidInv'
  <2>1. PICK logs \in Logs(clock) :
          writer' = [writer EXCEPT ![x].at = step, ![x].logs = logs]
    BY <1>4 DEF Scan
  <2> DEFINE w == [writer[x] EXCEPT !.at = step, !.logs = logs]
  <2>2. w.logs = logs /\ w.at = step
    BY <1>2 DEF Writer
  <2>3. writer' = [writer EXCEPT ![x] = w]
    BY <2>1, RaidTypes
  <2>4. \A l \in logs : l.at # Never /\ l.at <= clock
    BY <1>2 DEF Logs
  <2> HIDE DEF w
  <2>5. WriterOK(w, doc, clock)
    BY <2>2, <2>4 DEF WriterOK, ReadOK
  <2> QED
    BY <1>1, <2>3, <2>5, RaidWriterMove
<1> QED
  BY <1>3, <1>4 DEF Gather

\* What a load takes over from what was read.
LEMMA ItemsParts ==
  ASSUME NEW x \in Writers, NEW d, NEW l \in Items(x, d)
  PROVE  /\ l \in writer[x].logs /\ writer[x].task.kind \in {"logs", "local"}
         /\ writer[x].task.kind = "logs" => l.at >= SyncFloor(writer[x].since, d)
         /\ writer[x].task.kind = "local" => l.at >= writer[x].since
  BY DEF Items, Buckets, WriterTask

\* The filters of a load leave clears of the week of the copy: a sync by the
\* week of the document, Local Sync by the check that no reset has come in
\* between.
LEMMA LoadUndone ==
  ASSUME NEW w \in Writer, clock \in Nat, ReadOK(w, clock), NEW l \in w.logs,
         w.task.kind \in {"logs", "local"}, NEW d, d.week = Week(clock),
         w.task.kind = "logs" => l.at >= SyncFloor(w.since, d),
         w.task.kind = "local" => l.at >= w.since /\ ~WeekMoved(w.since)
  PROVE  /\ w.task.kind = "logs" => l.at >= StartOf(Week(clock))
         /\ w.task.kind = "local" => Week(l.at) = Week(clock)
<1>1. l.at \in Nat /\ w.since \in Nat /\ l.at <= clock
  BY DEF Writer, Fight, ReadOK
<1>2. Week(clock) \in Nat /\ WeekStart(clock) \in Nat /\ StartOf(Week(clock)) \in Nat
  BY WeekType
<1>3. CASE w.task.kind = "logs"
  <2>1. SyncFloor(w.since, d) >= StartOf(Week(clock))
        /\ SyncFloor(w.since, d) \in Nat
    BY <1>1, <1>2 DEF SyncFloor
  <2> QED
    BY <1>1, <1>2, <1>3, <2>1
<1>4. CASE w.task.kind = "local"
  <2>1. l.at >= WeekStart(clock)
    BY <1>1, <1>2, <1>4 DEF WeekMoved
  <2>2. Week(l.at) >= Week(clock) /\ Week(l.at) <= Week(clock)
        /\ Week(l.at) \in Nat
    BY <1>1, <2>1, WeekStartLe, WeekLe
  <2> QED
    BY <1>2, <1>4, <2>2
<1> QED
  BY <1>3, <1>4

\* Loading, applying and saving.
LEMMA RaidLoad ==
  ASSUME StateInv, RaidInv, NEW x \in Writers, Load(x)
  PROVE  RaidInv'
<1> DEFINE v == writer[x]
           k == writer[x].task
           stored == doc[k.user]
           d == Fresh(stored, clock)
           draft == Change(k, d)
           w == [writer[x] EXCEPT !.at = "apply",
                 !.now = clock, !.draft = draft, !.valid = TRUE,
                 !.left = Items(x, d),
                 !.dirty = \/ draft # d
                           \/ k.kind = "logs"
                           \/ k.kind = "mode" /\ draft # stored]
<1>1. UNCHANGED <<clock, doc, job>> /\ writer[x].at = "load"
  BY DEF Load
<1>2. /\ v \in Writer /\ k \in Tasks /\ stored \in Doc /\ clock \in Nat
      /\ clock # Never /\ Dated(stored) /\ ReadOK(v, clock)
  BY <1>1, RaidTypes DEF RaidInv, WriterOK
<1>3. CASE Done(x)
  <2>1. writer' = [writer EXCEPT ![x] = [IdleWriter(k) EXCEPT !.at = "off"]]
    BY <1>3 DEF Done, WriterTask
  <2> QED
    BY <1>1, <1>2, <2>1, RestOK, RaidWriterMove
<1>4. CASE ~Done(x)
  <2>1. /\ writer' = [writer EXCEPT ![x] = w]
        /\ k.kind = "local" => ~WeekMoved(v.since)
    BY <1>4, RaidTypes DEF Load, WriterTask
  <2>2. /\ Dated(d) /\ d.week = Week(clock) /\ d \in Doc
        /\ Cleared(d) # {} => d.mode = stored.mode
        /\ stored.week = Week(clock) => d.gold = stored.gold
    BY <1>2, FreshParts
  <2>3. /\ Dated(draft) /\ draft.week = Week(clock)
        /\ d.gold # Never => draft.gold # Never
        /\ k.kind \in {"mode", "gold"} => Cleared(d) \subseteq Cleared(draft)
        /\ k.kind = "mark" =>
             Cleared(d) \subseteq Cleared(draft) \/ draft.mode # d.mode
        /\ k.kind \in {"logs", "local"} => draft = d
    <3> HIDE DEF d, k
    <3> QED
      BY <1>2, <2>2, ChangeParts
  <2>4. /\ w.at = "apply" /\ w.now = clock /\ w.draft = draft
        /\ w.left = Items(x, d) /\ w.task = k /\ w.logs = v.logs
    <3> HIDE DEF d, draft
    <3> QED
      BY <1>2 DEF Writer
  <2>5. Cleared(d) = Kept(stored, clock)
    BY DEF Kept
  <2>6. Undone(w)
    <3>1. SUFFICES ASSUME NEW l \in Items(x, d)
                   PROVE  /\ k.kind \in {"logs", "local"}
                          /\ k.kind = "logs" => l.at >= StartOf(Week(clock))
                          /\ k.kind = "local" => Week(l.at) = Week(clock)
      BY <2>3, <2>4 DEF Undone
    <3>2. /\ l \in v.logs /\ k.kind \in {"logs", "local"}
          /\ k.kind = "logs" => l.at >= SyncFloor(v.since, d)
          /\ k.kind = "local" => l.at >= v.since
      BY ItemsParts
    <3> HIDE DEF d
    <3> QED
      BY <1>2, <2>1, <2>2, <3>2, LoadUndone
  <2>7. Items(x, d) \subseteq v.logs
    BY ItemsParts
  <2> HIDE DEF w, draft, d
  <2>8. DraftOK(w, clock)
    BY <1>2, <2>3, <2>4, <2>6, <2>7 DEF DraftOK
  <2>9. Follows(w, stored, draft)
    BY <2>2, <2>3, <2>4, <2>5 DEF Follows
  <2>10. WriterOK(w, doc, clock)
    BY <1>2, <2>4, <2>8, <2>9 DEF WriterOK, ReadOK
  <2> QED
    BY <1>1, <2>1, <2>10, RaidWriterMove
<1> QED
  BY <1>3, <1>4

LEMMA RaidApply ==
  ASSUME StateInv, RaidInv, NEW x \in Writers, Apply(x)
  PROVE  RaidInv'
<1> DEFINE v == writer[x]
<1>1. UNCHANGED <<clock, doc, job>> /\ v.at = "apply"
  BY DEF Apply
<1>2. PICK l \in v.left :
        writer' = [writer EXCEPT
          ![x].draft = IF v.task.kind = "logs" THEN Reconcile(v.draft, l)
                       ELSE Mark(v.draft, l.mode, 1..l.gate, v.now, l.at),
          ![x].left = @ \ {l},
          ![x].dirty = @ \/ (IF v.task.kind = "logs" THEN Reconcile(v.draft, l)
                       ELSE Mark(v.draft, l.mode, 1..l.gate, v.now, l.at))
                         # v.draft]
  BY DEF Apply
<1> DEFINE e == IF v.task.kind = "logs" THEN Reconcile(v.draft, l)
                ELSE Mark(v.draft, l.mode, 1..l.gate, v.now, l.at)
           w == [v EXCEPT !.draft = e, !.left = @ \ {l},
                          !.dirty = @ \/ e # v.draft]
<1>3. /\ v \in Writer /\ ReadOK(v, clock) /\ DraftOK(v, clock)
      /\ v.valid => Follows(v, doc[v.task.user], v.draft)
  BY <1>1, RaidTypes DEF RaidInv, WriterOK
<1>4. /\ l \in Fight /\ l \in v.logs /\ l.at # Never /\ l.at \in Nat /\ l.mode \in Modes
      /\ v.draft \in Doc /\ v.now \in Nat /\ v.now # Never
      /\ Dated(v.draft) /\ v.draft.week = Week(v.now)
  BY <1>3 DEF Writer, ReadOK, DraftOK, Fight
<1>5. writer' = [writer EXCEPT ![x] = w]
  BY <1>2, RaidTypes
<1>6. /\ w.draft = e /\ w.left = v.left \ {l} /\ w.at = v.at /\ w.task = v.task
      /\ w.now = v.now /\ w.logs = v.logs /\ w.valid = v.valid
  <2> HIDE DEF e
  <2> QED
    BY <1>3 DEF Writer
<1>7. /\ Dated(e) /\ e.week = v.draft.week /\ e.gold = v.draft.gold
      /\ l.mode = v.draft.mode =>
           Cleared(v.draft) \subseteq Cleared(e) /\ e.mode = v.draft.mode
  <2>1. CASE v.task.kind = "logs"
    <3>1. l.at >= StartOf(v.draft.week) /\ v.draft.week \in Nat
      BY <1>3, <1>4, <2>1, WeekLe DEF DraftOK, Undone
    <3>2. Week(l.at) >= v.draft.week
      BY <1>4, <3>1, StartLe
    <3>3. e = Reconcile(v.draft, l)
      BY <2>1
    <3> HIDE DEF e, v
    <3> QED
      BY <1>4, <3>2, <3>3, ReconcileParts
  <2>2. CASE v.task.kind # "logs"
    <3>1. Week(v.now) = Week(l.at)
      BY <1>3, <2>2 DEF DraftOK, Undone
    <3>2. Week(v.now) >= v.draft.week
      BY <1>4, WeekLe
    <3>3. e = Mark(v.draft, l.mode, 1..l.gate, v.now, l.at)
      BY <2>2
    <3> HIDE DEF e, v
    <3>4. PICK d, m, gates, at, of :
            /\ d = v.draft /\ m = l.mode /\ gates = 1..l.gate
            /\ at = v.now /\ of = l.at
      OBVIOUS
    <3>5. /\ d \in Doc /\ Dated(d) /\ at \in Nat /\ of \in Nat /\ at # Never
          /\ Week(at) >= d.week /\ Week(at) = Week(of) /\ m \in Modes
      BY <1>4, <3>1, <3>2, <3>4
    <3>6. LET f == Mark(d, m, gates, at, of)
          IN /\ Dated(f) /\ f.week = d.week /\ f.gold = d.gold
             /\ m = d.mode => Cleared(d) \subseteq Cleared(f) /\ f.mode = d.mode
      BY <3>5, MarkParts
    <3> QED
      BY <3>3, <3>4, <3>6
  <2> QED
    BY <2>1, <2>2
<1>8. v.task.kind \in {"logs", "local"}
  BY <1>3 DEF DraftOK, Undone
<1> HIDE DEF w, e
<1>9. DraftOK(w, clock)
  BY <1>3, <1>6, <1>7 DEF DraftOK, Undone
<1>10. ASSUME v.valid PROVE Follows(w, doc[v.task.user], e)
  BY <1>3, <1>4, <1>6, <1>7, <1>8, <1>10 DEF Follows
<1>11. WriterOK(w, doc, clock)
  BY <1>3, <1>6, <1>9, <1>10 DEF WriterOK, ReadOK
<1> QED
  BY <1>1, <1>5, <1>11, RaidWriterMove

LEMMA RaidSave ==
  ASSUME StateInv, RaidInv, NEW x \in Writers, Save(x)
  PROVE  RaidInv'
<1> DEFINE v == writer[x]
           k == v.task
           off == [IdleWriter(k) EXCEPT !.at = "off"]
           again == [IdleWriter(k) EXCEPT !.at = "load",
                       !.since = v.since, !.logs = v.logs]
<1>1. UNCHANGED clock /\ v.at = "apply"
  BY DEF Save
<1>2. /\ k \in Tasks /\ k.user \in DOMAIN doc /\ clock \in Nat /\ v \in Writer
      /\ ReadOK(v, clock) /\ Dated(v.draft)
  BY <1>1, RaidTypes DEF RaidInv, WriterOK, DraftOK
<1>3. WriterOK(off, doc, clock) /\ WriterOK(off, doc', clock)
  BY <1>2, RestOK
<1>4. CASE /\ Stored(k.user, v.draft) /\ job' = VoidJobs(k.user)
           /\ writer' = [VoidWriters(k.user) EXCEPT ![x] = off]
  <2>1. ASSUME NEW y \in Writers PROVE WriterOK(writer'[y], doc', clock)
    <3> HIDE DEF off
    <3>1. VoidWriters(k.user) = [y_1 \in Writers |-> VoidWriters(k.user)[y_1]]
      BY DEF VoidWriters
    <3> QED
      BY <1>2, <1>3, <1>4, <3>1, VoidOK
  <2>2. ASSUME NEW j \in Jobs PROVE JobOK(job'[j], doc', clock)
    BY <1>2, <1>4, VoidOK
  <2> QED
    BY <1>1, <1>2, <1>4, <2>1, <2>2, RaidStore
<1>5. CASE writer' = [writer EXCEPT ![x] = off] /\ UNCHANGED <<doc, job>>
  BY <1>1, <1>3, <1>5, RaidWriterMove
<1>6. CASE writer' = [writer EXCEPT ![x] = again] /\ UNCHANGED <<doc, job>>
  <2>1. again.at = "load" /\ again.logs = v.logs
    BY DEF IdleWriter
  <2> HIDE DEF again
  <2>2. WriterOK(again, doc, clock)
    BY <1>2, <2>1 DEF WriterOK, ReadOK
  <2> QED
    BY <1>1, <1>6, <2>2, RaidWriterMove
<1> QED
  BY <1>4, <1>5, <1>6 DEF Save, WriterTask, Done

\* Every step of the weekly job keeps the invariant.
LEMMA RaidJobStep ==
  ASSUME StateInv, RaidInv, NEW j \in Jobs, JobBegin(j) \/ JobStep(j) \/ JobDies(j)
  PROVE  RaidInv'
<1>0. /\ clock \in Nat /\ job[j] \in Job /\ job[j].now \in Nat /\ job[j].now <= clock
      /\ job \in [Jobs -> Job] /\ NoTask.kind = "mark"
  BY RaidTypes DEF RaidInv, JobOK, Job, NoTask
<1>1. CASE JobBegin(j)
  <2> DEFINE r == [job[j] EXCEPT !.at = "find", !.now = clock]
  <2>1. /\ job' = [job EXCEPT ![j] = r] /\ UNCHANGED <<clock, doc, writer>>
    BY <1>0, <1>1 DEF JobBegin
  <2>2. r.now = clock /\ r.at = "find"
    BY <1>0 DEF Job
  <2> HIDE DEF r
  <2>3. JobOK(r, doc, clock)
    BY <1>0, <2>2 DEF JobOK
  <2> QED
    BY <2>1, <2>3, RaidJobMove
<1>2. ASSUME NEW step \in {"scan", "claim", "send", "release"}, JobAt(j, step),
             UNCHANGED <<clock, doc, writer>>
      PROVE  RaidInv'
  <2> DEFINE r == [job[j] EXCEPT !.at = step]
  <2>1. job' = [job EXCEPT ![j] = r]
    BY <1>0, <1>2 DEF JobAt
  <2>2. r.now = job[j].now /\ r.at = step
    BY <1>0 DEF Job
  <2> HIDE DEF r
  <2>3. JobOK(r, doc, clock)
    BY <1>0, <2>2 DEF JobOK
  <2> QED
    BY <1>2, <2>1, <2>3, RaidJobMove
<1>3. ASSUME JobRests(j), UNCHANGED <<clock, doc, writer>>
      PROVE  RaidInv'
  <2>1. JobOK(IdleJob, doc, clock)
    BY <1>0 DEF JobOK, IdleJob
  <2> QED
    BY <1>3, <2>1, RaidJobMove DEF JobRests
<1>4. CASE JobFind(j)
  <2>1. SUFFICES ASSUME job' = [job EXCEPT ![j].at = "next",
                          ![j].todo = {u \in DOMAIN doc : Stale(u, job[j].now)}]
                 PROVE  RaidInv'
    BY <1>3, <1>4 DEF JobFind
  <2> DEFINE todo == {u \in DOMAIN doc : Stale(u, job[j].now)}
             r == [job[j] EXCEPT !.at = "next", !.todo = todo]
  <2>2. job' = [job EXCEPT ![j] = r] /\ UNCHANGED <<clock, doc, writer>>
    BY <1>0, <1>4, <2>1 DEF JobFind
  <2>3. r.now = job[j].now /\ r.at = "next"
    BY <1>0 DEF Job
  <2> HIDE DEF r
  <2>4. JobOK(r, doc, clock)
    BY <1>0, <2>3 DEF JobOK
  <2> QED
    BY <2>2, <2>4, RaidJobMove
<1>5. CASE JobLoad(j)
  <2>1. /\ UNCHANGED <<clock, doc, writer>> /\ job[j].at = "next"
    BY <1>5 DEF JobLoad
  <2>2. PICK u \in job[j].todo :
        \/ job' = [job EXCEPT ![j].todo = @ \ {u}]
        \/ job' = [job EXCEPT ![j].at = "save", ![j].user = u,
                     ![j].draft = Fresh(doc[u], job[j].now), ![j].valid = TRUE]
    BY <1>5 DEF JobLoad
  <2> DEFINE f == Fresh(doc[u], job[j].now)
             q == [job[j] EXCEPT !.todo = @ \ {u}]
             r == [job[j] EXCEPT !.at = "save", !.user = u, !.draft = f,
                                 !.valid = TRUE]
  <2>3. u \in DOMAIN doc /\ doc[u] \in Doc /\ Dated(doc[u])
    BY RaidTypes DEF RaidInv
  <2>4. Dated(f)
    BY <1>0, <2>3, FreshParts
  <2>5. q.now = job[j].now /\ q.at = "next"
    BY <1>0, <2>1 DEF Job
  <2>6. r.now = job[j].now /\ r.at = "save" /\ r.user = u /\ r.draft = f
    <3> HIDE DEF f
    <3> QED BY <1>0 DEF Job
  <2>7. job' = [job EXCEPT ![j] = q] \/ job' = [job EXCEPT ![j] = r]
    BY <1>0, <2>2
  <2>8. f = Fresh(doc[u], job[j].now)
    OBVIOUS
  <2> HIDE DEF f, q, r
  <2>9. JobOK(q, doc, clock) /\ JobOK(r, doc, clock)
    BY <1>0, <2>4, <2>5, <2>6, <2>8 DEF JobOK
  <2> QED
    BY <2>1, <2>7, <2>9, RaidJobMove
<1>6. CASE JobSave(j)
  <2> DEFINE u == job[j].user
             next(todo, modified) ==
               [job[j] EXCEPT !.at = "next", !.todo = todo, !.user = NoUser,
                  !.draft = EmptyDoc, !.valid = FALSE, !.modified = modified]
  <2>1. UNCHANGED clock /\ job[j].at = "save"
    BY <1>6 DEF JobSave
  <2>2. u \in DOMAIN doc /\ Dated(job[j].draft)
    BY <2>1, RaidTypes DEF RaidInv, JobOK
  <2>3. ASSUME NEW todo, NEW m, NEW docs
        PROVE  JobOK(next(todo, m), docs, clock)
    <3>1. next(todo, m).at = "next" /\ next(todo, m).now = job[j].now
      BY <1>0 DEF Job
    <3> HIDE DEF next
    <3> QED
      BY <1>0, <3>1 DEF JobOK
  <2> HIDE DEF next
  <2>4. CASE /\ Stored(u, job[j].draft) /\ writer' = VoidWriters(u)
             /\ job' = [VoidJobs(u) EXCEPT ![j] = next(job[j].todo \ {u}, TRUE)]
    <3>1. ASSUME NEW i \in Jobs PROVE JobOK(job'[i], doc', clock)
      <4>1. VoidJobs(u) = [i_1 \in Jobs |-> VoidJobs(u)[i_1]]
        BY DEF VoidJobs
      <4> QED
        BY <2>2, <2>3, <2>4, <4>1, VoidOK
    <3>2. ASSUME NEW y \in Writers PROVE WriterOK(writer'[y], doc', clock)
      BY <2>2, <2>4, VoidOK
    <3> QED
      BY <2>1, <2>2, <2>4, <3>1, <3>2, RaidStore
  <2>5. CASE /\ \E todo \in {job[j].todo, job[j].todo \ {u}} :
                  job' = [job EXCEPT ![j] = next(todo, job[j].modified)]
             /\ UNCHANGED <<doc, writer>>
    BY <2>1, <2>3, <2>5, RaidJobMove
  <2> QED
    BY <1>6, <2>4, <2>5 DEF JobSave, next
<1>7. CASE JobCheck(j)
  BY <1>2, <1>3, <1>7 DEF JobCheck
<1>8. CASE JobScan(j)
  <2>1. SUFFICES ASSUME job' = [job EXCEPT ![j].at = "claim",
                          ![j].channel = config.channel, ![j].to = config.to["weekly"]]
                 PROVE  RaidInv'
    BY <1>3, <1>8 DEF JobScan
  <2> DEFINE r == [job[j] EXCEPT !.at = "claim", !.channel = config.channel,
                                 !.to = config.to["weekly"]]
  <2>2. job' = [job EXCEPT ![j] = r] /\ UNCHANGED <<clock, doc, writer>>
    BY <1>0, <1>8, <2>1 DEF JobScan
  <2>3. r.now = job[j].now /\ r.at = "claim"
    BY <1>0 DEF Job
  <2> HIDE DEF r
  <2>4. JobOK(r, doc, clock)
    BY <1>0, <2>3 DEF JobOK
  <2> QED
    BY <2>2, <2>4, RaidJobMove
<1>9. CASE JobClaim(j)
  BY <1>2, <1>3, <1>9 DEF JobClaim
<1>10. CASE JobSend(j)
  BY <1>2, <1>3, <1>10 DEF JobSend
<1>11. CASE JobRelease(j)
  BY <1>3, <1>11 DEF JobRelease
<1>12. CASE JobDies(j)
  BY <1>3, <1>12 DEF JobDies
<1> QED
  BY <1>1, <1>4, <1>5, <1>6, <1>7, <1>8, <1>9, <1>10, <1>11, <1>12 DEF JobStep

LEMMA RaidNext ==
  ASSUME StateInv, StateInv', RaidInv, [Next]_vars
  PROVE  RaidInv'
<1>1. clock \in Nat /\ clock' \in Nat
  BY RaidTypes DEF StateInv, NoticeInv, GuildInv, GuildTypeOK
<1>2. CASE WeekNext
  BY <1>2, RaidGather, RaidLoad, RaidApply, RaidSave, RaidJobStep DEF WeekNext
<1>3. CASE ~WeekNext
  <2>1. UNCHANGED weekVars
    BY <1>3 DEF Next, vars
  <2>2. clock <= clock'
    BY <1>1, <1>3, WorkerGuildStep
       DEF StateInv, Next, vars, Pass, Admin, Edit, SetChannel, ClearChannel,
           ScheduleOn, ScheduleOff, ToggleReport, SendReportTo, NoticeNext,
           UsersFinish
  <2> QED
    BY <1>1, <2>1, <2>2, RaidKept
<1> QED
  BY <1>2, <1>3

LEMMA RaidInit ==
  ASSUME Init, StateInv
  PROVE  RaidInv
<1>1. PICK w \in Workloads : WeekInit(w)
  BY DEF Init
<1>2. ASSUME NEW u \in DOMAIN doc PROVE Dated(doc[u])
  <2>1. /\ doc[u].clear = [g \in Gate |-> Never] /\ doc[u].gold = Never
    BY <1>1 DEF WeekInit, EmptyDoc
  <2> QED
    BY <2>1 DEF Dated, Cleared
<1>3. ASSUME NEW x \in Writers PROVE WriterOK(writer[x], doc, clock)
  <2>1. writer[x].logs = {} /\ writer[x].at # "apply"
    BY <1>1 DEF WeekInit, IdleWriter, NoTask
  <2> QED
    BY <2>1 DEF WriterOK, ReadOK
<1>4. ASSUME NEW j \in Jobs PROVE JobOK(job[j], doc, clock)
  <2>1. job[j].now = 0 /\ job[j].at # "save" /\ clock \in Nat
    BY <1>1, RaidTypes DEF WeekInit, IdleJob
  <2> QED
    BY <2>1 DEF JobOK
<1> QED
  BY <1>2, <1>3, <1>4 DEF RaidInv

\* The inductive invariant holds in every reachable state.
LEMMA RaidInductive == Spec => []RaidInv
<1>1. Init /\ StateInv => RaidInv
  BY RaidInit
<1>2. StateInv /\ StateInv' /\ RaidInv /\ [Next]_vars => RaidInv'
  BY RaidNext
<1> QED
  BY <1>1, <1>2, StateInductive, PTL DEF Spec

-----------------------------------------------------------------------------
\* The theorems. No stored clear is of a week before that of its document:
\* whatever week a writer read its logs or its clock in, it brings back no
\* clear of a week that was closed, for any number of writers and weekly jobs
\* that load, roll, reject and save over each other, without a bound on time.
THEOREM ClearsInWeek == Spec => []ClearsOfTheWeek
<1>1. RaidInv => ClearsOfTheWeek
  BY DEF RaidInv, Dated, ClearsOfTheWeek
<1> QED
  BY <1>1, RaidInductive, PTL

\* A synced clear is dated into the week it was fought in, whatever resets
\* come between its scan, its filter, its load and its save.
THEOREM SyncsCredited == Spec => []CreditedWeek
<1>1. RaidInv => CreditedWeek
  BY DEF RaidInv, Dated, CreditedWeek
<1> QED
  BY <1>1, RaidInductive, PTL

\* What is stored, and by whom.
WriterStores(x) ==
  /\ writer[x].at = "apply" /\ writer[x].valid /\ writer'[x].at = "off"
  /\ Stored(writer[x].task.user, writer[x].draft)
JobStores(j) ==
  /\ job[j].at = "save" /\ job[j].valid
  /\ Stored(job[j].user, job[j].draft)

LEMMA Stores ==
  ASSUME StateInv, [Next]_vars
  PROVE  \/ UNCHANGED doc
         \/ UNCHANGED clock /\ \E x \in Writers : WriterStores(x)
         \/ UNCHANGED clock /\ \E j \in Jobs : JobStores(j)
<1>1. CASE ~WeekNext
  BY <1>1 DEF Next, vars, weekVars
<1>2. ASSUME NEW x \in Writers, Gather(x) \/ Load(x) \/ Apply(x)
      PROVE  UNCHANGED doc
  BY <1>2 DEF Gather, Load, Apply
<1>3. ASSUME NEW x \in Writers, Save(x)
      PROVE  UNCHANGED doc \/ (UNCHANGED clock /\ WriterStores(x))
  <2> DEFINE k == writer[x].task
             off == [IdleWriter(k) EXCEPT !.at = "off"]
  <2>1. SUFFICES ASSUME /\ writer[x].valid /\ Stored(k.user, writer[x].draft)
                        /\ writer' = [VoidWriters(k.user) EXCEPT ![x] = off]
                 PROVE  UNCHANGED clock /\ WriterStores(x)
    BY <1>3 DEF Save, WriterTask
  <2>2. off.at = "off"
    BY DEF IdleWriter
  <2> HIDE DEF off
  <2>3. writer'[x].at = "off"
    BY <2>1, <2>2 DEF VoidWriters
  <2> QED
    BY <1>3, <2>1, <2>3 DEF Save, WriterStores
<1>4. ASSUME NEW j \in Jobs, JobBegin(j) \/ JobStep(j) \/ JobDies(j), ~JobSave(j)
      PROVE  UNCHANGED doc
  BY <1>4 DEF JobBegin, JobStep, JobDies, JobFind, JobLoad, JobCheck, JobScan,
              JobClaim, JobSend, JobRelease
<1>5. ASSUME NEW j \in Jobs, JobSave(j)
      PROVE  UNCHANGED doc \/ (UNCHANGED clock /\ JobStores(j))
  BY <1>5 DEF JobSave, JobStores
<1> QED
  BY <1>1, <1>2, <1>3, <1>4, <1>5 DEF WeekNext

LEMMA StoredDoc ==
  ASSUME StateInv, NEW v \in DOMAIN doc, NEW d, Stored(v, d), NEW u \in DOMAIN doc
  PROVE  doc'[u] = IF u = v THEN d ELSE doc[u]
  BY RaidTypes DEF Stored

\* A gold choice of the running week is in a document of that week, which only
\* a clock that is behind takes back.
LEMMA FreshWeek ==
  ASSUME NEW d \in Doc, Dated(d), NEW t \in Nat, NEW c \in Nat, t <= c,
         d.gold # Never, Week(d.gold) = Week(c)
  PROVE  Week(t) = d.week \/ Week(t) < d.week
<1>1. d.week = Week(c)
  BY DEF Dated
<1> QED
  BY <1>1, WeekLe

LEMMA ChoiceStep ==
  ASSUME StateInv, RaidInv, [Next]_vars, NEW u \in DOMAIN doc,
         doc[u].gold # Never, Week(doc[u].gold) = Week(clock), doc'[u].gold = Never
  PROVE  doc'[u].week < doc[u].week
<1>0. doc[u] \in Doc /\ Dated(doc[u]) /\ clock \in Nat
  BY RaidTypes DEF RaidInv
<1>1. CASE UNCHANGED doc
  BY <1>1
<1>2. ASSUME NEW x \in Writers, WriterStores(x)
      PROVE  doc'[u].week < doc[u].week
  <2> DEFINE v == writer[x]
  <2>1. /\ v \in Writer /\ v.task.user \in DOMAIN doc /\ v.now \in Nat
        /\ DraftOK(v, clock) /\ Follows(v, doc[v.task.user], v.draft)
    BY <1>2, RaidTypes DEF WriterStores, RaidInv, WriterOK, Writer
  <2>2. v.task.user = u /\ doc'[u] = v.draft
    BY <1>0, <1>2, <2>1, StoredDoc DEF WriterStores
  <2>3. v.draft.week = Week(v.now) /\ v.now <= clock
    BY <2>1 DEF DraftOK
  <2>4. doc[u].week # v.draft.week
    BY <2>1, <2>2 DEF Follows
  <2> HIDE DEF v
  <2> QED
    BY <1>0, <2>1, <2>2, <2>3, <2>4, FreshWeek
<1>3. ASSUME NEW j \in Jobs, JobStores(j)
      PROVE  doc'[u].week < doc[u].week
  <2> DEFINE t == job[j].now
  <2>1. /\ t \in Nat /\ t <= clock /\ job[j].user \in DOMAIN doc
        /\ job[j].draft = Fresh(doc[job[j].user], t)
    BY <1>3, RaidTypes DEF JobStores, RaidInv, JobOK, Job
  <2>2. doc'[u] = Fresh(doc[u], t)
    BY <1>3, <2>1, StoredDoc DEF JobStores
  <2> HIDE DEF t
  <2>3. /\ doc'[u].week = Week(t)
        /\ doc[u].week # Week(t)
    BY <1>0, <2>1, <2>2, FreshParts
  <2> QED
    BY <1>0, <2>1, <2>3, FreshWeek
<1> QED
  BY <1>1, <1>2, <1>3, Stores

\* A gold choice made after the reset is not taken by the rollover that comes
\* later: only a copy rolled with the clock of an earlier week, which puts the
\* whole document back into it, loses the choice.
THEOREM ChoicesKept == Spec => ChoiceKept
<1> DEFINE A == \A u \in DOMAIN doc :
                  /\ doc[u].gold # Never /\ Week(doc[u].gold) = Week(clock)
                  /\ doc'[u].gold = Never
                  => doc'[u].week < doc[u].week
<1>1. StateInv /\ RaidInv /\ [Next]_vars => [A]_<<clock, weekVars>>
  BY ChoiceStep
<1>2. Spec => [][A]_<<clock, weekVars>>
  BY <1>1, StateInductive, RaidInductive, PTL DEF Spec
<1> QED
  BY <1>2 DEF ChoiceKept

\* A clear of the running week that a save leaves out was taken by its task.
LEMMA LoseStep ==
  ASSUME StateInv, RaidInv, [Next]_vars, NEW u \in DOMAIN doc,
         NEW g \in Cleared(doc[u]) \ Cleared(doc'[u]),
         Week(doc[u].clear[g]) = Week(clock)
  PROVE  \E x \in Writers : Replaces(x, u)
<1>0. /\ doc[u] \in Doc /\ Dated(doc[u]) /\ clock \in Nat
  BY RaidTypes DEF RaidInv
<1>1. ~UNCHANGED doc
  OBVIOUS
<1>2. ASSUME NEW t \in Nat, t <= clock
      PROVE  g \in Kept(doc[u], t)
  <2>1. Week(doc[u].clear[g]) >= Week(t)
    BY <1>0, <1>2, WeekLe
  <2> QED
    BY <1>0, <1>2, <2>1, FreshParts DEF Kept
<1>3. ASSUME NEW x \in Writers, WriterStores(x)
      PROVE  Replaces(x, u)
  <2> DEFINE v == writer[x]
  <2>1. /\ v \in Writer /\ v.task.user \in DOMAIN doc /\ v.now \in Nat
        /\ DraftOK(v, clock) /\ Follows(v, doc[v.task.user], v.draft)
        /\ v.task.kind \in {"mark", "reset", "logs", "local", "mode", "gold"}
    BY <1>3, RaidTypes DEF WriterStores, RaidInv, WriterOK, Writer, Tasks
  <2>2. v.task.user = u /\ doc'[u] = v.draft
    BY <1>0, <1>3, <2>1, StoredDoc DEF WriterStores
  <2>3. g \in Kept(doc[u], v.now) /\ g \notin Cleared(v.draft)
    BY <1>2, <2>1, <2>2 DEF DraftOK
  <2>4. /\ v.task.kind \notin {"mode", "gold"}
        /\ v.task.kind = "mark" => v.draft.mode # doc[u].mode
        /\ v.task.kind \in {"logs", "local"} =>
             \E l \in v.logs : l.mode # doc[u].mode
    BY <2>1, <2>2, <2>3 DEF Follows
  <2> QED
    BY <1>3, <2>1, <2>2, <2>4 DEF Replaces, WriterStores
<1>4. ASSUME NEW j \in Jobs PROVE ~JobStores(j)
  <2>1. SUFFICES ASSUME JobStores(j) PROVE FALSE
    OBVIOUS
  <2> DEFINE t == job[j].now
  <2>2. /\ t \in Nat /\ t <= clock /\ job[j].user \in DOMAIN doc
        /\ job[j].draft = Fresh(doc[job[j].user], t)
    BY <2>1, RaidTypes DEF JobStores, RaidInv, JobOK, Job
  <2>3. doc'[u] = Fresh(doc[u], t)
    BY <2>1, <2>2, StoredDoc DEF JobStores
  <2> HIDE DEF t
  <2> QED
    BY <1>2, <2>2, <2>3 DEF Kept
<1> QED
  BY <1>1, <1>3, <1>4, Stores

\* A clear of the running week leaves the document only when its owner resets
\* it, marks the raid in another mode or a clear of another mode is synced; no
\* rollover and no save of an old copy loses it.
THEOREM ClearsKept == Spec => NoClearLost
<1> DEFINE A == \A u \in DOMAIN doc : \A g \in Cleared(doc[u]) \ Cleared(doc'[u]) :
                  Week(doc[u].clear[g]) = Week(clock) =>
                    \E x \in Writers : Replaces(x, u)
<1>1. StateInv /\ RaidInv /\ [Next]_vars => [A]_<<clock, weekVars>>
  BY LoseStep
<1>2. Spec => [][A]_<<clock, weekVars>>
  BY <1>1, StateInductive, RaidInductive, PTL DEF Spec
<1> QED
  BY <1>2 DEF NoClearLost
=============================================================================
