---------------------------- MODULE Window_proofs ----------------------------
(***************************************************************************)
(* Proofs about the congestion window, for every pace, minimum, limit and  *)
(* timing constant, and for stamps arriving out of order by any Skew.      *)
(***************************************************************************)
EXTENDS Window, TLAPS

(* What the window has stored of the host, against what happened: the last
   answer's stamp is late by no more than Skew, and the counts make the lead. *)
StoredInv ==
  /\ Skew < clock /\ heard <= clock
  /\ answered # 0 <=> heard # 0
  /\ heard # 0 => heard <= lastAnswer + Skew /\ lastAnswer <= heard
  /\ lead = 2 * answered - settled

(* A host silent for sure is dark; a dark one has been silent, but for the
   blur of the stamps. *)
SilenceInv ==
  /\ quiet => dark
  /\ dark => heard # 0 /\ clock - heard >= DarkAfter - Skew

(* Every invariant of the window together: growth and halving rest on the
   bounds, and what is called dark on what is stored of the answers. *)
IInv == /\ TypeOK /\ SizeInBounds /\ DarkMeansMin /\ OneCutPerRoundTrip
        /\ StoredInv /\ SilenceInv

(* Window.init establishes the invariant for every pace. *)
LEMMA InitIInv == Init => IInv
  <1> SUFFICES ASSUME Init PROVE IInv
    OBVIOUS
  <1>1. pace \in Paces /\ size = (IF pace = "fixed" THEN Limit ELSE Min) /\ settled = 0
    BY DEF Init
  <1>2. ~quiet /\ ~dark /\ ~holding
    BY DEF Init
  <1>3. SizeInBounds
    BY <1>1, WindowAssumption DEF SizeInBounds, Adaptive, Max, Paces
  <1>4. StoredInv
    BY WindowAssumption DEF Init, StoredInv
  <1>5. TypeOK
    <2>1. dark \in BOOLEAN /\ quiet \in BOOLEAN /\ holding \in BOOLEAN
      BY DEF Init
    <2>2. /\ pace \in Paces /\ size \in Nat /\ fastest \in Nat \cup {NoAnswer}
          /\ hold \in Nat /\ settled \in Nat /\ answered \in Nat
          /\ lastAnswer \in Nat /\ clock \in Nat /\ beforeCut \in Nat
          /\ heard \in Nat /\ lead \in Int
      BY <1>1, WindowAssumption DEF Init
    <2> QED
      BY <2>1, <2>2 DEF TypeOK
  <1> QED
    BY <1>2, <1>3, <1>4, <1>5 DEF IInv, DarkMeansMin, OneCutPerRoundTrip, SilenceInv

(* Halving keeps the window between its bounds, and grows nothing. *)
LEMMA HalfInBounds ==
  ASSUME NEW n \in Nat, Min <= n, n <= Limit
  PROVE  /\ Largest(Min, n \div 2) \in Nat
         /\ Min <= Largest(Min, n \div 2) /\ Largest(Min, n \div 2) <= Limit
  BY WindowAssumption DEF Largest

(* Growth keeps the window between its bounds. *)
LEMMA OneMore ==
  ASSUME NEW n \in Nat, Min <= n, n <= Limit
  PROVE  /\ Least(Limit, n + 1) \in Nat
         /\ Min <= Least(Limit, n + 1) /\ Least(Limit, n + 1) <= Limit
  BY WindowAssumption DEF Least

(* A step of Grow preserves what the window's size promises. *)
LEMMA GrowIInv ==
  ASSUME IInv, Adaptive, NEW now \in Nat, Grow(now), pace' = pace,
         ~dark', beforeCut' = beforeCut,
         now < hold => holding' = holding, ~(now < hold) => ~holding'
  PROVE  /\ size' \in Nat /\ SizeInBounds' /\ DarkMeansMin'
         /\ OneCutPerRoundTrip' /\ hold' = hold
  <1>1. /\ size \in Nat /\ hold \in Nat /\ Min <= size /\ size <= Limit
        /\ pace = "adaptive" /\ Max = Limit /\ Max' = Limit /\ Adaptive'
    BY DEF IInv, TypeOK, SizeInBounds, Adaptive, Max
  <1>2. hold' = hold
    BY DEF Grow
  <1>3. CASE now < hold
    <2>1. size' = size /\ holding' = holding
      BY <1>3 DEF Grow
    <2>2. SizeInBounds'
      BY <1>1, <2>1 DEF SizeInBounds
    <2>3. OneCutPerRoundTrip'
      BY <2>1 DEF IInv, OneCutPerRoundTrip, Largest
    <2> QED
      BY <1>1, <1>2, <2>1, <2>2, <2>3 DEF DarkMeansMin
  <1>4. CASE ~(now < hold)
    <2>1. size' = Least(Limit, size + 1) /\ ~holding'
      BY <1>1, <1>4 DEF Grow
    <2>2. size' \in Nat /\ Min <= size' /\ size' <= Limit
      BY <1>1, <2>1, OneMore
    <2>3. SizeInBounds'
      BY <1>1, <2>2 DEF SizeInBounds
    <2> QED
      BY <1>2, <2>1, <2>2, <2>3 DEF OneCutPerRoundTrip, DarkMeansMin
  <1> QED
    BY <1>3, <1>4

(* Silence settles: what is stored of the answers still fits them, and the
   host is dark if it has been silent for sure, and not without silence. *)
LEMMA SilenceFacts ==
  ASSUME IInv, NEW now \in Nat, now <= clock, clock <= now + Skew,
         ObserveSilence(now), clock' = clock
  PROVE  StoredInv' /\ SilenceInv' /\ heard' \in Nat /\ lead' \in Int /\ quiet' \in BOOLEAN
  <1>1. /\ Skew \in Nat /\ DarkAfter \in Nat /\ clock \in Nat /\ heard \in Nat /\ lead \in Int
        /\ answered \in Nat /\ settled \in Nat /\ lastAnswer \in Nat
    BY WindowAssumption DEF IInv, TypeOK
  <1>2. /\ Skew < clock /\ heard <= clock /\ (answered # 0 <=> heard # 0)
        /\ heard # 0 => heard <= lastAnswer + Skew /\ lastAnswer <= heard
        /\ lead = 2 * answered - settled
    BY DEF IInv, StoredInv
  <1>3. /\ settled' = settled + 1 /\ answered' = answered /\ lastAnswer' = lastAnswer
        /\ heard' = heard /\ lead' = lead - 1
    BY DEF ObserveSilence
  <1>4. StoredInv'
    BY <1>1, <1>2, <1>3 DEF StoredInv
  <1>5. dark' = (dark \/ GoesDark(now)) /\ dark \in BOOLEAN
    BY DEF ObserveSilence, IInv, TypeOK
  <1>6. /\ quiet' = (quiet \/ (heard # 0 /\ lead' >= 0 /\ clock - heard >= DarkAfter + Skew))
        /\ quiet \in BOOLEAN
    BY DEF ObserveSilence, IInv, TypeOK
  <1>7. quiet' \in BOOLEAN
    BY <1>6
  <1>8. quiet' => dark'
    <2>1. CASE quiet
      <3>1. dark
        BY <2>1 DEF IInv, SilenceInv
      <3> QED
        BY <1>5, <3>1
    <2>2. CASE heard # 0 /\ lead' >= 0 /\ clock - heard >= DarkAfter + Skew
      <3>1. answered # 0 /\ 2 * answered >= settled + 1 /\ now - lastAnswer >= DarkAfter
        BY <1>1, <1>2, <1>3, <2>2
      <3>2. dark \/ GoesDark(now)
        BY <3>1 DEF GoesDark
      <3> QED
        BY <1>5, <3>2
    <2> QED
      BY <1>6, <2>1, <2>2
  <1>9. dark' => heard # 0 /\ clock - heard >= DarkAfter - Skew
    <2>1. CASE dark
      BY <2>1 DEF IInv, SilenceInv
    <2>2. CASE GoesDark(now)
      <3>1. answered # 0 /\ now - lastAnswer >= DarkAfter
        BY <2>2 DEF GoesDark
      <3> QED
        BY <1>1, <1>2, <3>1
    <2> QED
      BY <1>5, <2>1, <2>2
  <1>10. SilenceInv'
    BY <1>3, <1>8, <1>9 DEF SilenceInv
  <1> QED
    BY <1>1, <1>3, <1>4, <1>7, <1>10

(* An answer is stored with a stamp late by no more than Skew, and ends any
   silence. *)
LEMMA AnswerFacts ==
  ASSUME IInv, NEW rtt \in Nat, NEW now \in Nat, now <= clock, clock <= now + Skew,
         ObserveAnswer(rtt, now), clock' = clock
  PROVE  StoredInv' /\ SilenceInv' /\ heard' \in Nat /\ lead' \in Int /\ quiet' \in BOOLEAN
  <1>1. /\ Skew \in Nat /\ clock \in Nat /\ lead \in Int /\ answered \in Nat /\ settled \in Nat
        /\ Skew < clock /\ lead = 2 * answered - settled
    BY WindowAssumption DEF IInv, TypeOK, StoredInv
  <1>2. /\ settled' = settled + 1 /\ answered' = answered + 1 /\ lastAnswer' = now
        /\ heard' = clock /\ lead' = lead + 1
    BY DEF ObserveAnswer
  <1>3. quiet' = FALSE /\ dark' = FALSE
    BY DEF ObserveAnswer
  <1>4. StoredInv'
    BY <1>1, <1>2 DEF StoredInv
  <1>5. SilenceInv'
    BY <1>3 DEF SilenceInv
  <1>6. heard' \in Nat /\ lead' \in Int
    BY <1>1, <1>2
  <1>7. quiet' \in BOOLEAN
    BY <1>3
  <1> QED
    BY <1>4, <1>5, <1>6, <1>7

(* An unanswered connect preserves the invariant: the host goes dark, stays
   dark, or the window grows. *)
LEMMA SilenceIInv ==
  ASSUME IInv, Adaptive, NEW now \in Nat, now <= clock, clock <= now + Skew,
         ObserveSilence(now), UNCHANGED <<pace, clock>>
  PROVE  IInv'
  <1>1. /\ Min \in Nat \ {0} /\ Limit \in Nat /\ Min <= Limit
        /\ pace = "adaptive" /\ Max' = Limit /\ Adaptive' /\ Adaptive
    BY WindowAssumption DEF Adaptive, Max
  <1>2. /\ settled' = settled + 1 /\ pace' = pace /\ clock' = clock
        /\ fastest' = fastest /\ answered' = answered /\ lastAnswer' = lastAnswer
        /\ beforeCut' = beforeCut
    BY DEF ObserveSilence
  <1>6. StoredInv' /\ SilenceInv' /\ heard' \in Nat /\ lead' \in Int /\ quiet' \in BOOLEAN
    BY <1>2, SilenceFacts
  <1>3. CASE GoesDark(now)
    <2>1. dark' = TRUE /\ size' = Min /\ holding' = FALSE /\ hold' = hold
      BY <1>3 DEF ObserveSilence
    <2>2. TypeOK'
      <3>1. dark' \in BOOLEAN /\ holding' \in BOOLEAN
        BY <2>1 DEF IInv, TypeOK
      <3>2. /\ pace' \in Paces /\ size' \in Nat /\ fastest' \in Nat \cup {NoAnswer}
            /\ hold' \in Nat /\ settled' \in Nat /\ answered' \in Nat
            /\ lastAnswer' \in Nat /\ clock' \in Nat /\ beforeCut' \in Nat
        BY <1>1, <1>2, <2>1 DEF IInv, TypeOK
      <3> QED
        BY <1>6, <3>1, <3>2 DEF TypeOK
    <2>3. SizeInBounds'
      BY <1>1, <2>1 DEF SizeInBounds
    <2> QED
      BY <1>6, <2>1, <2>2, <2>3 DEF IInv, DarkMeansMin, OneCutPerRoundTrip
  <1>4. CASE ~GoesDark(now) /\ dark
    <2>1. dark' = dark /\ size' = size /\ hold' = hold /\ holding' = holding
      BY <1>4 DEF ObserveSilence, IInv, TypeOK
    <2>2. TypeOK'
      BY <1>2, <1>6, <2>1 DEF IInv, TypeOK
    <2>4. SizeInBounds' /\ OneCutPerRoundTrip'
      BY <1>2, <2>1 DEF IInv, SizeInBounds, OneCutPerRoundTrip, Adaptive, Max, Largest
    <2> QED
      BY <1>6, <2>1, <2>2, <2>4 DEF IInv, DarkMeansMin
  <1>5. CASE ~GoesDark(now) /\ ~dark
    <2>1. dark' = dark /\ Grow(now) /\ holding' = (holding /\ now < hold)
      BY <1>5 DEF ObserveSilence, IInv, TypeOK
    <2>2. /\ now < hold => holding' = holding
          /\ ~(now < hold) => ~holding'
          /\ holding' \in BOOLEAN
      BY <2>1 DEF IInv, TypeOK
    <2>3. /\ size' \in Nat /\ SizeInBounds' /\ DarkMeansMin'
          /\ OneCutPerRoundTrip' /\ hold' = hold
      BY <1>1, <1>2, <1>5, <2>1, <2>2, GrowIInv
    <2>4. TypeOK'
      BY <1>2, <1>6, <2>1, <2>2, <2>3 DEF IInv, TypeOK
    <2> QED
      BY <1>6, <2>3, <2>4 DEF IInv
  <1> QED
    BY <1>3, <1>4, <1>5

(* An answer preserves the invariant: it cuts the window, comes within the
   last cut's round trip, or grows it. *)
LEMMA AnswerIInv ==
  ASSUME IInv, Adaptive, NEW rtt \in Nat, NEW now \in Nat, now <= clock, clock <= now + Skew,
         ObserveAnswer(rtt, now), UNCHANGED <<pace, clock>>
  PROVE  IInv'
  <1>1. /\ Min \in Nat \ {0} /\ Limit \in Nat /\ Min <= Limit
        /\ pace = "adaptive" /\ Max = Limit /\ Max' = Limit /\ Adaptive' /\ Adaptive
    BY WindowAssumption DEF Adaptive, Max
  <1>2. /\ settled' = settled + 1 /\ answered' = answered + 1 /\ lastAnswer' = now
        /\ fastest' = Fastest(rtt) /\ pace' = pace /\ clock' = clock /\ dark' = FALSE
    BY DEF ObserveAnswer
  <1>7. StoredInv' /\ SilenceInv' /\ heard' \in Nat /\ lead' \in Int /\ quiet' \in BOOLEAN
    BY <1>2, AnswerFacts
  <1>3. Fastest(rtt) \in Nat
    BY DEF Fastest, Least, IInv, TypeOK, NoAnswer
  <1>4. CASE Queued(rtt) /\ now >= hold
    <2>1. /\ size' = Largest(Min, size \div 2) /\ hold' = now + rtt
          /\ beforeCut' = size /\ holding' = TRUE
      BY <1>2, <1>4 DEF ObserveAnswer, Halve
    <2>2. size \in Nat /\ Min <= size /\ size <= Limit
      BY <1>1 DEF IInv, TypeOK, SizeInBounds
    <2>3. size' \in Nat /\ Min <= size' /\ size' <= Limit
      BY <2>1, <2>2, HalfInBounds
    <2>4. TypeOK'
      <3>1. dark' \in BOOLEAN /\ holding' \in BOOLEAN
        BY <1>2, <2>1 DEF IInv, TypeOK
      <3>2. /\ pace' \in Paces /\ size' \in Nat /\ fastest' \in Nat \cup {NoAnswer}
            /\ hold' \in Nat /\ settled' \in Nat /\ answered' \in Nat
            /\ lastAnswer' \in Nat /\ clock' \in Nat /\ beforeCut' \in Nat
        BY <1>2, <1>3, <2>1, <2>2, <2>3 DEF IInv, TypeOK
      <3> QED
        BY <1>7, <3>1, <3>2 DEF TypeOK
    <2>5. SizeInBounds'
      BY <1>1, <2>3 DEF SizeInBounds
    <2>6. OneCutPerRoundTrip'
      BY <2>1 DEF OneCutPerRoundTrip, Largest
    <2> QED
      BY <1>2, <1>7, <2>4, <2>5, <2>6 DEF IInv, DarkMeansMin
  <1>5. CASE Queued(rtt) /\ ~(now >= hold)
    <2>1. /\ size' = size /\ hold' = hold /\ beforeCut' = beforeCut
          /\ holding' = holding
      BY <1>2, <1>5 DEF ObserveAnswer, Halve
    <2>2. TypeOK'
      <3>1. dark' \in BOOLEAN /\ holding' \in BOOLEAN
        BY <1>2, <2>1 DEF IInv, TypeOK
      <3>2. /\ pace' \in Paces /\ size' \in Nat /\ fastest' \in Nat \cup {NoAnswer}
            /\ hold' \in Nat /\ settled' \in Nat /\ answered' \in Nat
            /\ lastAnswer' \in Nat /\ clock' \in Nat /\ beforeCut' \in Nat
        BY <1>2, <1>3, <2>1 DEF IInv, TypeOK
      <3> QED
        BY <1>7, <3>1, <3>2 DEF TypeOK
    <2>3. SizeInBounds' /\ OneCutPerRoundTrip'
      BY <1>2, <2>1 DEF IInv, SizeInBounds, OneCutPerRoundTrip, Adaptive, Max, Largest
    <2> QED
      BY <1>2, <1>7, <2>2, <2>3 DEF IInv, DarkMeansMin
  <1>6. CASE ~Queued(rtt)
    <2>1. Grow(now)
      BY <1>6 DEF ObserveAnswer
    <2>2. beforeCut' = beforeCut
      BY <1>6 DEF ObserveAnswer
    <2>5. /\ now < hold => holding' = holding
          /\ ~(now < hold) => ~holding'
          /\ holding' \in BOOLEAN
      <3>1. now >= hold <=> ~(now < hold)
        BY DEF IInv, TypeOK
      <3>2. holding \in BOOLEAN /\ holding' = IF now >= hold THEN Queued(rtt) ELSE holding
        BY DEF ObserveAnswer, IInv, TypeOK
      <3>3. CASE now < hold
        BY <3>1, <3>2, <3>3
      <3>4. CASE ~(now < hold)
        <4>1. holding' = Queued(rtt)
          BY <3>1, <3>2, <3>4
        <4>2. Queued(rtt) = FALSE
          BY <1>3, <1>6, WindowAssumption DEF Queued
        <4>3. holding' = FALSE
          BY <4>1, <4>2
        <4> QED
          BY <3>4, <4>3
      <3> QED
        BY <3>3, <3>4
    <2>3. /\ size' \in Nat /\ SizeInBounds' /\ DarkMeansMin'
          /\ OneCutPerRoundTrip' /\ hold' = hold
      BY <1>1, <1>2, <2>1, <2>2, <2>5, GrowIInv
    <2>4. TypeOK'
      <3>1. dark' \in BOOLEAN /\ holding' \in BOOLEAN
        BY <1>2, <2>2, <2>5 DEF IInv, TypeOK
      <3>2. /\ pace' \in Paces /\ size' \in Nat /\ fastest' \in Nat \cup {NoAnswer}
            /\ hold' \in Nat /\ settled' \in Nat /\ answered' \in Nat
            /\ lastAnswer' \in Nat /\ clock' \in Nat /\ beforeCut' \in Nat
        BY <1>2, <1>3, <2>2, <2>3 DEF IInv, TypeOK
      <3> QED
        BY <1>7, <3>1, <3>2 DEF TypeOK
    <2> QED
      BY <1>7, <2>3, <2>4 DEF IInv
  <1> QED
    BY <1>4, <1>5, <1>6

(* observe preserves the invariant, whichever way it goes. *)
LEMMA ObserveIInv ==
  ASSUME NEW outcome, NEW rtt \in Rtts, NEW now \in Stamps,
         IInv, Observe(outcome, rtt, now)
  PROVE  IInv'
  <1>1. rtt \in Nat /\ now \in Nat /\ now <= clock /\ clock <= now + Skew
    BY WindowAssumption DEF Stamps, IInv, TypeOK
  <1>2. CASE ~Adaptive
    BY <1>2 DEF Observe, IInv, TypeOK, SizeInBounds, DarkMeansMin, StoredInv, SilenceInv,
                OneCutPerRoundTrip, Adaptive, Max
  <1>3. CASE Adaptive /\ outcome = "filtered"
    BY <1>1, <1>3, SilenceIInv DEF Observe
  <1>4. CASE Adaptive /\ outcome # "filtered"
    BY <1>1, <1>4, AnswerIInv DEF Observe
  <1> QED
    BY <1>2, <1>3, <1>4

(* Every step of the window preserves the invariant. *)
LEMMA NextIInv == IInv /\ [Next]_vars => IInv'
  <1> SUFFICES ASSUME IInv, [Next]_vars PROVE IInv'
    OBVIOUS
  <1>1. CASE Tick
    <2>1. TypeOK' /\ SizeInBounds' /\ DarkMeansMin' /\ OneCutPerRoundTrip'
      BY <1>1 DEF Tick, IInv, TypeOK, SizeInBounds, DarkMeansMin, OneCutPerRoundTrip, Adaptive, Max
    <2>2. clock \in Nat /\ heard \in Nat /\ Skew \in Nat /\ DarkAfter \in Nat
      BY WindowAssumption DEF IInv, TypeOK
    <2>3. StoredInv' /\ SilenceInv'
      BY <1>1, <2>2 DEF Tick, IInv, StoredInv, SilenceInv
    <2> QED
      BY <2>1, <2>3 DEF IInv
  <1>2. ASSUME NEW outcome \in {"open", "refused", "filtered"}, NEW rtt \in Rtts,
               NEW now \in Stamps, Observe(outcome, rtt, now)
        PROVE  IInv'
    BY <1>2, ObserveIInv
  <1>3. CASE UNCHANGED vars
    BY <1>3 DEF vars, IInv, TypeOK, SizeInBounds, DarkMeansMin, StoredInv, SilenceInv,
                OneCutPerRoundTrip, Adaptive, Max
  <1> QED
    BY <1>1, <1>2, <1>3 DEF Next

(* The invariant holds whatever the window observes. *)
LEMMA Invariance == Spec => []IInv
  BY InitIInv, NextIInv, PTL DEF Spec

(* The window's variables keep their types, whatever it observes. *)
THEOREM TypeCorrect == Spec => []TypeOK
  <1>1. IInv => TypeOK
    BY DEF IInv
  <1> QED
    BY <1>1, Invariance, PTL

(* Window.observe never leaves [min, max], and a fixed or pool window never
   moves at all: the bounds Connects takes the window to have. *)
THEOREM BoundsTheorem == Spec => []SizeInBounds
  <1>1. IInv => SizeInBounds
    BY DEF IInv
  <1> QED
    BY <1>1, Invariance, PTL

(* While goneDark holds, no settled connect raises the window above the old
   thread pool's pace. *)
THEOREM DarkTheorem == Spec => []DarkMeansMin
  <1>1. IInv => DarkMeansMin
    BY DEF IInv
  <1> QED
    BY <1>1, Invariance, PTL

(* Dark, answering and dark again, with stamps out of order by any Skew: a
   host silent for sure is asked at the old pool's pace until it answers,
   and goneDark calls none dark but after a silence since its latest answer. *)
THEOREM DarkFollowsTheorem == Spec => []DarkFollowsSilence
  <1>1. IInv => DarkFollowsSilence
    BY DEF IInv, SilenceInv, DarkMeansMin, DarkFollowsSilence
  <1> QED
    BY <1>1, Invariance, PTL

(* "At most once per round trip": slow answers stamped within the hold of a
   cut cut nothing further, whatever order loops report them in. *)
THEOREM OneCutTheorem == Spec => []OneCutPerRoundTrip
  <1>1. IInv => OneCutPerRoundTrip
    BY DEF IInv
  <1> QED
    BY <1>1, Invariance, PTL

=============================================================================
