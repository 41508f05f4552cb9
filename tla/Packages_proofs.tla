--------------------------- MODULE Packages_proofs --------------------------
(***************************************************************************)
(* Proofs about StateMachine, Storage, Web and Request, for any number of  *)
(* events, states, hooks, uploads, requests, routers, spans and callers.   *)
(***************************************************************************)
EXTENDS StateMachine, Storage, Web, Request, CopyNumbers, FiniteSetTheorems, TLAPS

-----------------------------------------------------------------------------
(* StateMachine. *)

LEMMA EmptyRuleType == EmptyRule \in Rule
  BY DEF EmptyRule, Rule

LEMMA FsmInitInvariant == FsmInit => FsmInv
  BY DEF FsmInit, FsmInv, FsmTypeOK, HeldInv, ProgressInv, WithinInv, NoFire

(* A call that was made is a record of Call and not NoFire. *)
LEMMA FireIsMade ==
    ASSUME FsmTypeOK, NEW f \in Firers, fire[f].pc # "idle"
    PROVE  fire[f] \in Call /\ fire[f] # NoFire
  BY DEF FsmTypeOK, NoFire

LEMMA FireIsNotIdle == \A c \in Call : c # NoFire /\ c.pc # "idle"
  BY DEF Call, NoFire

(* Building touches unfinished rules only. *)
LEMMA OnStep ==
    ASSUME FsmInv, NEW e \in Events, On(e)
    PROVE  FsmInv'
  <1>1. rule' \in Seq(Rule) /\ Len(rule') = Len(rule) + 1
        /\ \A r \in DOMAIN rule : rule'[r] = rule[r]
    BY EmptyRuleType DEF FsmInv, FsmTypeOK, On
  <1>2. rules' \in [Events -> 0 .. Len(rule')] /\ \A d \in Events : rules[d] # 0 => rules'[d] # 0
    BY <1>1 DEF FsmInv, FsmTypeOK, On
  <1>3. FsmTypeOK'
    BY <1>1, <1>2 DEF FsmInv, FsmTypeOK, On
  <1>4. HeldInv'
    <2> SUFFICES ASSUME NEW f \in Firers, fire[f] # NoFire
                 PROVE  HeldInv!(f)'
      BY DEF HeldInv, On
    <2> QED
      BY <1>1, <1>2 DEF FsmInv, FsmTypeOK, HeldInv, Call, On
  <1>5. ProgressInv'
    BY <1>1 DEF FsmInv, FsmTypeOK, HeldInv, ProgressInv, On
  <1>6. WithinInv'
    BY <1>1 DEF FsmInv, FsmTypeOK, HeldInv, WithinInv, On
  <1> QED
    BY <1>3, <1>4, <1>5, <1>6 DEF FsmInv

(* A rule that grew has room for what was within it. *)
Grown(r, x) == r.from \subseteq x.from /\ r.guards <= x.guards /\ r.pre <= x.pre /\ r.post <= x.post

LEMMA WithinGrows ==
    ASSUME NEW r \in Rule, NEW x \in Rule, Grown(r, x), NEW c \in Call, Within(r, c)
    PROVE  Within(x, c)
  <1>1. Left(c, "guards") \in Nat /\ Left(c, "pre") \in Nat /\ Left(c, "post") \in Nat
    BY DEF Left, Call
  <1>2. c.passed.guards \in Nat /\ c.passed.pre \in Nat /\ c.passed.post \in Nat
    BY DEF Call, Passed
  <1> QED
    BY <1>1, <1>2 DEF Grown, Within, Rule

(* A hook that passed, one that failed, and the end of the last list.       *)
LEMMA WithinHook ==
    ASSUME NEW r \in Rule, NEW c \in Call, NEW d \in Call, Within(r, c),
           c.pc \in {"guards", "pre", "post"}, c.outcome = "unknown",
           d.pc = c.pc, d.outcome = c.outcome, d.from = c.from, d.left = c.left - 1,
           d.passed.guards = c.passed.guards + (IF c.pc = "guards" THEN 1 ELSE 0),
           d.passed.pre = c.passed.pre + (IF c.pc = "pre" THEN 1 ELSE 0),
           d.passed.post = c.passed.post + (IF c.pc = "post" THEN 1 ELSE 0)
    PROVE  Within(r, d)
  <1>1. /\ c.passed.guards \in Nat /\ c.passed.pre \in Nat /\ c.passed.post \in Nat
        /\ c.left \in Nat /\ r.guards \in Nat /\ r.pre \in Nat /\ r.post \in Nat
    BY DEF Call, Passed, Rule
  <1>2. CASE c.pc = "guards"
    BY <1>1, <1>2 DEF Within, Left
  <1>3. CASE c.pc = "pre"
    BY <1>1, <1>3 DEF Within, Left
  <1>4. CASE c.pc = "post"
    BY <1>1, <1>4 DEF Within, Left
  <1> QED
    BY <1>2, <1>3, <1>4

LEMMA WithinReturn ==
    ASSUME NEW r \in Rule, NEW c \in Call, NEW d \in Call, Within(r, c),
           c.pc \in {"guards", "pre", "post"}, c.outcome = "unknown",
           d.pc = "returned", d.outcome \in {c.pc, "ok"}, d.outcome = "ok" => c.pc = "post",
           d.from = c.from, d.passed = c.passed
    PROVE  Within(r, d)
  <1>1. /\ c.passed.guards \in Nat /\ c.passed.pre \in Nat /\ c.passed.post \in Nat
        /\ c.left \in Nat /\ r.guards \in Nat /\ r.pre \in Nat /\ r.post \in Nat
    BY DEF Call, Passed, Rule
  <1>2. CASE c.pc = "guards"
    BY <1>1, <1>2 DEF Within, Left
  <1>3. CASE c.pc = "pre"
    BY <1>1, <1>3 DEF Within, Left
  <1>4. CASE c.pc = "post"
    BY <1>1, <1>4 DEF Within, Left
  <1> QED
    BY <1>2, <1>3, <1>4

LEMMA BuildStep ==
    ASSUME FsmInv, NEW r \in 1 .. MaxRules, Build(r)
    PROVE  FsmInv'
  <1>1. r \in DOMAIN rule \ finished /\ UNCHANGED <<rules, finished, fire>>
    BY DEF Build
  <1>2. PICK x \in Rule : Grown(rule[r], x) /\ rule' = [rule EXCEPT ![r] = x]
    <2>1. rule[r] \in Rule
      BY <1>1 DEF FsmInv, FsmTypeOK
    <2>2. ASSUME NEW s \in States, From(r, s)
          PROVE  \E x \in Rule : Grown(rule[r], x) /\ rule' = [rule EXCEPT ![r] = x]
      <3>1. [rule[r] EXCEPT !.from = @ \cup {s}] \in Rule /\ Grown(rule[r], [rule[r] EXCEPT !.from = @ \cup {s}])
        BY <2>1 DEF Rule, Grown
      <3>2. rule' = [rule EXCEPT ![r] = [rule[r] EXCEPT !.from = @ \cup {s}]]
        BY <2>2 DEF From
      <3> QED
        BY <3>1, <3>2
    <2>3. ASSUME NEW s \in States, To(r, s)
          PROVE  \E x \in Rule : Grown(rule[r], x) /\ rule' = [rule EXCEPT ![r] = x]
      <3>1. [rule[r] EXCEPT !.to = s] \in Rule /\ Grown(rule[r], [rule[r] EXCEPT !.to = s])
        BY <2>1 DEF Rule, Grown
      <3>2. rule' = [rule EXCEPT ![r] = [rule[r] EXCEPT !.to = s]]
        BY <2>3 DEF To
      <3> QED
        BY <3>1, <3>2
    <2>4. ASSUME Guard(r) \/ Pre(r) \/ Post(r)
          PROVE  \E x \in Rule : Grown(rule[r], x) /\ rule' = [rule EXCEPT ![r] = x]
      BY <1>1, <2>1, <2>4, [rule[r] EXCEPT !.guards = @ + 1] \in Rule,
         [rule[r] EXCEPT !.pre = @ + 1] \in Rule, [rule[r] EXCEPT !.post = @ + 1] \in Rule
         DEF Guard, Pre, Post, Rule, Grown
    <2> QED
      BY <2>2, <2>3, <2>4 DEF Build
  <1>3. rule' \in Seq(Rule) /\ Len(rule') = Len(rule) /\ \A q \in finished : rule'[q] = rule[q]
    BY <1>1, <1>2 DEF FsmInv, FsmTypeOK
  <1>4. FsmTypeOK'
    BY <1>1, <1>3 DEF FsmInv, FsmTypeOK
  <1>5. HeldInv'
    BY <1>1, <1>3 DEF FsmInv, HeldInv
  <1>6. ProgressInv'
    BY <1>1, <1>3 DEF FsmInv, HeldInv, ProgressInv
  <1>7. WithinInv'
    <2> SUFFICES ASSUME NEW f \in Firers, fire[f] # NoFire, fire[f].rule # 0
                 PROVE  Within(rule'[fire[f].rule], fire[f])
      BY <1>1 DEF WithinInv
    <2> DEFINE q == fire[f].rule
    <2>1. fire[f] \in Call /\ q \in DOMAIN rule /\ Within(rule[q], fire[f])
      BY DEF FsmInv, FsmTypeOK, HeldInv, WithinInv
    <2>2. rule[q] \in Rule /\ rule'[q] \in Rule /\ Grown(rule[q], rule'[q])
      <3>1. rule[q] \in Rule /\ Grown(rule[q], rule[q])
        <4>1. rule[q] \in Rule
          BY <2>1 DEF FsmInv, FsmTypeOK
        <4> HIDE DEF q
        <4> QED
          BY <4>1 DEF Grown, Rule
      <3>2. rule'[q] = IF q = r THEN x ELSE rule[q]
        BY <1>1, <1>2, <2>1 DEF FsmInv, FsmTypeOK
      <3> QED
        BY <1>2, <3>1, <3>2
    <2> QED
      BY <2>1, <2>2, WithinGrows
  <1> QED
    BY <1>4, <1>5, <1>6, <1>7 DEF FsmInv

LEMMA FinishStep ==
    ASSUME FsmInv, NEW r \in 1 .. MaxRules, Finish(r)
    PROVE  FsmInv'
  <1>1. finished \subseteq finished' /\ UNCHANGED <<rules, rule, fire>>
    BY DEF Finish
  <1>2. FsmTypeOK'
    BY DEF FsmInv, FsmTypeOK, Finish
  <1>3. HeldInv'
    BY <1>1 DEF FsmInv, HeldInv
  <1> QED
    BY <1>1, <1>2, <1>3 DEF FsmInv, ProgressInv, WithinInv

(* A step of one call: the others are as they were. *)
LEMMA FireStep ==
    ASSUME FsmInv, UNCHANGED <<rules, rule, finished>>,
           NEW f \in Firers, NEW c \in Call, fire' = [fire EXCEPT ![f] = c],
           c.rule \in 0 .. Len(rule),
           c.rule = 0 => c.pc = "returned" /\ ~c.whole,
           c.rule # 0 => rules[c.event] # 0,
           c.whole => c.rule \in finished,
           c.rule = 0 \/ c.pc \in {"check", "guards", "pre"} => c.state = c.from,
           c.pc # "returned" => c.outcome = "unknown",
           c.pc = "returned" /\ c.outcome \notin {"ok", "post"} => c.state = c.from,
           c.state = ZeroState => c.rule # 0 /\ ~c.whole,
           c.whole => Progress(rule[c.rule], c),
           c.rule # 0 => Within(rule[c.rule], c)
    PROVE  FsmInv'
  <1>1. /\ DOMAIN fire' = Firers /\ fire'[f] = c
        /\ \A g \in Firers : g # f => fire'[g] = fire[g]
    BY DEF FsmInv, FsmTypeOK
  <1>2. FsmTypeOK'
    BY <1>1 DEF FsmInv, FsmTypeOK
  <1>3. HeldInv'
    BY <1>1 DEF FsmInv, HeldInv
  <1>4. ProgressInv'
    BY <1>1 DEF FsmInv, ProgressInv
  <1>5. WithinInv'
    BY <1>1 DEF FsmInv, WithinInv
  <1> QED
    BY <1>2, <1>3, <1>4, <1>5 DEF FsmInv

LEMMA LookupStep ==
    ASSUME FsmInv, NEW f \in Firers, NEW e \in Events, NEW s \in States, Lookup(f, e, s)
    PROVE  FsmInv'
  <1> DEFINE c == [pc |-> IF rules[e] = 0 THEN "returned" ELSE "check",
                   event |-> e, rule |-> rules[e], from |-> s, left |-> 0,
                   passed |-> [guards |-> 0, pre |-> 0, post |-> 0],
                   outcome |-> "unknown", state |-> s,
                   whole |-> rules[e] \in finished]
  <1>1. rules[e] \in 0 .. Len(rule) /\ (rules[e] \in finished => rules[e] # 0)
    BY DEF FsmInv, FsmTypeOK
  <1>2. c \in Call
    BY <1>1 DEF Call, Passed, Outcomes
  <1>3. UNCHANGED <<rules, rule, finished>> /\ fire' = [fire EXCEPT ![f] = c]
    BY DEF Lookup
  <1>4. c.whole => Progress(rule[c.rule], c)
    BY <1>1 DEF Progress
  <1>5. c.state # ZeroState
    BY FsmAssumption
  <1>6. c.rule # 0 => Within(rule[c.rule], c)
    <2> SUFFICES ASSUME c.rule # 0
                 PROVE  Within(rule[c.rule], c)
      OBVIOUS
    <2>1. rule[rules[e]] \in Rule
      BY <1>1 DEF FsmInv, FsmTypeOK
    <2> QED
      BY <2>1 DEF Within, Left, Rule
  <1> QED
    BY <1>1, <1>2, <1>3, <1>4, <1>5, <1>6, FireStep

LEMMA CheckStep ==
    ASSUME FsmInv, NEW f \in Firers, Check(f)
    PROVE  FsmInv'
  <1> DEFINE c == fire[f]
             r == rule[c.rule]
  <1>1. c \in Call /\ c # NoFire /\ c.pc = "check"
    BY FireIsMade DEF FsmInv, Check
  <1>2. HeldInv!(f)
    BY DEF FsmInv, HeldInv
  <1>3. c.rule \in DOMAIN rule /\ r \in Rule
    BY <1>1, <1>2 DEF FsmInv, FsmTypeOK
  <1>4. (c.whole => Progress(r, c)) /\ Within(r, c)
    BY <1>1, <1>2, <1>3 DEF FsmInv, ProgressInv, WithinInv, FsmTypeOK
  <1>5. CASE c.from \in r.from
    <2> DEFINE d == [c EXCEPT !.pc = "guards", !.left = r.guards]
    <2>1. fire' = [fire EXCEPT ![f] = d] /\ UNCHANGED <<rules, rule, finished>>
      BY <1>5 DEF Check, FsmInv, FsmTypeOK
    <2>2. d \in Call
      BY <1>1, <1>3 DEF Call, Rule
    <2>3. d.whole => Progress(r, d)
      BY <1>1, <1>3, <1>4, <1>5 DEF Progress, Rule, Call, Passed
    <2>9. Within(r, d)
      BY <1>1, <1>3, <1>4, <1>5 DEF Within, Left, Rule, Call, Passed
    <2> QED
      BY <1>1, <1>2, <2>1, <2>2, <2>3, <2>9, FireStep DEF Call
  <1>6. CASE c.from \notin r.from
    <2> DEFINE d == [c EXCEPT !.pc = "returned", !.outcome = "invalid", !.state = c.from]
    <2>1. fire' = [fire EXCEPT ![f] = d] /\ UNCHANGED <<rules, rule, finished>>
      BY <1>6 DEF Check, FireReturns, FsmInv, FsmTypeOK
    <2>2. d \in Call
      BY <1>1, <1>3 DEF Call, Outcomes
    <2>3. d.whole => Progress(r, d)
      BY <1>1, <1>6 DEF Progress, Promise, Call
    <2>9. Within(r, d)
      BY <1>1, <1>3, <1>4, <1>6 DEF Within, Left, Rule, Call, Passed
    <2>4. d.state # ZeroState
      BY <1>1, FsmAssumption DEF Call
    <2> QED
      BY <1>1, <1>2, <2>1, <2>2, <2>3, <2>9, <2>4, FireStep DEF Call
  <1> QED
    BY <1>5, <1>6

LEMMA HookStep ==
    ASSUME FsmInv, NEW f \in Firers, NEW ok \in BOOLEAN, Hook(f, ok)
    PROVE  FsmInv'
  <1> DEFINE c == fire[f]
             r == rule[c.rule]
  <1>1. c \in Call /\ c # NoFire /\ c.pc \in {"guards", "pre", "post"} /\ c.left > 0
    BY FireIsMade DEF FsmInv, Hook
  <1>2. HeldInv!(f)
    BY DEF FsmInv, HeldInv
  <1>3. c.rule \in DOMAIN rule /\ r \in Rule
    BY <1>1, <1>2 DEF FsmInv, FsmTypeOK
  <1>4. (c.whole => Progress(r, c)) /\ Within(r, c)
    BY <1>1, <1>2, <1>3 DEF FsmInv, ProgressInv, WithinInv, FsmTypeOK
  <1>5. UNCHANGED <<rules, rule, finished>>
    BY DEF Hook
  <1>6. CASE ok
    <2>1. CASE c.pc = "guards"
      <3> DEFINE p == [c.passed EXCEPT !.guards = @ + 1]
                 d == [c EXCEPT !.left = c.left - 1, !.passed = p]
      <3>1. fire' = [fire EXCEPT ![f] = d]
        BY <1>1, <1>6, <2>1 DEF Hook, FsmInv, FsmTypeOK, Call, Passed
      <3>2. p \in Passed
        BY <1>1 DEF Call, Passed
      <3>3. d \in Call
        <4>1. c.left - 1 \in Nat
          BY <1>1 DEF Call
        <4> HIDE DEF p
        <4> QED
          BY <1>1, <3>2, <4>1 DEF Call
      <3>4. d.whole => Progress(r, d)
        <4>1. /\ d.pc = "guards" /\ d.from = c.from /\ d.whole = c.whole /\ d.state = c.state
              /\ d.left = c.left - 1 /\ d.passed.guards = c.passed.guards + 1
              /\ d.passed.pre = c.passed.pre /\ d.passed.post = c.passed.post
          BY <1>1, <2>1 DEF Call, Passed
        <4>2. c.left \in Nat /\ c.passed.guards \in Nat
          BY <1>1 DEF Call, Passed
        <4> HIDE DEF d, p
        <4> QED
          BY <1>4, <2>1, <4>1, <4>2 DEF Progress
      <3>5. Within(r, d)
        <4>1. /\ d.pc = c.pc /\ d.outcome = c.outcome /\ d.from = c.from
              /\ d.left = c.left - 1 /\ d.passed.guards = c.passed.guards + 1
              /\ d.passed.pre = c.passed.pre /\ d.passed.post = c.passed.post
          BY <1>1, <2>1 DEF Call, Passed
        <4>2. c.passed.pre \in Nat /\ c.passed.post \in Nat /\ c.outcome = "unknown"
          BY <1>1, <1>2 DEF Call, Passed
        <4> HIDE DEF d, p
        <4> QED
          BY <1>1, <1>3, <1>4, <2>1, <3>3, <4>1, <4>2, WithinHook
      <3> QED
        BY <1>1, <1>2, <1>5, <3>1, <3>3, <3>4, <3>5, FireStep DEF Call
    <2>2. CASE c.pc = "pre"
      <3> DEFINE p == [c.passed EXCEPT !.pre = @ + 1]
                 d == [c EXCEPT !.left = c.left - 1, !.passed = p]
      <3>1. fire' = [fire EXCEPT ![f] = d]
        BY <1>1, <1>6, <2>2 DEF Hook, FsmInv, FsmTypeOK, Call, Passed
      <3>2. p \in Passed
        BY <1>1 DEF Call, Passed
      <3>3. d \in Call
        <4>1. c.left - 1 \in Nat
          BY <1>1 DEF Call
        <4> HIDE DEF p
        <4> QED
          BY <1>1, <3>2, <4>1 DEF Call
      <3>4. d.whole => Progress(r, d)
        <4>1. /\ d.pc = "pre" /\ d.from = c.from /\ d.whole = c.whole /\ d.state = c.state
              /\ d.left = c.left - 1 /\ d.passed.pre = c.passed.pre + 1
              /\ d.passed.guards = c.passed.guards /\ d.passed.post = c.passed.post
          BY <1>1, <2>2 DEF Call, Passed
        <4>2. c.left \in Nat /\ c.passed.pre \in Nat
          BY <1>1 DEF Call, Passed
        <4> HIDE DEF d, p
        <4> QED
          BY <1>4, <2>2, <4>1, <4>2 DEF Progress
      <3>5. Within(r, d)
        <4>1. /\ d.pc = c.pc /\ d.outcome = c.outcome /\ d.from = c.from
              /\ d.left = c.left - 1 /\ d.passed.pre = c.passed.pre + 1
              /\ d.passed.guards = c.passed.guards /\ d.passed.post = c.passed.post
          BY <1>1, <2>2 DEF Call, Passed
        <4>2. c.passed.guards \in Nat /\ c.passed.post \in Nat /\ c.outcome = "unknown"
          BY <1>1, <1>2 DEF Call, Passed
        <4> HIDE DEF d, p
        <4> QED
          BY <1>1, <1>3, <1>4, <2>2, <3>3, <4>1, <4>2, WithinHook
      <3> QED
        BY <1>1, <1>2, <1>5, <3>1, <3>3, <3>4, <3>5, FireStep DEF Call
    <2>3. CASE c.pc = "post"
      <3> DEFINE p == [c.passed EXCEPT !.post = @ + 1]
                 d == [c EXCEPT !.left = c.left - 1, !.passed = p]
      <3>1. fire' = [fire EXCEPT ![f] = d]
        BY <1>1, <1>6, <2>3 DEF Hook, FsmInv, FsmTypeOK, Call, Passed
      <3>2. p \in Passed
        BY <1>1 DEF Call, Passed
      <3>3. d \in Call
        <4>1. c.left - 1 \in Nat
          BY <1>1 DEF Call
        <4> HIDE DEF p
        <4> QED
          BY <1>1, <3>2, <4>1 DEF Call
      <3>4. d.whole => Progress(r, d)
        <4>1. /\ d.pc = "post" /\ d.from = c.from /\ d.whole = c.whole /\ d.state = c.state
              /\ d.left = c.left - 1 /\ d.passed.post = c.passed.post + 1
              /\ d.passed.guards = c.passed.guards /\ d.passed.pre = c.passed.pre
          BY <1>1, <2>3 DEF Call, Passed
        <4>2. c.left \in Nat /\ c.passed.post \in Nat
          BY <1>1 DEF Call, Passed
        <4> HIDE DEF d, p
        <4> QED
          BY <1>4, <2>3, <4>1, <4>2 DEF Progress
      <3>5. Within(r, d)
        <4>1. /\ d.pc = c.pc /\ d.outcome = c.outcome /\ d.from = c.from
              /\ d.left = c.left - 1 /\ d.passed.post = c.passed.post + 1
              /\ d.passed.guards = c.passed.guards /\ d.passed.pre = c.passed.pre
          BY <1>1, <2>3 DEF Call, Passed
        <4>2. c.passed.guards \in Nat /\ c.passed.pre \in Nat /\ c.outcome = "unknown"
          BY <1>1, <1>2 DEF Call, Passed
        <4> HIDE DEF d, p
        <4> QED
          BY <1>1, <1>3, <1>4, <2>3, <3>3, <4>1, <4>2, WithinHook
      <3> QED
        BY <1>1, <1>2, <1>5, <3>1, <3>3, <3>4, <3>5, FireStep DEF Call
    <2> QED
      BY <1>1, <2>1, <2>2, <2>3
  <1>7. CASE ~ok
    <2> DEFINE d == [c EXCEPT !.pc = "returned", !.outcome = c.pc,
                              !.state = IF c.pc = "post" THEN c.state ELSE c.from]
    <2>1. fire' = [fire EXCEPT ![f] = d]
      BY <1>7 DEF Hook, FireReturns, FsmInv, FsmTypeOK
    <2>2. d \in Call
      BY <1>1 DEF Call, Outcomes
    <2>3. d.whole => Progress(r, d)
      <3>1. c.whole => Promise(r, d)
        <4>1. CASE c.pc = "guards"
          BY <1>1, <1>3, <1>4, <4>1 DEF Progress, Promise, Rule, Call, Passed
        <4>2. CASE c.pc = "pre"
          BY <1>1, <1>3, <1>4, <4>2 DEF Progress, Promise, Rule, Call, Passed
        <4>3. CASE c.pc = "post"
          BY <1>1, <1>3, <1>4, <4>3 DEF Progress, Promise, Rule, Call, Passed
        <4> QED
          BY <1>1, <4>1, <4>2, <4>3
      <3> QED
        BY <1>1, <3>1 DEF Progress, Call
    <2>9. Within(r, d)
      <3>1. /\ d.pc = "returned" /\ d.outcome = c.pc /\ d.from = c.from /\ d.passed = c.passed
            /\ c.outcome = "unknown"
        BY <1>1, <1>2 DEF Call
      <3> HIDE DEF d
      <3> QED
        BY <1>1, <1>3, <1>4, <2>2, <3>1, WithinReturn
    <2>4. d.state = ZeroState => c.state = ZeroState
      BY <1>1, FsmAssumption DEF Call
    <2> QED
      BY <1>1, <1>2, <1>3, <1>5, <2>1, <2>2, <2>3, <2>9, <2>4, FireStep DEF Call
  <1> QED
    BY <1>6, <1>7

LEMMA HooksDoneStep ==
    ASSUME FsmInv, NEW f \in Firers, HooksDone(f)
    PROVE  FsmInv'
  <1> DEFINE c == fire[f]
             r == rule[c.rule]
  <1>1. c \in Call /\ c # NoFire /\ c.pc \in {"guards", "pre", "post"} /\ c.left = 0
    BY FireIsMade DEF FsmInv, HooksDone
  <1>2. HeldInv!(f)
    BY DEF FsmInv, HeldInv
  <1>3. c.rule \in DOMAIN rule /\ r \in Rule
    BY <1>1, <1>2 DEF FsmInv, FsmTypeOK
  <1>4. (c.whole => Progress(r, c) /\ r.to # ZeroState) /\ Within(r, c)
    BY <1>1, <1>2, <1>3 DEF FsmInv, FsmTypeOK, ProgressInv, WithinInv
  <1>5. UNCHANGED <<rules, rule, finished>>
    BY DEF HooksDone
  <1>6. CASE c.pc = "guards"
    <2> DEFINE d == [c EXCEPT !.pc = "pre", !.left = r.pre]
    <2>1. fire' = [fire EXCEPT ![f] = d]
      BY <1>6 DEF HooksDone, FsmInv, FsmTypeOK
    <2>2. d \in Call
      BY <1>1, <1>3 DEF Call, Rule
    <2>3. d.whole => Progress(r, d)
      BY <1>1, <1>3, <1>4, <1>6 DEF Progress, Rule, Call, Passed
    <2>9. Within(r, d)
      BY <1>1, <1>3, <1>4, <1>6 DEF Within, Left, Rule, Call, Passed
    <2> QED
      BY <1>1, <1>2, <1>3, <1>5, <1>6, <2>1, <2>2, <2>3, <2>9, FireStep DEF Call
  <1>7. CASE c.pc = "pre"
    <2> DEFINE d == [c EXCEPT !.pc = "post", !.left = r.post, !.state = r.to]
    <2>1. fire' = [fire EXCEPT ![f] = d]
      BY <1>7 DEF HooksDone, FsmInv, FsmTypeOK
    <2>2. d \in Call
      BY <1>1, <1>3 DEF Call, Rule
    <2>3. d.whole => Progress(r, d)
      BY <1>1, <1>3, <1>4, <1>7 DEF Progress, Rule, Call, Passed
    <2>9. Within(r, d)
      BY <1>1, <1>3, <1>4, <1>7 DEF Within, Left, Rule, Call, Passed
    <2> QED
      BY <1>1, <1>2, <1>3, <1>4, <1>5, <1>7, <2>1, <2>2, <2>3, <2>9, FireStep DEF Call
  <1>8. CASE c.pc = "post"
    <2> DEFINE d == [c EXCEPT !.pc = "returned", !.outcome = "ok", !.state = c.state]
    <2>1. fire' = [fire EXCEPT ![f] = d]
      BY <1>8 DEF HooksDone, FireReturns, FsmInv, FsmTypeOK
    <2>2. d \in Call
      BY <1>1 DEF Call, Outcomes
    <2>3. d.whole => Progress(r, d)
      BY <1>1, <1>3, <1>4, <1>8 DEF Progress, Promise, Rule, Call, Passed
    <2>9. Within(r, d)
      <3>1. /\ d.pc = "returned" /\ d.outcome = "ok" /\ d.from = c.from /\ d.passed = c.passed
            /\ c.outcome = "unknown"
        BY <1>1, <1>2 DEF Call
      <3> HIDE DEF d
      <3> QED
        BY <1>1, <1>3, <1>4, <1>8, <2>2, <3>1, WithinReturn
    <2> QED
      BY <1>1, <1>2, <1>3, <1>5, <1>8, <2>1, <2>2, <2>3, <2>9, FireStep DEF Call
  <1> QED
    BY <1>1, <1>6, <1>7, <1>8

LEMMA FsmNextInvariant == FsmInv /\ [FsmNext]_fsmVars => FsmInv'
  <1> SUFFICES ASSUME FsmInv, [FsmNext]_fsmVars
               PROVE  FsmInv'
    OBVIOUS
  <1>1. CASE UNCHANGED fsmVars
    BY <1>1 DEF FsmInv, fsmVars, FsmTypeOK, HeldInv, ProgressInv, WithinInv
  <1>2. ASSUME NEW e \in Events, On(e)
        PROVE  FsmInv'
    BY <1>2, OnStep
  <1>3. ASSUME NEW r \in 1 .. MaxRules, Build(r) \/ Finish(r)
        PROVE  FsmInv'
    BY <1>3, BuildStep, FinishStep
  <1>4. ASSUME NEW f \in Firers, Fire(f)
        PROVE  FsmInv'
    BY <1>4, LookupStep, CheckStep, HookStep, HooksDoneStep DEF Fire
  <1> QED
    BY <1>1, <1>2, <1>3, <1>4 DEF FsmNext

(* Calls hold rules that exist, and a call of a finished rule is where that *)
(* rule, and no other, has led it.                                          *)
THEOREM FsmInvariance == FsmSpec => []FsmInv
  BY FsmInitInvariant, FsmNextInvariant, PTL DEF FsmSpec

(* fsm.go:37 to 38: a Fire that looked up a finished rule keeps the promise *)
(* of that rule, whatever is built meanwhile; one that looked up a rule     *)
(* still being built changes the state from an allowed one only and runs    *)
(* hooks of that rule only, in order; a refused entity keeps its state.     *)
THEOREM FireIsOfOneRuleHolds == FsmSpec => []FireIsOfOneRule
  <1>1. FsmInv => FireIsOfOneRule
    <2> SUFFICES ASSUME FsmInv, NEW f \in Firers, fire[f].pc = "returned"
                 PROVE  /\ fire[f].rule # 0 => Within(rule[fire[f].rule], fire[f])
                        /\ fire[f].rule # 0 /\ fire[f].whole =>
                              Promise(rule[fire[f].rule], fire[f])
                        /\ fire[f].outcome \notin {"ok", "post"} => fire[f].state = fire[f].from
                        /\ fire[f].state = ZeroState =>
                              ~fire[f].whole /\ rules[fire[f].event] # 0
      BY DEF FireIsOfOneRule
    <2>1. fire[f] \in Call /\ fire[f] # NoFire
      BY FireIsMade DEF FsmInv
    <2>2. HeldInv!(f)
      BY DEF FsmInv, HeldInv
    <2>3. fire[f].whole => Promise(rule[fire[f].rule], fire[f])
      BY <2>1 DEF FsmInv, ProgressInv, Progress
    <2>4. fire[f].rule # 0 => Within(rule[fire[f].rule], fire[f])
      BY <2>1 DEF FsmInv, WithinInv
    <2> QED
      BY <2>1, <2>2, <2>3, <2>4 DEF Call, Outcomes
  <1> QED
    BY <1>1, FsmInvariance, PTL

-----------------------------------------------------------------------------
(* Storage. *)

LEMMA ObjectsDiffer ==
    /\ Nothing.kind = "nothing" /\ \A f \in Files : f.kind = "file" /\ f # Nothing
    /\ \A list : /\ [kind |-> "parts", list |-> list].kind = "parts"
                 /\ [kind |-> "parts", list |-> list].list = list
  BY DEF Nothing, Files

LEMMA StorageInitInvariant == StorageInit => StorageInv
  BY StorageAssumption DEF StorageInit, StorageInv, NoCall, UploadCalls, UploadInv, ObjectInv, NotCompleted

(* A step of an Upload that does not store: it has not returned before.     *)
LEMMA UploadMoves ==
    ASSUME StorageInv, NEW u \in Uploaders, upload[u].pc # "returned",
           NEW c \in UploadCalls, UploadInv(c), upload' = [upload EXCEPT ![u] = c],
           UNCHANGED <<provider, object, session, told, complete>>
    PROVE  StorageInv'
  <1>1. /\ upload' \in [Uploaders -> UploadCalls] /\ upload'[u] = c
        /\ \A v \in Uploaders \ {u} : upload'[v] = upload[v]
    BY DEF StorageInv
  <1>2. \A v \in Uploaders : UploadInv(upload[v])'
    BY <1>1 DEF StorageInv, UploadInv
  <1>3. ObjectInv'
    <2>1. object \in Files => object.by \in Uploaders
      BY DEF Files
    <2> QED
      BY <1>1, <2>1 DEF StorageInv, ObjectInv
  <1> QED
    BY <1>1, <1>2, <1>3 DEF StorageInv

LEMMA UploadStep ==
    ASSUME StorageInv, NEW u \in Uploaders, NEW size \in 1 .. MaxChunks, Upload(u, size)
    PROVE  StorageInv'
  <1> DEFINE c == [NoCall EXCEPT !.pc = "reading", !.size = size]
  <1>1. size \in Nat
    BY StorageAssumption
  <1>2. NoCall \in UploadCalls /\ NoCall.staged = 0 /\ NoCall.stored = 0 /\ ~NoCall.err
    BY DEF NoCall, UploadCalls
  <1>3. c \in UploadCalls /\ UploadInv(c)
    <2>1. /\ c \in UploadCalls /\ c.pc = "reading" /\ c.size = size
          /\ c.staged = 0 /\ c.stored = 0 /\ ~c.err
      BY <1>1, <1>2 DEF UploadCalls
    <2> QED
      BY <1>1, <2>1 DEF UploadInv
  <1> QED
    BY <1>3, UploadMoves DEF Upload

LEMMA ReadStep ==
    ASSUME StorageInv, NEW u \in Uploaders, Read(u) \/ ReadFails(u)
    PROVE  StorageInv'
  <1> DEFINE c == upload[u]
             more == [c EXCEPT !.staged = c.staged + 1]
             all == [c EXCEPT !.pc = "committing"]
             fails == [c EXCEPT !.err = TRUE, !.pc = IF provider = "gcsw" THEN "committing" ELSE "returned"]
  <1>1. c \in UploadCalls /\ UploadInv(c) /\ c.pc = "reading" /\ upload \in [Uploaders -> UploadCalls]
    BY DEF StorageInv, Read, ReadFails
  <1>2. CASE Read(u) /\ c.staged < c.size
    <2>1. more \in UploadCalls /\ UploadInv(more)
      BY <1>1, <1>2 DEF UploadCalls, UploadInv
    <2>2. upload' = [upload EXCEPT ![u] = more]
      BY <1>1, <1>2 DEF Read
    <2> QED
      BY <1>1, <1>2, <2>1, <2>2, UploadMoves DEF Read
  <1>3. CASE Read(u) /\ ~(c.staged < c.size)
    <2>1. all \in UploadCalls /\ UploadInv(all)
      BY <1>1, <1>3 DEF UploadCalls, UploadInv
    <2>2. upload' = [upload EXCEPT ![u] = all]
      BY <1>1, <1>3 DEF Read
    <2> QED
      BY <1>1, <1>3, <2>1, <2>2, UploadMoves DEF Read
  <1>4. CASE ReadFails(u)
    <2>1. fails \in UploadCalls /\ UploadInv(fails)
      BY <1>1, <1>4 DEF UploadCalls, UploadInv
    <2>2. upload' = [upload EXCEPT ![u] = fails]
      BY <1>1, <1>4 DEF ReadFails
    <2> QED
      BY <1>1, <1>4, <2>1, <2>2, UploadMoves DEF ReadFails
  <1> QED
    BY <1>2, <1>3, <1>4

LEMMA CommitStep ==
    ASSUME StorageInv, NEW u \in Uploaders, NEW stored \in BOOLEAN, NEW heard \in BOOLEAN,
           Commit(u, stored, heard)
    PROVE  StorageInv'
  <1> DEFINE c == upload[u]
             d == upload'[u]
  <1>1. c \in UploadCalls /\ UploadInv(c) /\ c.pc = "committing"
    BY DEF StorageInv, Commit
  <1>2. /\ d \in UploadCalls /\ d.pc = "returned" /\ d.size = c.size /\ d.staged = c.staged
        /\ d.err = (c.err \/ ~(stored /\ heard))
        /\ d.stored = IF stored THEN c.stored + c.staged ELSE c.stored
    <2> DEFINE e == c.err \/ ~(stored /\ heard)
               n == IF stored THEN c.stored + c.staged ELSE c.stored
    <2>1. e \in BOOLEAN /\ n \in Nat
      BY <1>1 DEF UploadCalls
    <2>2. d = [c EXCEPT !.pc = "returned", !.err = e, !.stored = n]
      BY <1>1 DEF StorageInv, Commit, UploadError
    <2> HIDE DEF e, n, d, c
    <2>3. d \in UploadCalls /\ d.pc = "returned" /\ d.size = c.size /\ d.staged = c.staged /\ d.err = e /\ d.stored = n
      BY <1>1, <2>1, <2>2 DEF UploadCalls
    <2> QED
      BY <2>3 DEF e, n
  <1>3. /\ upload' \in [Uploaders -> UploadCalls]
        /\ \A v \in Uploaders \ {u} : upload'[v] = upload[v]
    BY <1>2 DEF StorageInv, Commit
  <1>4. \A v \in Uploaders : UploadInv(upload[v])'
    BY <1>1, <1>2, <1>3 DEF StorageInv, UploadInv, UploadCalls, Commit
  <1>5. ObjectInv'
    <2>1. CASE stored
      <3> DEFINE o == [kind |-> "file", by |-> u, size |-> c.size, chunks |-> c.staged]
      <3>1. object' = o /\ o \in Files /\ provider' = provider
        BY <1>1, <2>1 DEF Commit, Files, UploadCalls
      <3>2. c.staged # c.size => provider = "gcsw" /\ c.err
        BY <1>1 DEF UploadInv
      <3> QED
        BY <1>2, <3>1, <3>2 DEF ObjectInv
    <2>2. CASE ~stored
      <3>1. object' = object /\ UNCHANGED <<provider, session, told, complete>>
        BY <2>2 DEF Commit
      <3>2. object \in Files => object.by \in Uploaders
        BY DEF Files
      <3> QED
        BY <1>1, <1>3, <3>1, <3>2 DEF StorageInv, ObjectInv
    <2> QED
      BY <2>1, <2>2
  <1> QED
    BY <1>3, <1>4, <1>5 DEF StorageInv, Commit

(* What goes to the provider is the caller's list. *)
LEMMA ListIsCopied ==
    ASSUME NEW ps, NEW list \in SetToSeqs(ps)
    PROVE  CopiedParts(list) = list /\ ToSet(list) \subseteq ps
  BY DEF SetToSeqs, CopiedParts, ToSet

LEMMA CompleteStep ==
    ASSUME StorageInv, NEW ps \in SUBSET told, NEW heard \in BOOLEAN, NEW list \in SetToSeqs(ps),
           CompleteMultipartUpload(list, heard)
    PROVE  StorageInv'
  <1>1. CopiedParts(list) = list /\ ToSet(list) \subseteq told
    BY ListIsCopied
  <1>2. /\ UNCHANGED <<provider, upload, told>> /\ session = "open" /\ complete'.list = list
        /\ complete'.result = "nil" => complete'.stored = complete'.list
    BY <1>1 DEF CompleteMultipartUpload
  <1>3. ObjectInv'
    <2>1. CASE Accepts(list)
      BY <1>1, <1>2, <2>1 DEF CompleteMultipartUpload, ObjectInv
    <2>2. CASE ~Accepts(list)
      <3>1. UNCHANGED <<object, session>>
        BY <1>1, <2>2 DEF CompleteMultipartUpload
      <3> QED
        BY <1>2, <3>1 DEF StorageInv, ObjectInv
    <2> QED
      BY <2>1, <2>2
  <1> QED
    BY <1>2, <1>3 DEF StorageInv, UploadInv

LEMMA StorageNextInvariant == StorageInv /\ [StorageNext]_storageVars => StorageInv'
  <1> SUFFICES ASSUME StorageInv, [StorageNext]_storageVars
               PROVE  StorageInv'
    OBVIOUS
  <1>1. ASSUME UNCHANGED <<provider, upload, complete>>, told \subseteq told',
               object' = Nothing \/ (object' = object /\ (session = "completed" => session' = session))
        PROVE  StorageInv'
    BY <1>1 DEF StorageInv, ObjectInv, UploadInv
  <1>2. ASSUME NEW heard \in BOOLEAN, InitMultipartUpload(heard)
        PROVE  StorageInv'
    BY <1>1, <1>2 DEF InitMultipartUpload
  <1>3. ASSUME NEW n \in Parts, UploadPart(n)
        PROVE  StorageInv'
    BY <1>1, <1>3 DEF UploadPart
  <1>4. ASSUME NEW p \in sent, NEW heard \in BOOLEAN, PartArrives(p, heard)
        PROVE  StorageInv'
    <2>1. told \subseteq told'
      BY <1>4 DEF PartArrives
    <2> QED
      BY <1>1, <1>4, <2>1 DEF PartArrives
  <1>5. ASSUME NEW arrives \in BOOLEAN, AbortMultipartUpload(arrives) \/ Delete(arrives)
        PROVE  StorageInv'
    BY <1>1, <1>5 DEF AbortMultipartUpload, Delete
  <1>6. CASE Download \/ UNCHANGED storageVars
    BY <1>1, <1>6 DEF Download, storageVars
  <1>7. ASSUME NEW u \in Uploaders,
               \/ \E size \in 1 .. MaxChunks : Upload(u, size)
               \/ Read(u) \/ ReadFails(u)
               \/ \E stored, heard \in BOOLEAN : Commit(u, stored, heard)
        PROVE  StorageInv'
    BY <1>7, UploadStep, ReadStep, CommitStep
  <1> QED
    BY <1>2, <1>3, <1>4, <1>5, <1>6, <1>7, CompleteStep DEF StorageNext

(* What each Upload has stored, and what the object is, in every state. *)
THEOREM StorageInvariance == StorageSpec => []StorageInv
  BY StorageInitInvariant, StorageNextInvariant, PTL DEF StorageSpec

(* v2/storagew/storage.go:30 to 33: nil means that the whole file, or the   *)
(* parts the caller listed, were stored, and no reader finds a part of a    *)
(* file, except behind gcsw where the Upload returned an error: for any     *)
(* number of callers, chunks, parts and tries.                              *)
THEOREM ObjectsAreWholeHolds == StorageSpec => []ObjectsAreWhole
  <1>1. StorageInv => ObjectsAreWhole
    <2> SUFFICES ASSUME StorageInv
                 PROVE  ObjectsAreWhole
      OBVIOUS
    <2>1. \A u \in Uploaders : upload[u].pc = "returned" /\ ~upload[u].err => upload[u].stored = upload[u].size
      BY DEF StorageInv, UploadInv
    <2>2. /\ object.kind = "file" /\ object.chunks # object.size => provider = "gcsw" /\ upload[object.by].err
          /\ object.kind = "parts" => object.list = complete.list /\ ToSet(object.list) \subseteq told
      BY ObjectsDiffer DEF StorageInv, ObjectInv
    <2> QED
      BY <2>1, <2>2 DEF StorageInv, ObjectsAreWhole
  <1> QED
    BY <1>1, StorageInvariance, PTL

-----------------------------------------------------------------------------
(* Web. *)

LEMMA ErrorsDiffer ==
    /\ NoErr.kind = "none" /\ PlainErr.kind = "plain" /\ NoErr # PlainErr
    /\ NoErr \notin StatusErrs /\ PlainErr \notin StatusErrs
    /\ \A e \in StatusErrs : e.kind = "status" /\ e.encodes \in BOOLEAN /\ e # NoErr /\ e # PlainErr
  BY DEF NoErr, PlainErr, StatusErrs

LEMMA Chunks ==
    /\ \A r : r.bodies = <<>> => OnlyChunks(r)
    /\ \A r, c : r.bodies = c.bodies => (OnlyChunks(r) <=> OnlyChunks(c))
  BY DEF OnlyChunks

LEMMA WebInitInvariant == WebInit => WebInv
  <1>1. NewRequest \in Answers
    BY DEF NewRequest, Answers, NoErr
  <1>2. /\ NewRequest.pc = "new" /\ NewRequest.err = NoErr /\ NewRequest.set = {} /\ NewRequest.sent = 0
        /\ NewRequest.bodies = <<>> /\ NewRequest.logged = 0 /\ NewRequest.by = "none" /\ ~NewRequest.cut
    BY DEF NewRequest
  <1> QED
    BY <1>1, <1>2, ErrorsDiffer DEF WebInit, WebInv, OwnFields, StageInv, Answered, LogIsRight

(* What an answer's place promises depends on the routers that are built,   *)
(* and those only grow. *)
LEMMA NewStep ==
    ASSUME WebInv, NEW r \in Routers, NEW custom \in BOOLEAN, New(r, custom)
    PROVE  WebInv'
  <1>1. /\ built \subseteq built' /\ built' \subseteq Routers /\ own' \subseteq built'
        /\ global' \in built' \cup {"none"}
        /\ UNCHANGED <<fw, template, req>>
    BY DEF WebInv, New
  <1>2. ASSUME NEW q \in Requests
        PROVE  OwnFields(q, req[q])' /\ StageInv(req[q])' /\ Answered(req[q])' /\ LogIsRight(req[q])'
    <2>1. OwnFields(q, req[q]) /\ StageInv(req[q]) /\ Answered(req[q]) /\ LogIsRight(req[q])
      BY DEF WebInv
    <2>2. OwnFields(q, req[q])' /\ StageInv(req[q])'
      BY <1>1, <2>1 DEF OwnFields, StageInv, DataAnswered, OnlyChunks
    <2>3. ErrorAnswered(req[q]) => ErrorAnswered(req[q])'
      BY <1>1 DEF ErrorAnswered
    <2>5. Answered(req[q])'
      BY <1>1, <2>1, <2>3 DEF Answered, DataAnswered, CutAnswered, ChunksAndHandler, OnlyChunks
    <2>4. LogIsRight(req[q])'
      BY <1>1, <2>1 DEF LogIsRight
    <2> QED
      BY <2>2, <2>4, <2>5
  <1> QED
    BY <1>1, <1>2 DEF WebInv

(* A step of one request: the others are as they were. *)
LEMMA OneRequest ==
    ASSUME WebInv, NEW q \in Requests, NEW r \in Answers, req' = [req EXCEPT ![q] = r],
           OwnFields(q, r), StageInv(r), Answered(r), LogIsRight(r),
           UNCHANGED <<fw, built, own, global, template>>
    PROVE  WebInv'
  <1>1. /\ req' \in [Requests -> Answers] /\ req'[q] = r
        /\ \A p \in Requests \ {q} : req'[p] = req[p]
    BY DEF WebInv
  <1>2. ASSUME NEW p \in Requests
        PROVE  OwnFields(p, req'[p]) /\ StageInv(req'[p]) /\ Answered(req'[p]) /\ LogIsRight(req'[p])
    BY <1>1 DEF WebInv
  <1>3. ASSUME NEW p \in Requests
        PROVE  OwnFields(p, req[p])' /\ StageInv(req[p])' /\ Answered(req[p])' /\ LogIsRight(req[p])'
    <2>1. OwnFields(p, req[p])' /\ StageInv(req[p])' /\ LogIsRight(req[p])'
      BY <1>2 DEF OwnFields, StageInv, LogIsRight, DataAnswered, OnlyChunks
    <2>2. ErrorAnswered(req'[p]) => ErrorAnswered(req[p])'
      BY DEF ErrorAnswered
    <2>3. Answered(req[p])'
      BY <1>2, <2>2 DEF Answered, DataAnswered, CutAnswered, ChunksAndHandler, OnlyChunks
    <2> QED
      BY <2>1, <2>3
  <1> QED
    BY <1>1, <1>3 DEF WebInv

LEMMA Unanswered == \A r : r.pc \notin {"done", "aborted"} => Answered(r) /\ LogIsRight(r)
  BY DEF Answered, LogIsRight

LEMMA EnterStep ==
    ASSUME WebInv, NEW q \in Requests, NEW rt \in built, NEW found \in BOOLEAN, Enter(q, rt, found)
    PROVE  WebInv'
  <1> DEFINE c == req[q]
             place == IF found THEN "handling" ELSE IF fw = "echow" THEN "failed" ELSE "done"
             error == IF found THEN NoErr ELSE PlainErr
             status == IF found \/ fw = "echow" THEN 0 ELSE 404
             bodies == IF found \/ fw = "echow" THEN <<>> ELSE <<"error">>
             logged == IF ~found /\ fw = "ginw" THEN 404 ELSE 0
             r == [c EXCEPT !.router = rt, !.pc = place, !.err = error, !.sent = status, !.bodies = bodies,
                            !.logged = logged]
  <1>1. c \in Answers /\ StageInv(c) /\ c.pc = "new"
    BY DEF WebInv, Enter, At
  <1>2. req' = [req EXCEPT ![q] = r] /\ UNCHANGED <<fw, built, own, global, template>>
    <2>1. req \in [Requests -> Answers]
      BY DEF WebInv
    <2> QED
      BY <2>1 DEF Enter, PlainErr
  <1>3. c.set = {} /\ c.by = "none" /\ ~c.cut
    BY <1>1 DEF StageInv
  <1>4. /\ place \in {"handling", "failed", "done"} /\ error \in {NoErr, PlainErr} /\ status \in Nat
        /\ bodies \in Seq(Pieces) /\ logged \in Nat /\ rt \in Routers
    <2>1. <<>> \in Seq(Pieces) /\ <<"error">> \in Seq(Pieces)
      BY DEF Pieces
    <2> QED
      BY <2>1 DEF WebInv
  <1> HIDE DEF c, place, error, status, bodies, logged
  <1>5. /\ r \in Answers /\ r.pc = place /\ r.router = rt /\ r.err = error /\ r.set = c.set /\ r.sent = status
        /\ r.bodies = bodies /\ r.logged = logged /\ r.by = c.by /\ r.cut = c.cut
    BY <1>1, <1>4 DEF Answers
  <1> HIDE DEF r
  <1>6. OwnFields(q, r) /\ StageInv(r)
    BY <1>3, <1>4, <1>5, ErrorsDiffer, Chunks DEF OwnFields, StageInv, place, error, status, bodies, logged
  <1>7. Answered(r) /\ LogIsRight(r)
    <2>1. fw = "ginw" \/ fw = "muxw" \/ fw = "echow"
      BY DEF WebInv
    <2>2. place = "done" => ErrorAnswered(r)
      BY <1>3, <1>5, ErrorsDiffer DEF ErrorAnswered, place, error, status, bodies
    <2>3. place = "done" => r.err.kind # "none" /\ ~r.cut /\ fw # "echow"
      BY <1>3, <1>5, ErrorsDiffer DEF place, error
    <2>4. Answered(r)
      BY <1>4, <1>5, <2>2, <2>3 DEF Answered
    <2>5. r.logged # 0 => r.logged = r.sent /\ fw = "ginw"
      BY <1>5 DEF status, logged
    <2> QED
      BY <2>4, <2>5 DEF LogIsRight
  <1> QED
    BY <1>2, <1>5, <1>6, <1>7, OneRequest

LEMMA TakeTemplateStep ==
    ASSUME WebInv, NEW q \in Requests, NEW code \in LogicalCodes, TakeTemplate(q, code)
    PROVE  WebInv'
  <1> DEFINE c == req[q]
             error == [kind |-> "status", code |-> code, fields |-> template, encodes |-> TRUE]
             r == [c EXCEPT !.pc = "deriving", !.err = error]
  <1>1. c \in Answers /\ StageInv(c) /\ c.pc = "handling"
    BY DEF WebInv, TakeTemplate, At
  <1>2. req' = [req EXCEPT ![q] = r] /\ UNCHANGED <<fw, built, own, global, template>>
    BY DEF TakeTemplate, WebInv
  <1>3. error \in StatusErrs /\ error.fields = template /\ template = [f \in Fields |-> "template"]
    BY WebAssumption DEF WebInv, StatusErrs
  <1> HIDE DEF c, error
  <1>4. /\ r \in Answers /\ r.pc = "deriving" /\ r.router = c.router /\ r.err = error /\ r.set = c.set
        /\ r.sent = c.sent /\ r.bodies = c.bodies /\ r.logged = c.logged /\ r.by = c.by /\ r.cut = c.cut
    BY <1>1, <1>3 DEF Answers
  <1> HIDE DEF r
  <1>5. OwnFields(q, r)
    BY <1>1, <1>3, <1>4 DEF OwnFields, StageInv
  <1>6. StageInv(r)
    BY <1>1, <1>3, <1>4 DEF StageInv
  <1> QED
    BY <1>2, <1>4, <1>5, <1>6, OneRequest, Unanswered

LEMMA WithStep ==
    ASSUME WebInv, NEW q \in Requests, NEW f \in Fields, NEW encodes \in BOOLEAN, With(q, f, encodes)
    PROVE  WebInv'
  <1> DEFINE c == req[q]
             fields == [c.err.fields EXCEPT ![f] = q]
             enc == IF f = "data" THEN encodes ELSE c.err.encodes
             error == [c.err EXCEPT !.fields = fields, !.encodes = enc]
             set == c.set \cup {f}
             r == [c EXCEPT !.err = error, !.set = set]
  <1>1. c \in Answers /\ OwnFields(q, c) /\ StageInv(c) /\ c.pc = "deriving" /\ c.err \in StatusErrs
    BY DEF WebInv, With, At, StageInv
  <1>2. req' = [req EXCEPT ![q] = r] /\ UNCHANGED <<fw, built, own, global, template>>
    BY DEF With, WebInv
  <1>3. /\ enc \in BOOLEAN /\ fields \in [Fields -> Requests \cup {"template"}] /\ set \in SUBSET Fields
        /\ fields = [g \in Fields |-> IF g \in set THEN q ELSE "template"]
    BY <1>1 DEF StatusErrs, OwnFields, Answers
  <1> HIDE DEF c, fields, enc, set
  <1>4. error \in StatusErrs /\ error.fields = fields
    BY <1>1, <1>3 DEF StatusErrs
  <1> HIDE DEF error
  <1>5. /\ r \in Answers /\ r.pc = "deriving" /\ r.router = c.router /\ r.err = error /\ r.set = set
        /\ r.sent = c.sent /\ r.bodies = c.bodies /\ r.logged = c.logged /\ r.by = c.by /\ r.cut = c.cut
    BY <1>1, <1>3, <1>4 DEF Answers
  <1> HIDE DEF r
  <1>6. OwnFields(q, r)
    BY <1>3, <1>4, <1>5 DEF OwnFields
  <1>7. StageInv(r)
    BY <1>1, <1>4, <1>5 DEF StageInv
  <1> QED
    BY <1>2, <1>5, <1>6, <1>7, OneRequest, Unanswered

(* The handler fails or panics. *)
LEMMA GiveUpStep ==
    ASSUME WebInv, NEW q \in Requests, ReturnError(q) \/ ReturnPlain(q) \/ Panic(q)
    PROVE  WebInv'
  <1> DEFINE c == req[q]
             place == IF Panic(q) THEN "panic" ELSE "failed"
             error == IF ReturnError(q) THEN c.err ELSE PlainErr
             cut == c.sent # 0
             r == [c EXCEPT !.pc = place, !.err = error, !.cut = cut]
  <1>1. /\ c \in Answers /\ OwnFields(q, c) /\ StageInv(c) /\ c.pc \in {"handling", "deriving", "streaming"}
        /\ ReturnError(q) => c.pc = "deriving"
        /\ Panic(q) => c.pc # "deriving"
    BY DEF WebInv, ReturnError, ReturnPlain, Panic, At
  <1>2. req' = [req EXCEPT ![q] = r] /\ UNCHANGED <<fw, built, own, global, template>>
    <2>1. ~Panic(q) => c.sent = 0 /\ c.cut = FALSE
      BY <1>1 DEF ReturnError, ReturnPlain, At, StageInv, Answers
    <2>2. ReturnError(q) => ~Panic(q)
      BY <1>1
    <2>3. CASE ReturnError(q)
      <3>1. r = [c EXCEPT !.pc = "failed"]
        BY <1>1, <2>1, <2>2, <2>3 DEF Answers
      <3> QED
        BY <2>3, <3>1 DEF ReturnError, Goto, WebInv
    <2>4. CASE ReturnPlain(q) /\ ~ReturnError(q) /\ ~Panic(q)
      <3>1. r = [c EXCEPT !.pc = "failed", !.err = PlainErr]
        BY <1>1, <2>1, <2>4 DEF Answers
      <3> QED
        BY <2>4, <3>1 DEF ReturnPlain, WebInv, PlainErr
    <2>5. CASE Panic(q)
      BY <2>2, <2>5 DEF Panic, WebInv, PlainErr
    <2> QED
      BY <2>3, <2>4, <2>5
  <1>3. /\ place \in {"failed", "panic"} /\ (place = "panic" => error = PlainErr)
        /\ error \in {PlainErr} \cup StatusErrs /\ cut \in BOOLEAN
    BY <1>1 DEF StageInv, Panic, ReturnError, At
  <1>4. error \in StatusErrs => error = c.err
    BY ErrorsDiffer
  <1>8. c.sent # 0 => error = PlainErr
    BY <1>1 DEF StageInv, ReturnError, At
  <1> HIDE DEF c, place, error, cut
  <1>5. /\ r \in Answers /\ r.pc = place /\ r.router = c.router /\ r.err = error /\ r.set = c.set
        /\ r.sent = c.sent /\ r.bodies = c.bodies /\ r.logged = c.logged /\ r.by = c.by /\ r.cut = cut
    BY <1>1, <1>3 DEF Answers
  <1> HIDE DEF r
  <1>6. OwnFields(q, r)
    BY <1>1, <1>4, <1>5 DEF OwnFields
  <1>7. StageInv(r)
    <2>1. /\ c.router \in built /\ c.logged = 0 /\ c.by = "none" /\ c.sent \in {0, 200} /\ OnlyChunks(c)
          /\ c.sent = 0 => c.bodies = <<>>
      BY <1>1, Chunks DEF StageInv
    <2>2. /\ error # NoErr
          /\ c.sent # 0 => error = PlainErr
      BY <1>1, <1>3, <1>8, ErrorsDiffer DEF StageInv
    <2> QED
      BY <1>3, <1>5, <2>1, <2>2, Chunks DEF StageInv, cut
  <1> QED
    BY <1>2, <1>3, <1>5, <1>6, <1>7, OneRequest, Unanswered

LEMMA WriteValueStep ==
    ASSUME WebInv, NEW q \in Requests, NEW encodes \in BOOLEAN, WriteValue(q, encodes)
    PROVE  WebInv'
  <1> DEFINE c == req[q]
             bodies == IF encodes THEN <<"value">> ELSE <<>>
             cut == ~encodes
             status == 200
             r == [c EXCEPT !.pc = "out", !.sent = status, !.cut = cut, !.bodies = bodies]
             s == [c EXCEPT !.pc = "failed", !.err = PlainErr]
  <1>1. c \in Answers /\ StageInv(c) /\ c.pc = "handling" /\ req \in [Requests -> Answers]
    BY DEF WebInv, WriteValue, At
  <1>2. /\ UNCHANGED <<fw, built, own, global, template>>
        /\ encodes \/ fw = "muxw" => req' = [req EXCEPT ![q] = r]
        /\ ~(encodes \/ fw = "muxw") => req' = [req EXCEPT ![q] = s]
    BY <1>1 DEF WriteValue, PlainErr
  <1>3. bodies \in Seq(Pieces) /\ cut \in BOOLEAN /\ status \in Nat
    <2>1. <<>> \in Seq(Pieces) /\ <<"value">> \in Seq(Pieces)
      BY DEF Pieces
    <2> QED
      BY <2>1
  <1>4. c.err = NoErr /\ c.set = {} /\ c.logged = 0 /\ c.by = "none" /\ c.sent = 0 /\ c.bodies = <<>> /\ ~c.cut
    BY <1>1 DEF StageInv
  <1> HIDE DEF c, bodies, cut, status
  <1>5. /\ r \in Answers /\ r.pc = "out" /\ r.router = c.router /\ r.err = c.err /\ r.set = c.set
        /\ r.sent = status /\ r.bodies = bodies /\ r.logged = c.logged /\ r.by = c.by /\ r.cut = cut
    BY <1>1, <1>3 DEF Answers
  <1>6. /\ s \in Answers /\ s.pc = "failed" /\ s.router = c.router /\ s.err = PlainErr /\ s.set = c.set
        /\ s.sent = c.sent /\ s.bodies = c.bodies /\ s.logged = c.logged /\ s.by = c.by /\ s.cut = c.cut
    BY <1>1 DEF Answers
  <1> HIDE DEF r, s
  <1>7. ASSUME encodes \/ fw = "muxw"
        PROVE  OwnFields(q, r) /\ StageInv(r)
    <2>1. DataAnswered(r)
      <3>1. r.sent = 200
        BY <1>5 DEF status
      <3>2. encodes => r.bodies = <<"value">> /\ ~r.cut
        BY <1>5 DEF bodies, cut
      <3>3. ~encodes => OnlyChunks(r) /\ fw = "muxw"
        BY <1>5, <1>7, Chunks DEF bodies
      <3> QED
        BY <3>1, <3>2, <3>3 DEF DataAnswered
    <2> QED
      BY <1>1, <1>4, <1>5, <2>1, ErrorsDiffer DEF OwnFields, StageInv
  <1>8. OwnFields(q, s) /\ StageInv(s)
    BY <1>1, <1>4, <1>6, ErrorsDiffer, Chunks DEF OwnFields, StageInv
  <1> QED
    BY <1>2, <1>5, <1>6, <1>7, <1>8, OneRequest, Unanswered

(* A file begins, goes on or ends. *)
LEMMA FileStep ==
    ASSUME WebInv, NEW q \in Requests, WriteFile(q) \/ Chunk(q) \/ EndOfFile(q)
    PROVE  WebInv'
  <1> DEFINE c == req[q]
             place == IF EndOfFile(q) THEN "out" ELSE "streaming"
             status == IF WriteFile(q) THEN (IF fw = "echow" THEN 200 ELSE 0) ELSE Committed(q)
             bodies == IF Chunk(q) THEN Append(c.bodies, "chunk") ELSE c.bodies
             r == [c EXCEPT !.pc = place, !.sent = status, !.bodies = bodies]
  <1>1. /\ c \in Answers /\ StageInv(c) /\ c.pc \in {"handling", "streaming"}
        /\ WriteFile(q) <=> c.pc = "handling"
        /\ c.err = NoErr /\ ~c.cut /\ c.logged = 0 /\ c.by = "none" /\ OnlyChunks(c) /\ c.sent \in {0, 200}
    BY DEF WebInv, WriteFile, Chunk, EndOfFile, At, StageInv, OnlyChunks
  <1>2. req' = [req EXCEPT ![q] = r] /\ UNCHANGED <<fw, built, own, global, template>>
    <2>1. req \in [Requests -> Answers]
      BY DEF WebInv
    <2>2. CASE WriteFile(q)
      <3>1. ~Chunk(q) /\ ~EndOfFile(q)
        BY <1>1, <2>2 DEF Chunk, EndOfFile, At
      <3> DEFINE first == IF fw = "echow" THEN 200 ELSE 0
      <3>2. /\ req' = [req EXCEPT ![q] = [c EXCEPT !.pc = "streaming", !.sent = first]]
            /\ UNCHANGED <<fw, built, own, global, template>>
        BY <2>1, <2>2 DEF WriteFile
      <3>3. r = [c EXCEPT !.pc = "streaming", !.sent = first]
        <4>1. place = "streaming" /\ status = first /\ bodies = c.bodies
          BY <2>2, <3>1
        <4> HIDE DEF place, status, bodies, first
        <4> QED
          BY <1>1, <4>1 DEF Answers
      <3> QED
        BY <3>2, <3>3
    <2>3. CASE Chunk(q)
      <3>1. ~WriteFile(q) /\ ~EndOfFile(q)
        <4>1. req'[q].pc = "streaming"
          BY <1>1, <2>1, <2>3 DEF Chunk, At, Answers
        <4>2. EndOfFile(q) => req'[q].pc = "out"
          BY <1>1, <2>1 DEF EndOfFile, Answers
        <4> QED
          BY <1>1, <2>3, <4>1, <4>2 DEF Chunk, At
      <3>2. r = [c EXCEPT !.sent = Committed(q), !.bodies = Append(c.bodies, "chunk")]
        BY <1>1, <2>3, <3>1 DEF Answers, Chunk, At
      <3> QED
        BY <2>1, <2>3, <3>2 DEF Chunk
    <2>4. CASE EndOfFile(q) /\ ~Chunk(q)
      <3>1. r = [c EXCEPT !.pc = "out", !.sent = Committed(q)]
        BY <1>1, <2>4 DEF Answers, EndOfFile, At
      <3> QED
        BY <2>1, <2>4, <3>1 DEF EndOfFile
    <2> QED
      BY <2>2, <2>3, <2>4
  <1>3. place \in {"out", "streaming"} /\ status \in Nat /\ bodies \in Seq(Pieces)
    <2>1. c.bodies \in Seq(Pieces) /\ "chunk" \in Pieces
      BY <1>1 DEF Answers, Pieces
    <2> QED
      BY <1>1, <2>1 DEF Committed
  <1>4. \A i \in DOMAIN bodies : bodies[i] = "chunk"
    <2>1. c.bodies \in Seq(Pieces)
      BY <1>1 DEF Answers
    <2> QED
      BY <1>1, <2>1 DEF OnlyChunks
  <1>5. /\ status \in {0, 200} /\ (place = "out" => status = 200)
        /\ status = 0 => bodies = <<>>
    <2>1. CASE WriteFile(q)
      <3>1. c.bodies = <<>> /\ ~Chunk(q) /\ ~EndOfFile(q)
        BY <1>1, <2>1 DEF StageInv, Chunk, EndOfFile, At
      <3> QED
        BY <2>1, <3>1
    <2>2. CASE ~WriteFile(q)
      BY <1>1, <2>2 DEF Committed
    <2> QED
      BY <2>1, <2>2
  <1> HIDE DEF c, place, status, bodies
  <1>6. /\ r \in Answers /\ r.pc = place /\ r.router = c.router /\ r.err = c.err /\ r.set = c.set
        /\ r.sent = status /\ r.bodies = bodies /\ r.logged = c.logged /\ r.by = c.by /\ r.cut = c.cut
    <2>1. r \in Answers
      <3> DEFINE r1 == [c EXCEPT !.pc = place]
                 r2 == [r1 EXCEPT !.sent = status]
      <3>1. r1 \in Answers
        BY <1>1, <1>3 DEF Answers
      <3> HIDE DEF r1
      <3>2. r2 \in Answers
        BY <1>3, <3>1 DEF Answers
      <3> HIDE DEF r2
      <3>3. [r2 EXCEPT !.bodies = bodies] \in Answers
        BY <1>3, <3>2 DEF Answers
      <3>4. r = [r2 EXCEPT !.bodies = bodies]
        BY <1>1 DEF Answers, r1, r2
      <3> QED
        BY <3>3, <3>4
    <2>2. /\ r.pc = place /\ r.router = c.router /\ r.err = c.err /\ r.set = c.set
          /\ r.sent = status /\ r.bodies = bodies /\ r.logged = c.logged /\ r.by = c.by
          /\ r.cut = c.cut
      BY <1>1 DEF Answers
    <2> QED
      BY <2>1, <2>2
  <1> HIDE DEF r
  <1>7. OwnFields(q, r) /\ StageInv(r)
    BY <1>1, <1>3, <1>4, <1>5, <1>6, ErrorsDiffer DEF OwnFields, StageInv, DataAnswered, OnlyChunks
  <1> QED
    BY <1>2, <1>3, <1>6, <1>7, OneRequest, Unanswered

LEMMA StreamFailsStep ==
    ASSUME WebInv, NEW q \in Requests, StreamFails(q)
    PROVE  WebInv'
  <1> DEFINE c == req[q]
             place == IF fw = "muxw" THEN "out" ELSE "failed"
             error == IF fw = "muxw" THEN c.err ELSE PlainErr
             status == IF fw = "muxw" THEN Committed(q) ELSE c.sent
             cut == fw = "muxw" \/ c.sent # 0
             r == [c EXCEPT !.pc = place, !.err = error, !.sent = status, !.cut = cut]
  <1>1. /\ c \in Answers /\ StageInv(c) /\ c.pc = "streaming" /\ c.err = NoErr
        /\ c.logged = 0 /\ c.by = "none" /\ c.sent \in {0, 200} /\ (c.sent = 0 => c.bodies = <<>>)
    BY DEF WebInv, StreamFails, At, StageInv
  <1>2. req' = [req EXCEPT ![q] = r] /\ UNCHANGED <<fw, built, own, global, template>>
    BY DEF StreamFails, PlainErr
  <1>3. \/ fw = "muxw" /\ place = "out" /\ error = NoErr /\ status = 200 /\ cut = TRUE
        \/ fw # "muxw" /\ place = "failed" /\ error = PlainErr /\ status = c.sent /\ (cut <=> c.sent # 0)
    BY <1>1 DEF Committed
  <1>4. place \in {"out", "failed"} /\ error \in {NoErr, PlainErr} /\ cut \in BOOLEAN /\ status \in Nat
    BY <1>1, <1>3
  <1> HIDE DEF c, place, error, status, cut
  <1>5. /\ r \in Answers /\ r.pc = place /\ r.router = c.router /\ r.err = error /\ r.set = c.set
        /\ r.sent = status /\ r.bodies = c.bodies /\ r.logged = c.logged /\ r.by = c.by /\ r.cut = cut
    <2>1. c \in Answers
      BY <1>1
    <2> QED
      BY <2>1, <1>4 DEF Answers
  <1> HIDE DEF r
  <1>6. OwnFields(q, r)
    BY <1>3, <1>5, ErrorsDiffer DEF OwnFields
  <1>7. StageInv(r)
    <2>1. CASE fw = "muxw"
      BY <1>1, <1>3, <1>5, <2>1, ErrorsDiffer, Chunks DEF StageInv, DataAnswered
    <2>2. CASE fw # "muxw"
      BY <1>1, <1>3, <1>5, <2>2, ErrorsDiffer, Chunks DEF StageInv
    <2> QED
      BY <2>1, <2>2
  <1> QED
    BY <1>2, <1>4, <1>5, <1>6, <1>7, OneRequest, Unanswered

(* The status of an error is one. *)
LEMMA ErrorStatusIsOne == \A e : ErrorStatus(e) \in 100 .. 599
  BY DEF ErrorStatus

LEMMA HandlerIsARouter ==
    ASSUME WebInv, NEW q \in Requests
    PROVE  HandlerFor(q) \in Routers \cup {"none"}
  BY DEF WebInv, HandlerFor

(* What the error handler answers to a request that failed or panicked. *)
LEMMA AnswerIsOne ==
    ASSUME WebInv, NEW q \in Requests, NEW handled \in BOOLEAN,
           At(q, "failed") \/ At(q, "calling") \/ At(q, "panic"),
           NEW r \in Answers, r.pc = "done", r.router = req[q].router, r.err = req[q].err,
           r.set = req[q].set, r.sent = StatusAfter(q, handled),
           r.bodies = req[q].bodies \o BodiesOf(q, handled), r.by = HandlerFor(q), r.cut = req[q].cut,
           \/ r.logged = LoggedStatus(q, handled)
           \/ r.logged = 0
    PROVE  OwnFields(q, r) /\ StageInv(r) /\ Answered(r) /\ LogIsRight(r)
  <1> DEFINE c == req[q]
             status == ErrorStatus(c.err)
  <1>1. /\ c \in Answers /\ OwnFields(q, c) /\ StageInv(c) /\ c.pc \in {"failed", "calling", "panic"}
    BY DEF WebInv, At
  <1>2. /\ c.err \in {PlainErr} \cup StatusErrs /\ c.sent \in {0, 200} /\ OnlyChunks(c)
        /\ IF c.sent = 0 THEN c.bodies = <<>> /\ ~c.cut ELSE c.cut /\ c.err = PlainErr
        /\ c.router \in built
    BY <1>1 DEF StageInv, Answers
  <1>3. status \in 100 .. 599
    BY ErrorStatusIsOne
  <1>4. OwnFields(q, r) /\ StageInv(r)
    BY <1>1, <1>2 DEF OwnFields, StageInv
  <1>5. r.err.kind # "none"
    BY <1>2, ErrorsDiffer
  <1>6. ASSUME ~c.cut
        PROVE  ErrorAnswered(r)
    <2>1. c.sent = 0 /\ c.bodies = <<>> /\ r.bodies = BodiesOf(q, handled)
      <3>1. c.sent = 0 /\ c.bodies = <<>>
        BY <1>2, <1>6
      <3> QED
        BY <3>1 DEF BodiesOf
    <2>2. CASE CustomAnswers(q, handled)
      <3>1. r.bodies = <<"custom">> /\ r.sent = CustomStatus
        BY <2>1, <2>2 DEF BodiesOf, DefaultAnswers, StatusAfter
      <3>2. IF fw = "muxw" THEN r.by \in built ELSE r.by = r.router
        BY <1>2, <2>2 DEF CustomAnswers, HandlerFor, WebInv
      <3> QED
        BY <3>1, <3>2 DEF ErrorAnswered
    <2>3. CASE ~CustomAnswers(q, handled) /\ Encodes(c.err)
      <3>1. r.bodies = <<"error">> /\ r.sent = status
        BY <2>1, <2>3 DEF BodiesOf, DefaultAnswers, StatusAfter
      <3>2. c.err = PlainErr => status = 500
        BY ErrorsDiffer DEF ErrorStatus
      <3> QED
        BY <1>2, <3>1, <3>2, ErrorsDiffer DEF ErrorAnswered
    <2>4. CASE ~CustomAnswers(q, handled) /\ ~Encodes(c.err)
      <3>1. r.bodies = <<>>
        BY <2>1, <2>4 DEF BodiesOf, DefaultAnswers
      <3> QED
        BY <2>4, <3>1 DEF ErrorAnswered
    <2> QED
      BY <2>2, <2>3, <2>4
  <1>7. ASSUME c.cut
        PROVE  CutAnswered(r)
    <2>1. c.sent = 200 /\ c.err = PlainErr /\ Encodes(c.err)
      BY <1>2, <1>7, ErrorsDiffer DEF Encodes
    <2>2. r.sent = 200
      BY <2>1 DEF StatusAfter
    <2>3. BodiesOf(q, handled) \in {<<"custom">>, <<"error">>}
      <3>1. CustomAnswers(q, handled) => BodiesOf(q, handled) = <<"custom">>
        BY DEF BodiesOf, DefaultAnswers
      <3>2. ~CustomAnswers(q, handled) => BodiesOf(q, handled) = <<"error">>
        BY <2>1 DEF BodiesOf, DefaultAnswers
      <3> QED
        BY <3>1, <3>2
    <2>4. PICK by \in {"custom", "error"} : r.bodies = c.bodies \o <<by>>
      BY <2>3
    <2>5. c.bodies \in Seq(Pieces) /\ <<by>> \in Seq(Pieces)
      BY <1>1 DEF Answers, Pieces
    <2>6. /\ Len(r.bodies) = Len(c.bodies) + 1 /\ r.bodies[Len(r.bodies)] = by
          /\ \A i \in 1 .. Len(c.bodies) : r.bodies[i] = c.bodies[i]
      BY <2>4, <2>5
    <2>7. ChunksAndHandler(r)
      BY <1>2, <2>4, <2>5, <2>6 DEF ChunksAndHandler, OnlyChunks
    <2> QED
      BY <2>2, <2>7 DEF CutAnswered
  <1>8. Answered(r)
    BY <1>5, <1>6, <1>7 DEF Answered
  <1>9. LogIsRight(r)
    <2> SUFFICES ASSUME r.logged # 0
                 PROVE  /\ fw = "echow" => r.logged = status
                        /\ (fw = "echow" => r.by = "none" /\ ~r.cut /\ Encodes(r.err)) => r.logged = r.sent
      BY DEF LogIsRight
    <2>1. r.logged = LoggedStatus(q, handled)
      OBVIOUS
    <2>2. CASE fw = "ginw"
      BY <2>1, <2>2 DEF LoggedStatus
    <2>3. CASE fw = "muxw"
      BY <2>1, <2>3 DEF LoggedStatus
    <2>4. CASE fw = "echow"
      <3>1. r.logged = status
        BY <2>1, <2>4 DEF LoggedStatus
      <3>2. ASSUME r.by = "none", ~r.cut, Encodes(r.err)
            PROVE  r.sent = status
        <4>1. ~CustomAnswers(q, handled) /\ c.sent = 0
          BY <1>2, <2>4, <3>2 DEF CustomAnswers
        <4> QED
          BY <2>4, <3>2, <4>1 DEF StatusAfter
      <3> QED
        BY <2>4, <3>1, <3>2
    <2>5. fw \in {"echow", "ginw", "muxw"}
      BY DEF WebInv
    <2> QED
      BY <2>2, <2>3, <2>4, <2>5
  <1> QED
    BY <1>4, <1>8, <1>9

LEMMA AnswerTypes ==
    ASSUME WebInv, NEW q \in Requests, NEW handled \in BOOLEAN
    PROVE  /\ StatusAfter(q, handled) \in Nat
           /\ LoggedStatus(q, handled) \in Nat
           /\ req[q].bodies \o BodiesOf(q, handled) \in Seq(Pieces)
  <1>1. req[q].sent \in Nat /\ req[q].bodies \in Seq(Pieces)
    BY DEF WebInv, Answers
  <1>2. ErrorStatus(req[q].err) \in Nat
    BY ErrorStatusIsOne
  <1>3. StatusAfter(q, handled) \in Nat
    BY <1>1, <1>2 DEF StatusAfter, CustomStatus
  <1>4. LoggedStatus(q, handled) \in Nat
    BY <1>2, <1>3 DEF LoggedStatus, WebInv
  <1>5. BodiesOf(q, handled) \in Seq(Pieces)
    <2>1. "custom" \in Pieces /\ "error" \in Pieces
      BY DEF Pieces
    <2> QED
      BY <2>1 DEF BodiesOf
  <1> QED
    BY <1>1, <1>3, <1>4, <1>5

LEMMA AnswerErrorStep ==
    ASSUME WebInv, NEW q \in Requests, NEW handled \in BOOLEAN, AnswerError(q, handled)
    PROVE  WebInv'
  <1> DEFINE c == req[q]
             by == HandlerFor(q)
             status == StatusAfter(q, handled)
             bodies == c.bodies \o BodiesOf(q, handled)
             logged == LoggedStatus(q, handled)
             r == [c EXCEPT !.pc = "done", !.by = by, !.sent = status, !.bodies = bodies, !.logged = logged]
  <1>1. c \in Answers /\ req \in [Requests -> Answers] /\ (At(q, "failed") \/ At(q, "calling"))
    BY DEF WebInv, AnswerError
  <1>2. req' = [req EXCEPT ![q] = r] /\ UNCHANGED <<fw, built, own, global, template>>
    BY <1>1 DEF AnswerError
  <1>3. by \in Routers \cup {"none"} /\ status \in Nat /\ bodies \in Seq(Pieces) /\ logged \in Nat
    BY HandlerIsARouter, AnswerTypes
  <1>4. /\ r \in Answers /\ r.pc = "done" /\ r.router = c.router /\ r.err = c.err /\ r.set = c.set
        /\ r.sent = status /\ r.bodies = bodies /\ r.logged = logged /\ r.by = by /\ r.cut = c.cut
    <2> HIDE DEF c, by, status, bodies, logged
    <2>1. c \in Answers
      BY <1>1
    <2> QED
      BY <2>1, <1>3 DEF Answers
  <1> HIDE DEF r
  <1>5. OwnFields(q, r) /\ StageInv(r) /\ Answered(r) /\ LogIsRight(r)
    BY <1>1, <1>4, AnswerIsOne
  <1> QED
    BY <1>2, <1>4, <1>5, OneRequest

(* Recovery: echow answers as AnswerError does, ginw only by a status. *)
LEMMA RecoverStep ==
    ASSUME WebInv, NEW q \in Requests, Recover(q)
    PROVE  WebInv'
  <1> DEFINE c == req[q]
  <1>1. /\ c \in Answers /\ req \in [Requests -> Answers] /\ At(q, "panic") /\ c.pc = "panic"
        /\ OwnFields(q, c) /\ StageInv(c)
        /\ UNCHANGED <<fw, built, own, global, template>>
        /\ fw \in {"echow", "ginw", "muxw"}
    BY DEF WebInv, Recover, At
  <1>2. /\ c.err = PlainErr /\ c.router \in built /\ c.logged = 0 /\ c.by = "none"
        /\ c.sent \in {0, 200} /\ OnlyChunks(c)
        /\ IF c.sent = 0 THEN c.bodies = <<>> /\ ~c.cut ELSE c.cut
    BY <1>1 DEF StageInv
  <1>3. CASE fw = "echow"
    <2> DEFINE by == HandlerFor(q)
               status == StatusAfter(q, TRUE)
               bodies == c.bodies \o BodiesOf(q, TRUE)
               r == [c EXCEPT !.pc = "done", !.by = by, !.sent = status, !.bodies = bodies]
    <2>1. req' = [req EXCEPT ![q] = r]
      BY <1>1, <1>3 DEF Recover
    <2>2. by \in Routers \cup {"none"} /\ status \in Nat /\ bodies \in Seq(Pieces)
      BY HandlerIsARouter, AnswerTypes
    <2>3. /\ r \in Answers /\ r.pc = "done" /\ r.router = c.router /\ r.err = c.err /\ r.set = c.set
          /\ r.sent = status /\ r.bodies = bodies /\ r.logged = c.logged /\ r.by = by /\ r.cut = c.cut
      <3> HIDE DEF c, by, status, bodies
      <3>1. c \in Answers
        BY <1>1
      <3> QED
        BY <3>1, <2>2 DEF Answers
    <2> HIDE DEF r
    <2>4. OwnFields(q, r) /\ StageInv(r) /\ Answered(r) /\ LogIsRight(r)
      BY <1>1, <1>2, <2>3, AnswerIsOne
    <2> QED
      BY <1>1, <2>1, <2>3, <2>4, OneRequest
  <1>4. CASE fw = "ginw"
    <2> DEFINE status == IF c.sent = 0 THEN 500 ELSE c.sent
               r == [c EXCEPT !.pc = "done", !.sent = status]
    <2>1. req' = [req EXCEPT ![q] = r]
      BY <1>1, <1>4 DEF Recover
    <2>2. status \in Nat /\ (c.sent = 0 => status = 500)
      BY <1>1 DEF Answers
    <2> HIDE DEF c, status
    <2>3. /\ r \in Answers /\ r.pc = "done" /\ r.router = c.router /\ r.err = c.err /\ r.set = c.set
          /\ r.sent = status /\ r.bodies = c.bodies /\ r.logged = c.logged /\ r.by = c.by /\ r.cut = c.cut
      BY <1>1, <2>2 DEF Answers
    <2> HIDE DEF r
    <2>4. OwnFields(q, r) /\ StageInv(r)
      BY <1>1, <1>2, <2>3 DEF OwnFields, StageInv
    <2>5. LogIsRight(r)
      BY <1>2, <2>3 DEF LogIsRight
    <2>6. Answered(r)
      <3>1. r.err.kind # "none"
        BY <1>2, <2>3, ErrorsDiffer
      <3>2. ~r.cut => ErrorAnswered(r)
        <4>1. ~r.cut => r.bodies = <<>> /\ r.sent = 500
          BY <1>2, <2>2, <2>3
        <4> QED
          BY <1>4, <4>1 DEF ErrorAnswered
      <3>3. r.cut => r.sent = 200 /\ OnlyChunks(r)
        BY <1>2, <2>2, <2>3, Chunks DEF status
      <3> QED
        BY <1>4, <2>3, <3>1, <3>2, <3>3 DEF Answered, CutAnswered
    <2> QED
      BY <1>1, <2>1, <2>3, <2>4, <2>5, <2>6, OneRequest
  <1>5. CASE fw = "muxw"
    <2> DEFINE r == [c EXCEPT !.pc = "aborted"]
    <2>1. req' = [req EXCEPT ![q] = r]
      BY <1>1, <1>5 DEF Recover
    <2> HIDE DEF c
    <2>2. /\ r \in Answers /\ r.pc = "aborted" /\ r.router = c.router /\ r.err = c.err /\ r.set = c.set
          /\ r.sent = c.sent /\ r.bodies = c.bodies /\ r.logged = c.logged /\ r.by = c.by /\ r.cut = c.cut
      BY <1>1 DEF Answers
    <2> HIDE DEF r
    <2>3. OwnFields(q, r) /\ StageInv(r)
      BY <1>1, <1>2, <2>2 DEF OwnFields, StageInv
    <2>4. Answered(r) /\ LogIsRight(r)
      BY <1>2, <1>5, <2>2, Chunks DEF Answered, LogIsRight
    <2> QED
      BY <1>1, <2>1, <2>2, <2>3, <2>4, OneRequest
  <1> QED
    BY <1>1, <1>3, <1>4, <1>5

LEMMA OutStep ==
    ASSUME WebInv, NEW q \in Requests, Out(q)
    PROVE  WebInv'
  <1> DEFINE c == req[q]
             logged == IF fw = "muxw" THEN 0 ELSE 200
             r == [c EXCEPT !.pc = "done", !.logged = logged]
  <1>1. /\ c \in Answers /\ OwnFields(q, c) /\ StageInv(c) /\ c.pc = "out"
        /\ req \in [Requests -> Answers]
    BY DEF WebInv, Out, At
  <1>2. req' = [req EXCEPT ![q] = r] /\ UNCHANGED <<fw, built, own, global, template>>
    BY <1>1 DEF Out
  <1>3. c.err = NoErr /\ DataAnswered(c) /\ c.router \in built
    BY <1>1 DEF StageInv
  <1>4. logged \in Nat /\ logged \in {0, 200}
    OBVIOUS
  <1> HIDE DEF c, logged
  <1>5. /\ r \in Answers /\ r.pc = "done" /\ r.router = c.router /\ r.err = c.err /\ r.set = c.set
        /\ r.sent = c.sent /\ r.bodies = c.bodies /\ r.logged = logged /\ r.by = c.by /\ r.cut = c.cut
    BY <1>1, <1>4 DEF Answers
  <1> HIDE DEF r
  <1>6. OwnFields(q, r) /\ StageInv(r)
    BY <1>1, <1>3, <1>5, ErrorsDiffer DEF OwnFields, StageInv
  <1>7. DataAnswered(r)
    BY <1>3, <1>5, Chunks DEF DataAnswered
  <1>8. Answered(r) /\ LogIsRight(r)
    BY <1>3, <1>4, <1>5, <1>7, ErrorsDiffer DEF Answered, DataAnswered, LogIsRight
  <1> QED
    BY <1>2, <1>5, <1>6, <1>8, OneRequest

(* muxw reads its error handler twice. *)
LEMMA HandlerStep ==
    ASSUME WebInv, NEW q \in Requests, HandlerIsThere(q) \/ HandlerIsGone(q)
    PROVE  WebInv'
  <1> DEFINE c == req[q]
             place == IF HandlerIsThere(q) THEN "calling" ELSE "panic"
             error == IF HandlerIsThere(q) THEN c.err ELSE PlainErr
             r == [c EXCEPT !.pc = place, !.err = error]
  <1>1. /\ c \in Answers /\ OwnFields(q, c) /\ StageInv(c) /\ c.pc \in {"failed", "calling"}
        /\ req \in [Requests -> Answers]
    BY DEF WebInv, HandlerIsThere, HandlerIsGone, At
  <1>2. req' = [req EXCEPT ![q] = r] /\ UNCHANGED <<fw, built, own, global, template>>
    <2>1. CASE HandlerIsThere(q)
      <3>1. r = [c EXCEPT !.pc = "calling"]
        BY <1>1, <2>1 DEF Answers
      <3> QED
        BY <2>1, <3>1 DEF HandlerIsThere, Goto
    <2>2. CASE ~HandlerIsThere(q)
      <3>1. HandlerIsGone(q) /\ r = [c EXCEPT !.pc = "panic", !.err = PlainErr]
        BY <2>2
      <3> QED
        BY <1>1, <3>1 DEF HandlerIsGone, PlainErr
    <2> QED
      BY <2>1, <2>2
  <1>3. /\ place \in {"calling", "panic"} /\ error \in {c.err, PlainErr}
        /\ place = "panic" => error = PlainErr
    OBVIOUS
  <1> HIDE DEF c, place, error
  <1>4. /\ r \in Answers /\ r.pc = place /\ r.router = c.router /\ r.err = error /\ r.set = c.set
        /\ r.sent = c.sent /\ r.bodies = c.bodies /\ r.logged = c.logged /\ r.by = c.by /\ r.cut = c.cut
    BY <1>1, <1>3 DEF Answers
  <1> HIDE DEF r
  <1>5. OwnFields(q, r) /\ StageInv(r)
    BY <1>1, <1>3, <1>4, ErrorsDiffer, Chunks DEF OwnFields, StageInv
  <1> QED
    BY <1>2, <1>3, <1>4, <1>5, OneRequest, Unanswered

LEMMA WebNextInvariant == WebInv /\ [WebNext]_webVars => WebInv'
  <1> SUFFICES ASSUME WebInv, [WebNext]_webVars
               PROVE  WebInv'
    OBVIOUS
  <1>1. ASSUME NEW r \in Routers, NEW custom \in BOOLEAN, New(r, custom)
        PROVE  WebInv'
    BY <1>1, NewStep
  <1>2. ASSUME NEW q \in Requests,
               \/ \E r \in built, found \in BOOLEAN : Enter(q, r, found)
               \/ \E code \in LogicalCodes : TakeTemplate(q, code)
               \/ \E f \in Fields, encodes \in BOOLEAN : With(q, f, encodes)
        PROVE  WebInv'
    BY <1>2, EnterStep, TakeTemplateStep, WithStep
  <1>3. ASSUME NEW q \in Requests,
               \/ \E encodes \in BOOLEAN : WriteValue(q, encodes)
               \/ ReturnError(q) \/ ReturnPlain(q) \/ Panic(q)
               \/ WriteFile(q) \/ Chunk(q) \/ EndOfFile(q) \/ StreamFails(q)
        PROVE  WebInv'
    BY <1>3, WriteValueStep, GiveUpStep, FileStep, StreamFailsStep
  <1>4. ASSUME NEW q \in Requests,
               \/ HandlerIsThere(q) \/ HandlerIsGone(q)
               \/ \E handled \in BOOLEAN : AnswerError(q, handled)
               \/ Recover(q) \/ Out(q)
        PROVE  WebInv'
    BY <1>4, HandlerStep, AnswerErrorStep, RecoverStep, OutStep
  <1>5. CASE UNCHANGED webVars
    <2>1. /\ fw' = fw /\ built' = built /\ own' = own /\ global' = global /\ template' = template
          /\ req' = req
      BY <1>5 DEF webVars
    <2>2. ASSUME NEW q \in Requests
          PROVE  OwnFields(q, req[q])' /\ StageInv(req[q])' /\ Answered(req[q])' /\ LogIsRight(req[q])'
      <3>1. OwnFields(q, req[q]) /\ StageInv(req[q]) /\ Answered(req[q]) /\ LogIsRight(req[q])
        BY DEF WebInv
      <3>2. OwnFields(q, req[q])' /\ StageInv(req[q])' /\ LogIsRight(req[q])'
        BY <2>1, <3>1 DEF OwnFields, StageInv, LogIsRight, DataAnswered, OnlyChunks
      <3>3. ErrorAnswered(req[q]) => ErrorAnswered(req[q])'
        BY <2>1 DEF ErrorAnswered
      <3>4. Answered(req[q])'
        BY <2>1, <3>1, <3>3 DEF Answered, DataAnswered, CutAnswered, ChunksAndHandler, OnlyChunks
      <3> QED
        BY <3>2, <3>4
    <2> QED
      BY <2>1, <2>2 DEF WebInv
  <1> QED
    BY <1>1, <1>2, <1>3, <1>4, <1>5 DEF WebNext

(* How far each request is, and what has gone out, in every state. *)
THEOREM WebInvariance == WebSpec => []WebInv
  BY WebInitInvariant, WebNextInvariant, PTL DEF WebSpec

(* statusw/status.go:54: no request's payload shows a field that another    *)
(* request set: for any number of requests, routers, fields and codes.      *)
THEOREM PayloadIsOwnHolds == WebSpec => []PayloadIsOwn
  <1>1. WebInv => PayloadIsOwn
    <2> SUFFICES ASSUME WebInv, NEW q \in Requests, req[q].err.kind = "status", NEW f \in Fields
                 PROVE  req[q].err.fields[f] = IF f \in req[q].set THEN q ELSE "template"
      BY DEF PayloadIsOwn
    <2>1. req[q].err \in StatusErrs
      BY ErrorsDiffer DEF WebInv, Answers
    <2> QED
      BY <2>1 DEF WebInv, OwnFields
  <1> QED
    BY <1>1, WebInvariance, PTL

(* echo.go:118, gin.go:103, mux.go:97 and 102: what is written for a        *)
(* request is one answer, or the pieces of a file with the answer of one    *)
(* error handler behind them, under the status that AnsweredOnce says for   *)
(* each framework, and the log names that status where AnsweredOnce says    *)
(* so: for any number of concurrent requests, routers and chunks.           *)
THEOREM AnsweredOnceHolds == WebSpec => []AnsweredOnce
  <1>1. WebInv => AnsweredOnce
    BY DEF WebInv, AnsweredOnce
  <1> QED
    BY <1>1, WebInvariance, PTL

-----------------------------------------------------------------------------
(* Request. *)

(* The five orders of the middlewares. *)
LEMMA OrderFacts ==
    /\ Len(<<>>) = 0 /\ \A a : Len(<<a>>) = 1 /\ Head(<<a>>) = a /\ Last(<<a>>) = a /\ <<a>> # <<>>
    /\ \A a, b : /\ Len(<<a, b>>) = 2 /\ Head(<<a, b>>) = a /\ Last(<<a, b>>) = b
                 /\ <<a, b>>[1] = a /\ <<a, b>>[2] = b /\ <<a, b>> # <<>>
    /\ \A a, b : <<a>> = <<b>> => a = b
    /\ \A a, b, c, d : <<a, b>> = <<c, d>> => a = c /\ b = d
    /\ \A a, b, c : <<a, b>> # <<c>>
  BY DEF Last

LEMMA OrderIsOne ==
    ASSUME RequestTypes
    PROVE  \/ order = <<>> /\ Len(order) = 0 /\ ~HasTrace
           \/ order = <<"log">> /\ Len(order) = 1 /\ Head(order) = "log" /\ Last(order) = "log" /\ ~HasTrace
           \/ order = <<"trace">> /\ Len(order) = 1 /\ Head(order) = "trace" /\ Last(order) = "trace" /\ HasTrace
           \/ /\ order = <<"log", "trace">> /\ Len(order) = 2 /\ Head(order) = "log"
              /\ Last(order) = "trace" /\ order[1] = "log" /\ order[2] = "trace" /\ HasTrace
           \/ /\ order = <<"trace", "log">> /\ Len(order) = 2 /\ Head(order) = "trace"
              /\ Last(order) = "log" /\ order[1] = "trace" /\ order[2] = "log" /\ HasTrace
              /\ order # <<"log", "trace">>
  BY OrderFacts DEF RequestTypes, Orders, HasTrace

Inners == {"errorw", "echo404", "validation", "plain", "nil"}

LEMMA ErrorKinds ==
    /\ NoError.kind = "none"
    /\ NoError \notin Errors
    /\ \A e \in Errors :
          /\ e.kind \in {"errorw", "response", "echo404", "validation", "plain"}
          /\ e.kind = "errorw" => e.code \in Int
          /\ e.kind = "response" => e \in [kind : {"response"}, status : Statuses, code : Codes, inner : Inners]
  <1>1. NoError.kind = "none"
    BY DEF NoError
  <1>2. ASSUME NEW e \in Errors
        PROVE  /\ e.kind \in {"errorw", "response", "echo404", "validation", "plain"}
               /\ e.kind = "errorw" => e.code \in Int
               /\ e.kind = "response" =>
                     e \in [kind : {"response"}, status : Statuses, code : Codes, inner : Inners]
    BY RequestAssumption DEF Errors, Inners
  <1> QED
    BY <1>1, <1>2

(* Where a record is added to a trace, the others stay what they were.      *)
LEMMA RecordAdded ==
    ASSUME NEW spans \in Seq(Records), NEW r \in Records
    PROVE  LET now == Append(spans, r) IN
           /\ now \in Seq(Records) /\ DOMAIN now = DOMAIN spans \cup {Len(spans) + 1}
           /\ Len(spans) + 1 \notin DOMAIN spans
           /\ now[Len(spans) + 1] = r /\ \A i \in DOMAIN spans : now[i] = spans[i]
  OBVIOUS

(* Records are counted by finite sets of places. *)
LEMMA PlacesAreFinite ==
    ASSUME NEW spans \in Seq(Records)
    PROVE  /\ \A t, b : IsFiniteSet(RecordsOf(spans, t, b)) /\ Len(spans) + 1 \notin RecordsOf(spans, t, b)
           /\ IsFiniteSet(FailedIn(spans)) /\ Len(spans) + 1 \notin FailedIn(spans)
  <1>1. DOMAIN spans = 1 .. Len(spans) /\ Len(spans) \in Nat
    OBVIOUS
  <1>2. IsFiniteSet(1 .. Len(spans)) /\ Len(spans) + 1 \notin 1 .. Len(spans)
    BY <1>1, FS_Interval
  <1>3. /\ \A t, b : RecordsOf(spans, t, b) \subseteq 1 .. Len(spans)
        /\ FailedIn(spans) \subseteq 1 .. Len(spans)
    BY <1>1 DEF RecordsOf, FailedIn
  <1> QED
    BY <1>2, <1>3, FS_Subset

LEMMA NoSpanEnds ==
    ASSUME span = [s \in Spans |-> NewSpan]
    PROVE  Whole(<<>>, 0)
  <1>1. <<>> \in Seq(Records) /\ FailedIn(<<>>) = {}
    BY DEF FailedIn
  <1>2. \A s \in Spans, b \in BOOLEAN : RecordsOf(<<>>, s, b) = {} /\ span[s].ends[b] = 0
    BY DEF RecordsOf, NewSpan
  <1> QED
    BY <1>1, <1>2, FS_EmptySet DEF Whole

LEMMA RequestInitInvariant == RequestInit => RequestInv
  <1> SUFFICES ASSUME RequestInit
               PROVE  RequestInv
    OBVIOUS
  <1>1. RequestTypes
    <2>1. header \in [client : Ids, seen : Ids] /\ requestId \in Ids /\ traceId \in Ids
      BY DEF RequestInit, Ids
    <2>2. reply \in Replies
      BY DEF RequestInit, Ids, Replies
    <2>3. span \in [Spans -> Spanned]
      BY DEF RequestInit, Spanned, NewSpan
    <2>4. traceLog.done \in BOOLEAN /\ accessLog.done \in BOOLEAN
      BY DEF RequestInit, NotLogged
    <2> QED
      BY <2>1, <2>2, <2>3, <2>4 DEF RequestInit, RequestTypes
  <1>2. ~traceLog.done /\ ~accessLog.done
    BY DEF RequestInit, NotLogged
  <1>3. IdInv
    BY <1>2 DEF RequestInit, IdInv
  <1>4. TimelineInv
    <2>1. span = [s \in Spans |-> NewSpan] /\ \A s \in Spans : ~span[s].open
      BY DEF RequestInit, NewSpan
    <2> QED
      BY <1>2, <2>1, NoSpanEnds DEF RequestInit, TimelineInv
  <1>5. ReplyInv
    BY <1>2 DEF RequestInit, ReplyInv
  <1> QED
    BY <1>1, <1>3, <1>4, <1>5 DEF RequestInv

(* The middlewares on the way in: where the ids are from then on. *)
LEMMA InStep ==
    ASSUME RequestInv, MiddlewaresIn \/ SecondIn
    PROVE  RequestInv'
  <1> USE DEF RequestInv
  <1> DEFINE enters == IF order = <<>> THEN "none" ELSE IF pc = "in" THEN Head(order) ELSE order[2]
  <1>1. /\ UNCHANGED <<order, errMap, err, panicked, span, timeline, errCnt, traceLog, accessLog>>
        /\ pc \in {"in", "in2"} /\ pc' \in {"in2", "handler"}
        /\ pc' = "in2" <=> pc = "in" /\ Len(order) = 2
        /\ enters \in {"none", "log", "trace"} /\ (enters = "none" <=> order = <<>>)
        /\ enters = "none" => UNCHANGED <<header, requestId, traceId, reply>>
        /\ enters = "log" => EnterLog
        /\ enters = "trace" => EnterTrace
    BY OrderIsOne DEF MiddlewaresIn, SecondIn, IdInv
  <1>2. Ensured.ctx \in Ids /\ Ensured.header = Ensured.ctx /\ Ensured.ctx # NoId
    BY DEF Ensured, RequestTypes, Ids, NoId
  <1>3. TraceId \in Ids /\ TraceId # NoId /\ (header.seen # NoId => TraceId = header.seen)
    BY DEF TraceId, RequestTypes, Ids, NoId
  <1>4. ~traceLog.done /\ ~accessLog.done
    BY <1>1 DEF TimelineInv, ReplyInv
  <1>5. /\ reply'.sent = reply.sent /\ reply'.status = reply.status /\ reply'.bodies = reply.bodies
        /\ reply' \in Replies
        /\ reply'.id = CASE enters = "none"  -> reply.id
                         [] enters = "log"   -> Ensured.ctx
                         [] enters = "trace" -> TraceId
    <2>1. reply \in Replies
      BY DEF RequestTypes
    <2>2. \A i \in Ids : /\ [reply EXCEPT !.id = i].sent = reply.sent
                         /\ [reply EXCEPT !.id = i].status = reply.status
                         /\ [reply EXCEPT !.id = i].bodies = reply.bodies
                         /\ [reply EXCEPT !.id = i] \in Replies
                         /\ [reply EXCEPT !.id = i].id = i
      BY <2>1 DEF Replies
    <2> HIDE DEF enters
    <2>3. CASE enters = "log"
      <3>1. reply' = [reply EXCEPT !.id = Ensured.ctx]
        BY <1>1, <2>3 DEF EnterLog
      <3>2. Ensured.ctx \in Ids
        BY <1>2
      <3> QED
        BY <2>2, <2>3, <3>1, <3>2
    <2>4. CASE enters = "trace"
      BY <1>1, <1>3, <2>2, <2>4 DEF EnterTrace
    <2>5. CASE enters = "none"
      BY <1>1, <2>1, <2>5
    <2> QED
      BY <1>1, <2>3, <2>4, <2>5
  <1>6. /\ header' \in [client : Ids, seen : Ids] /\ requestId' \in Ids /\ traceId' \in Ids
        /\ enters = "log" => header'.seen = Ensured.ctx /\ requestId' = Ensured.ctx /\ traceId' = traceId
        /\ enters = "trace" => traceId' = TraceId /\ header' = header /\ requestId' = requestId
    BY <1>1, <1>2, <1>3 DEF EnterLog, EnterTrace, RequestTypes
  <1>7. RequestTypes'
    BY <1>1, <1>5, <1>6 DEF RequestTypes
  <1>8. IdInv'
    BY <1>1, <1>2, <1>3, <1>4, <1>5, <1>6, OrderIsOne DEF IdInv, Traced, HasTrace
  <1>9. TimelineInv'
    BY <1>1, <1>4 DEF TimelineInv, Whole, HasTrace
  <1>10. ReplyInv'
    BY <1>1, <1>4, <1>5 DEF ReplyInv
  <1> QED
    BY <1>7, <1>8, <1>9, <1>10

(* Spans begin, fail and end: one that ends before the trace is flushed is  *)
(* appended to it, and counted if it failed.                                *)
LEMMA SpanStep ==
    ASSUME RequestInv, NEW s \in Spans, StartSpan(s) \/ FailSpan(s) \/ EndSpan(s)
    PROVE  RequestInv'
  <1> USE DEF RequestInv
  <1>1. UNCHANGED <<order, errMap, pc, header, requestId, traceId, reply, err, panicked, traceLog, accessLog>>
    BY DEF StartSpan, FailSpan, EndSpan, Ends
  <1>2. /\ span \in [Spans -> Spanned] /\ traceLog.done \in BOOLEAN
    BY DEF RequestTypes
  <1>3. pc \notin {"in", "in2"}
    BY DEF StartSpan, FailSpan, EndSpan, Ends, TimelineInv
  <1>4. CASE ~EndSpan(s) \/ traceLog.done
    <2>1. /\ span' \in [Spans -> Spanned]
          /\ \A t \in Spans : span'[t].ends = span[t].ends
      <3>1. CASE StartSpan(s)
        BY <1>2, <3>1 DEF StartSpan, Spanned
      <3>2. CASE FailSpan(s)
        BY <1>2, <3>2 DEF FailSpan, Spanned
      <3>3. CASE EndSpan(s)
        BY <1>2, <1>4, <3>3 DEF EndSpan, Ends
      <3> QED
        BY <3>1, <3>2, <3>3
    <2>2. ~traceLog.done => timeline' = timeline /\ errCnt' = errCnt
      BY <1>4 DEF StartSpan, FailSpan
    <2>3. \A spans, errors : Whole(spans, errors) =>
             /\ spans \in Seq(Records) /\ errors = Cardinality(FailedIn(spans))
             /\ \A t \in Spans, b \in BOOLEAN : Cardinality(RecordsOf(spans, t, b)) = span'[t].ends[b]
      BY <2>1 DEF Whole
    <2>4. TimelineInv'
      BY <1>1, <1>3, <2>2, <2>3 DEF TimelineInv, Whole, HasTrace
    <2>5. RequestTypes' /\ IdInv' /\ ReplyInv'
      BY <1>1, <2>1 DEF RequestTypes, IdInv, ReplyInv, Traced, HasTrace, ResponseOf, Converted, KeyFor
    <2> QED
      BY <2>4, <2>5
  <1>5. CASE EndSpan(s) /\ ~traceLog.done
    <2> DEFINE failed == span[s].failed
               ends == span[s].ends
    <2>1. failed \in BOOLEAN /\ ends \in [BOOLEAN -> Nat]
      BY <1>2 DEF Spanned
    <2>2. /\ timeline' = Append(timeline, [span |-> s, failed |-> failed])
          /\ errCnt' = IF failed THEN errCnt + 1 ELSE errCnt
          /\ span' = [span EXCEPT ![s].ends[failed] = @ + 1]
      BY <1>5 DEF EndSpan, Ends, Recorded
    <2>3. /\ span' \in [Spans -> Spanned]
          /\ \A t \in Spans, b \in BOOLEAN :
                span'[t].ends[b] = IF t = s /\ b = failed THEN span[t].ends[b] + 1 ELSE span[t].ends[b]
      <3> DEFINE now == [ends EXCEPT ![failed] = @ + 1]
      <3>1. now \in [BOOLEAN -> Nat] /\ \A b \in BOOLEAN : now[b] = IF b = failed THEN ends[b] + 1 ELSE ends[b]
        BY <2>1
      <3>2. span' = [span EXCEPT ![s] = [span[s] EXCEPT !.ends = now]]
        BY <2>2
      <3> HIDE DEF now, failed
      <3>3. [span[s] EXCEPT !.ends = now] \in Spanned /\ [span[s] EXCEPT !.ends = now].ends = now
        BY <1>2, <3>1 DEF Spanned
      <3> QED
        BY <1>2, <3>1, <3>2, <3>3
    <2>4. HasTrace => Whole(timeline, errCnt)'
      <3> SUFFICES ASSUME HasTrace
                   PROVE  Whole(timeline, errCnt)'
        OBVIOUS
      <3> HIDE DEF failed
      <3>1. /\ timeline \in Seq(Records)
            /\ \A t \in Spans, b \in BOOLEAN : Cardinality(RecordsOf(timeline, t, b)) = span[t].ends[b]
            /\ errCnt = Cardinality(FailedIn(timeline))
        BY <1>5 DEF TimelineInv, Whole
      <3> DEFINE last == Len(timeline) + 1
      <3>2. /\ timeline' \in Seq(Records)
            /\ \A t \in Spans, b \in BOOLEAN :
                  RecordsOf(timeline', t, b) = IF t = s /\ b = failed THEN RecordsOf(timeline, t, b) \cup {last}
                                               ELSE RecordsOf(timeline, t, b)
            /\ FailedIn(timeline') = IF failed THEN FailedIn(timeline) \cup {last} ELSE FailedIn(timeline)
        <4> DEFINE r == [span |-> s, failed |-> failed]
        <4>1. timeline \in Seq(Records) /\ r \in Records /\ timeline' = Append(timeline, r)
          BY <2>1, <2>2, <3>1 DEF Records
        <4>2. \A t \in Spans, b \in BOOLEAN : r = [span |-> t, failed |-> b] <=> t = s /\ b = failed
          OBVIOUS
        <4>3. r.failed <=> failed
          OBVIOUS
        <4> HIDE DEF r
        <4>4. /\ timeline' \in Seq(Records) /\ DOMAIN timeline' = DOMAIN timeline \cup {last}
              /\ last \notin DOMAIN timeline
              /\ timeline'[last] = r /\ \A i \in DOMAIN timeline : timeline'[i] = timeline[i]
          BY <4>1, RecordAdded
        <4> HIDE DEF last
        <4>5. ASSUME NEW t \in Spans, NEW b \in BOOLEAN
              PROVE  RecordsOf(timeline', t, b) = IF t = s /\ b = failed THEN RecordsOf(timeline, t, b) \cup {last}
                                                  ELSE RecordsOf(timeline, t, b)
          BY <4>2, <4>4 DEF RecordsOf
        <4>6. FailedIn(timeline') = IF failed THEN FailedIn(timeline) \cup {last} ELSE FailedIn(timeline)
          BY <4>3, <4>4 DEF FailedIn
        <4> QED
          BY <4>4, <4>5, <4>6
      <3>3. /\ \A t, b : IsFiniteSet(RecordsOf(timeline, t, b)) /\ last \notin RecordsOf(timeline, t, b)
            /\ IsFiniteSet(FailedIn(timeline)) /\ last \notin FailedIn(timeline)
        BY <3>1, PlacesAreFinite DEF last
      <3>4. ASSUME NEW t \in Spans, NEW b \in BOOLEAN
            PROVE  Cardinality(RecordsOf(timeline', t, b)) = span'[t].ends[b]
        <4>1. Cardinality(RecordsOf(timeline, t, b) \cup {last}) = Cardinality(RecordsOf(timeline, t, b)) + 1
          BY <3>3, FS_AddElement
        <4>2. /\ Cardinality(RecordsOf(timeline, t, b)) = span[t].ends[b]
              /\ span'[t].ends[b] = IF t = s /\ b = failed THEN span[t].ends[b] + 1 ELSE span[t].ends[b]
              /\ RecordsOf(timeline', t, b) = IF t = s /\ b = failed THEN RecordsOf(timeline, t, b) \cup {last}
                                              ELSE RecordsOf(timeline, t, b)
          BY <2>3, <3>1, <3>2
        <4> QED
          BY <4>1, <4>2
      <3>5. Cardinality(FailedIn(timeline')) = errCnt'
        <4>1. Cardinality(FailedIn(timeline) \cup {last}) = Cardinality(FailedIn(timeline)) + 1
          BY <3>3, FS_AddElement
        <4> QED
          BY <2>2, <3>1, <3>2, <4>1 DEF failed
      <3> QED
        BY <3>2, <3>4, <3>5 DEF Whole
    <2>5. TimelineInv'
      BY <1>1, <1>3, <1>5, <2>4 DEF TimelineInv, HasTrace
    <2>6. RequestTypes' /\ IdInv' /\ ReplyInv'
      BY <1>1, <2>3 DEF RequestTypes, IdInv, ReplyInv, Traced, HasTrace, ResponseOf, Converted, KeyFor
    <2> QED
      BY <2>5, <2>6
  <1> QED
    BY <1>4, <1>5

(* The handler returns, with an error or not, or panics. *)
LEMMA ReturnStep ==
    ASSUME RequestInv, NEW e \in Errors \cup {NoError}, NEW wrote \in {0, 200, 201},
           Return(e, wrote) \/ Panics
    PROVE  RequestInv'
  <1> USE DEF RequestInv
  <1>1. /\ UNCHANGED <<order, errMap, header, requestId, traceId, span, timeline, errCnt, traceLog, accessLog>>
        /\ pc = "handler" /\ pc' = "out"
        /\ err' \in Errors \cup {NoError}
    BY DEF Return, Panics, RequestTypes
  <1>2. ~traceLog.done /\ ~accessLog.done
    BY <1>1 DEF TimelineInv, ReplyInv
  <1>3. err = NoError /\ panicked = FALSE /\ ~reply.sent /\ reply.status = 200 /\ reply.bodies = <<>> /\ reply \in Replies
    BY <1>1 DEF ReplyInv, RequestTypes
  <1>4. /\ reply' \in Replies /\ reply'.id = reply.id /\ (reply'.sent \/ reply'.status = 200)
        /\ reply'.bodies = IF reply'.sent THEN <<"success">> ELSE <<>>
        /\ panicked' => err' = NoError
        /\ panicked' \in BOOLEAN
        /\ err' = NoError /\ ~panicked' => reply'.sent
    <2>1. CASE Panics
      BY <1>3, <2>1 DEF Panics
    <2>2. CASE Return(e, wrote) /\ wrote # 0
      <3>1. /\ reply' = [reply EXCEPT !.sent = TRUE, !.status = wrote, !.bodies = <<"success">>]
            /\ panicked' = panicked /\ wrote \in Nat
        BY <2>2 DEF Return
      <3>2. reply' \in Replies /\ reply'.id = reply.id /\ reply'.sent /\ reply'.bodies = <<"success">>
        BY <1>3, <3>1 DEF Replies
      <3> QED
        BY <1>3, <3>1, <3>2
    <2>3. CASE Return(e, wrote) /\ wrote = 0
      BY <1>3, <2>3 DEF Return
    <2> QED
      BY <2>1, <2>2, <2>3
  <1>5. RequestTypes'
    BY <1>1, <1>4 DEF RequestTypes
  <1>6. IdInv'
    BY <1>1, <1>2, <1>4 DEF IdInv, Traced, HasTrace
  <1>7. TimelineInv'
    BY <1>1, <1>2 DEF TimelineInv, Whole, HasTrace
  <1>8. ReplyInv'
    BY <1>1, <1>2, <1>4 DEF ReplyInv
  <1> QED
    BY <1>5, <1>6, <1>7, <1>8

(* The middlewares on the way out: what Flush and the access log record.    *)
LEMMA RequestOutStep ==
    ASSUME RequestInv, MiddlewaresOut \/ SecondOut
    PROVE  RequestInv'
  <1> USE DEF RequestInv
  <1> DEFINE leaves == IF order = <<>> THEN "none" ELSE IF pc = "out" THEN Last(order) ELSE order[1]
  <1>1. /\ UNCHANGED <<order, errMap, header, requestId, traceId, reply, err, panicked, span, timeline, errCnt>>
        /\ pc \in {"out", "out2"} /\ pc' \in {"out2", "answer"}
        /\ pc' = "out2" <=> pc = "out" /\ Len(order) = 2
        /\ leaves \in {"none", "log", "trace"} /\ (leaves = "trace" => HasTrace)
        /\ leaves = "trace" => ~traceLog.done
        /\ leaves = "trace" /\ pc' = "out2" => order = <<"log", "trace">>
        /\ IF leaves = "trace" THEN Flush ELSE traceLog' = traceLog
        /\ IF leaves = "log" THEN LogAccess ELSE accessLog' = accessLog
    BY OrderIsOne DEF MiddlewaresOut, SecondOut, IdInv, TimelineInv
  <1> HIDE DEF leaves
  <1>2. traceLog'.done \in BOOLEAN /\ accessLog'.done \in BOOLEAN
    <2>1. traceLog.done \in BOOLEAN /\ accessLog.done \in BOOLEAN
      BY DEF RequestTypes
    <2>2. Flush => traceLog'.done = TRUE
      BY DEF Flush
    <2>3. LogAccess => accessLog'.done \in BOOLEAN
      BY DEF LogAccess, NotLogged
    <2> QED
      BY <1>1, <2>1, <2>2, <2>3
  <1>3. RequestTypes'
    BY <1>1, <1>2 DEF RequestTypes
  <1>4. /\ accessLog'.done => \/ accessLog' = accessLog
                              \/ ~panicked /\ accessLog'.status = reply.status /\ accessLog'.id = requestId
        /\ traceLog' = traceLog \/ Flush
    BY <1>1 DEF LogAccess, NotLogged
  <1>5. IdInv'
    <2>1. ASSUME order = <<"log", "trace">>, traceLog'.done
          PROVE  traceLog'.id = requestId /\ traceLog'.line = requestId
      <3>1. CASE traceLog' = traceLog
        BY <2>1, <3>1 DEF IdInv
      <3>2. CASE Flush
        <4>1. traceLog'.id = traceId /\ traceLog'.line = requestId
          BY <2>1, <3>2 DEF Flush
        <4> QED
          BY <1>1, <2>1, <4>1 DEF IdInv
      <3> QED
        BY <1>4, <3>1, <3>2
    <2>2. order = <<"log", "trace">> /\ accessLog'.done => accessLog'.id = requestId
      BY <1>4 DEF IdInv
    <2> QED
      BY <1>1, <2>1, <2>2 DEF IdInv, Traced, HasTrace
  <1>6. TimelineInv'
    <2>1. CASE leaves # "trace"
      BY <1>1, <2>1 DEF TimelineInv, Whole, HasTrace
    <2>2. CASE leaves = "trace"
      <3>1. HasTrace /\ Flush
        BY <1>1, <2>2
      <3>2. /\ traceLog'.done /\ traceLog'.spans = timeline /\ traceLog'.errors = errCnt
            /\ traceLog'.level = IF err # NoError THEN "error" ELSE IF errCnt > 0 THEN "warn" ELSE "info"
        BY <3>1 DEF Flush, Level
      <3>3. Whole(timeline, errCnt)
        BY <1>1, <2>2 DEF TimelineInv
      <3> QED
        BY <1>1, <2>2, <3>1, <3>2, <3>3 DEF TimelineInv, Whole, HasTrace
    <2> QED
      BY <2>1, <2>2
  <1>7. ReplyInv'
    BY <1>1, <1>4 DEF ReplyInv
  <1> QED
    BY <1>3, <1>5, <1>6, <1>7

(* The keys of the map: some key that a code reaches is the greatest.       *)
LEMMA KeyForIsGreatest ==
    ASSUME errMap \in ErrMaps, NEW code \in Int, \E k \in DOMAIN errMap : code >= k
    PROVE  /\ errMap = DefaultMap
           /\ KeyFor(code) \in DOMAIN errMap
           /\ \A k \in DOMAIN errMap : code >= k => KeyFor(code) >= k
  <1> DEFINE reached == {k \in DOMAIN errMap : code >= k}
             Keys == {500000, 440000, 404000, 403000, 401000, 400000}
  <1>1. errMap = DefaultMap /\ DOMAIN errMap = Keys
    BY DEF ErrMaps, DefaultMap
  <1>2. reached \subseteq Keys /\ \E some : some \in reached
    BY <1>1
  <1> HIDE DEF reached
  <1>3. \E k \in reached : \A n \in reached : k >= n
    <2>1. SUFFICES ASSUME NEW S \in SUBSET Keys, NEW some \in S
                   PROVE  \E k \in S : \A n \in S : k >= n
      BY <1>1, <1>2
    <2>2. CASE 500000 \in S
      BY <2>2
    <2>3. CASE S \subseteq {440000, 404000, 403000, 401000, 400000} /\ 440000 \in S
      BY <2>3
    <2>4. CASE S \subseteq {404000, 403000, 401000, 400000} /\ 404000 \in S
      BY <2>4
    <2>5. CASE S \subseteq {403000, 401000, 400000} /\ 403000 \in S
      BY <2>5
    <2>6. CASE S \subseteq {401000, 400000} /\ 401000 \in S
      BY <2>6
    <2>7. CASE S \subseteq {400000}
      BY <2>7
    <2> QED
      BY <2>2, <2>3, <2>4, <2>5, <2>6, <2>7
  <1>4. KeyFor(code) = CHOOSE k \in reached : \A n \in reached : k >= n
    BY DEF KeyFor, Max, reached
  <1>5. KeyFor(code) \in reached /\ \A n \in reached : KeyFor(code) >= n
    BY <1>3, <1>4
  <1> QED
    BY <1>1, <1>5 DEF reached

(* The map gives a greater key no lower status, and every key an error's.   *)
LEMMA DefaultMapFacts ==
    \A k \in DOMAIN DefaultMap : /\ DefaultMap[k] \in 400 .. 500
                                 /\ \A n \in DOMAIN DefaultMap : k >= n => DefaultMap[k] >= DefaultMap[n]
  <1>1. DOMAIN DefaultMap = {500000, 440000, 404000, 403000, 401000, 400000}
    BY DEF DefaultMap
  <1>2. /\ DefaultMap[500000] = 500 /\ DefaultMap[440000] = 440 /\ DefaultMap[404000] = 404
        /\ DefaultMap[403000] = 403 /\ DefaultMap[401000] = 401 /\ DefaultMap[400000] = 400
    BY DEF DefaultMap
  <1> HIDE DEF DefaultMap
  <1> QED
    BY <1>1, <1>2

(* The status and the code that an error is answered with. *)
Reached(e) == {k \in DOMAIN errMap : e.code >= k}
Inside(e) == IF e.kind = "response" THEN e.inner ELSE e.kind
Fitting(e, status, code) ==
    /\ status \in 200 .. 599 /\ code \in Int
    /\ status < 400 => e.kind = "response" /\ e.status = status
    /\ Inside(e) \in {"echo404", "validation"} =>
          status = (IF Inside(e) = "echo404" THEN 404 ELSE 400) /\ code = 1000 * status
    /\ e.kind = "response" /\ Inside(e) \in {"errorw", "plain"} => status = e.status /\ code = e.code
    /\ e.kind = "errorw" => \A k \in Reached(e) : status >= errMap[k]
    /\ e.kind = "errorw" /\ Reached(e) # {} => code = e.code
    /\ e.kind = "errorw" /\ Reached(e) = {} => status = 500 /\ code = 500000

LEMMA ResponseOfFacts ==
    ASSUME errMap \in ErrMaps, NEW e \in Errors
    PROVE  Fitting(e, ResponseOf(e).status, ResponseOf(e).code)
  <1>1. CASE e.kind = "errorw" /\ Reached(e) # {}
    <2>1. e.code \in Int /\ Inside(e) = "errorw"
      BY <1>1, ErrorKinds DEF Inside
    <2>2. Converted(e) = [kind |-> "response", status |-> errMap[KeyFor(e.code)], code |-> e.code, inner |-> "errorw"]
      BY <1>1 DEF Converted, Reached
    <2>3. ResponseOf(e).status = errMap[KeyFor(e.code)] /\ ResponseOf(e).code = e.code
      BY <2>2 DEF ResponseOf
    <2>4. /\ errMap = DefaultMap /\ KeyFor(e.code) \in DOMAIN errMap
          /\ \A k \in DOMAIN errMap : e.code >= k => KeyFor(e.code) >= k
      BY <1>1, <2>1, KeyForIsGreatest DEF Reached
    <2>5. /\ errMap[KeyFor(e.code)] \in 400 .. 500
          /\ \A k \in Reached(e) : errMap[KeyFor(e.code)] >= errMap[k]
      BY <2>4, DefaultMapFacts DEF Reached
    <2> QED
      BY <1>1, <2>1, <2>3, <2>5 DEF Fitting
  <1>2. CASE ~(e.kind = "errorw" /\ Reached(e) # {})
    <2>1. Converted(e) = e
      BY <1>2 DEF Converted, Reached
    <2>2. CASE e.kind = "response"
      <3>1. e \in [kind : {"response"}, status : Statuses, code : Codes, inner : Inners] /\ Inside(e) = e.inner
        BY <2>2, ErrorKinds DEF Inside
      <3>2. e.status \in 200 .. 599 /\ e.code \in Int
        BY <3>1, RequestAssumption
      <3>3. CASE e.inner = "validation"
        <4>1. ResponseOf(e) = [e EXCEPT !.status = 400, !.code = 400000]
          BY <2>1, <2>2, <3>3 DEF ResponseOf
        <4>2. ResponseOf(e).status = 400 /\ ResponseOf(e).code = 400000
          BY <3>1, <4>1
        <4> QED
          BY <2>2, <3>1, <3>3, <4>2 DEF Fitting
      <3>4. CASE e.inner = "echo404"
        <4>1. ResponseOf(e) = [e EXCEPT !.status = 404, !.code = 404000]
          BY <2>1, <2>2, <3>4 DEF ResponseOf
        <4>2. ResponseOf(e).status = 404 /\ ResponseOf(e).code = 404000
          BY <3>1, <4>1
        <4> QED
          BY <2>2, <3>1, <3>4, <4>2 DEF Fitting
      <3>5. CASE e.inner \notin {"validation", "echo404"}
        <4>1. ResponseOf(e) = e
          BY <2>1, <2>2, <3>5 DEF ResponseOf
        <4> QED
          BY <2>2, <3>1, <3>2, <3>5, <4>1 DEF Fitting
      <3> QED
        BY <3>3, <3>4, <3>5
    <2>3. CASE e.kind # "response"
      <3> DEFINE made == [kind |-> "response", status |-> 500, code |-> 500000, inner |-> e.kind]
      <3>1. e.kind \in {"errorw", "echo404", "validation", "plain"} /\ Inside(e) = e.kind
        BY <2>3, ErrorKinds DEF Inside
      <3>2. ResponseOf(e) = CASE e.kind = "echo404"    -> [made EXCEPT !.status = 404, !.code = 404000]
                              [] e.kind = "validation" -> [made EXCEPT !.status = 400, !.code = 400000]
                              [] OTHER                 -> made
        BY <2>1, <2>3 DEF ResponseOf
      <3>3. /\ e.kind = "echo404" => ResponseOf(e).status = 404 /\ ResponseOf(e).code = 404000
            /\ e.kind = "validation" => ResponseOf(e).status = 400 /\ ResponseOf(e).code = 400000
            /\ e.kind \in {"errorw", "plain"} => ResponseOf(e).status = 500 /\ ResponseOf(e).code = 500000
        BY <3>2
      <3> QED
        BY <1>2, <2>3, <3>1, <3>3 DEF Fitting
    <2> QED
      BY <2>2, <2>3
  <1> QED
    BY <1>1, <1>2

LEMMA ErrorIsLast ==
    Append(<<>>, "error") = <<"error">> /\ Append(<<"success">>, "error") = <<"success", "error">>
  <1> DEFINE s == Append(<<"success">>, "error")
             t == <<"success", "error">>
  <1>1. s[1] = t[1] /\ s[2] = t[2]
    OBVIOUS
  <1>2. s = [i \in 1 .. 2 |-> s[i]] /\ t = [i \in 1 .. 2 |-> t[i]]
    <2>1. s \in Seq({"success", "error"}) /\ t \in Seq({"success", "error"}) /\ Len(s) = 2 /\ Len(t) = 2
      OBVIOUS
    <2> QED
      BY <2>1
  <1>3. \A i \in 1 .. 2 : s[i] = t[i]
    BY <1>1
  <1> HIDE DEF s, t
  <1>4. s = t
    BY <1>2, <1>3
  <1>5. Append(<<>>, "error") = <<"error">>
    OBVIOUS
  <1> QED
    BY <1>4, <1>5 DEF s, t

(* The error handler, or none: what goes out, behind what already had.      *)
LEMMA AnswerStep ==
    ASSUME RequestInv, Answer
    PROVE  RequestInv'
  <1> USE DEF RequestInv
  <1> DEFINE e == IF panicked THEN [kind |-> "plain"] ELSE err
             silent == ~panicked /\ err = NoError
  <1>1. /\ UNCHANGED <<order, errMap, header, requestId, traceId, err, panicked, span, timeline, errCnt, traceLog, accessLog>>
        /\ pc = "answer" /\ pc' \in {"done", "aborted"}
        /\ silent => pc' = "done" /\ reply' = reply
        /\ ~silent => HandleError(e)
    BY DEF Answer, HandleError
  <1>2. /\ reply \in Replies
        /\ reply.bodies = IF reply.sent THEN <<"success">> ELSE <<>>
        /\ silent => reply.sent
        /\ errMap \in ErrMaps /\ err \in Errors \cup {NoError} /\ (panicked => err = NoError)
    BY <1>1 DEF ReplyInv, RequestTypes
  <1>3. /\ e \in Errors \cup {NoError} /\ (~silent => e \in Errors)
    BY <1>2 DEF Errors
  <1> HIDE DEF e
  <1>4. /\ reply' \in Replies /\ reply'.id = reply.id
        /\ pc' = "aborted" => reply' = reply
        /\ ~silent /\ pc' = "done" =>
              \/ /\ reply'.bodies = <<"error">>
                 /\ reply'.status = ResponseOf(e).status /\ reply'.code = ResponseOf(e).code
              \/ reply'.bodies = <<"success", "error">> /\ reply'.status = reply.status
    <2>1. CASE silent
      BY <1>1, <1>2, <2>1
    <2>2. CASE ~silent /\ ResponseOf(e).inner = "nil"
      BY <1>1, <1>2, <2>2 DEF HandleError
    <2>3. CASE ~silent /\ ResponseOf(e).inner # "nil"
      <3> DEFINE status == IF reply.sent THEN reply.status ELSE ResponseOf(e).status
                 code == ResponseOf(e).code
                 bodies == Append(reply.bodies, "error")
      <3>1. ResponseOf(e).status \in 200 .. 599 /\ code \in Int
        BY <1>2, <1>3, <2>3, ResponseOfFacts DEF Fitting
      <3>2. reply' = [reply EXCEPT !.status = status, !.code = code, !.sent = TRUE, !.bodies = bodies]
        BY <1>1, <2>3 DEF HandleError
      <3>3. /\ status \in Nat /\ (~reply.sent => status = ResponseOf(e).status)
            /\ reply.sent => status = reply.status
        <4>1. ResponseOf(e).status \in Nat
          BY <3>1
        <4>2. reply.status \in Nat
          BY <1>2 DEF Replies
        <4> QED
          BY <4>1, <4>2
      <3>4. bodies = IF reply.sent THEN <<"success", "error">> ELSE <<"error">>
        BY <1>2, ErrorIsLast
      <3> HIDE DEF status, code, bodies
      <3>5. /\ reply' \in Replies /\ reply'.id = reply.id /\ reply'.status = status
            /\ reply'.code = code /\ reply'.bodies = bodies
        BY <1>2, <3>1, <3>2, <3>3, <3>4 DEF Replies
      <3> QED
        BY <1>1, <2>3, <3>3, <3>4, <3>5 DEF HandleError, code
    <2> QED
      BY <2>1, <2>2, <2>3
  <1>5. RequestTypes'
    BY <1>1, <1>4 DEF RequestTypes
  <1>6. IdInv'
    BY <1>1, <1>4 DEF IdInv, Traced, HasTrace
  <1>7. TimelineInv'
    BY <1>1 DEF TimelineInv, Whole, HasTrace
  <1>8. ReplyInv'
    <2>1. ResponseOf(err)' = ResponseOf(err)
      BY <1>1 DEF ResponseOf, Converted, KeyFor
    <2>2. pc' = "done" /\ ~panicked =>
             IF err = NoError THEN reply'.bodies = <<"success">>
             ELSE \/ /\ reply'.bodies = <<"error">>
                     /\ reply'.status = ResponseOf(err).status /\ reply'.code = ResponseOf(err).code
                  \/ reply'.bodies = <<"success", "error">>
      BY <1>1, <1>2, <1>4 DEF e
    <2>3. pc' # "done" => pc' = "aborted" /\ reply' = reply
      BY <1>1, <1>4
    <2>4. ASSUME accessLog.done
          PROVE  \/ accessLog.status = reply'.status
                 \/ /\ pc' = "done" /\ accessLog.status = 200 /\ err # NoError
                    /\ reply'.bodies = <<"error">>
      <3>1. ~panicked /\ accessLog.status = reply.status
        BY <1>1, <2>4 DEF ReplyInv
      <3>2. reply.sent \/ reply.status = 200
        BY <1>1 DEF ReplyInv
      <3>3. silent \/ pc' = "aborted" => reply'.status = reply.status
        BY <1>1, <1>4
      <3>4. CASE ~silent /\ pc' = "done" /\ reply.sent
        <4>1. reply'.bodies # <<"error">>
          <5>1. <<"success", "error">> # <<"error">> /\ Append(<<"success">>, "error") # <<"error">>
            BY OrderFacts, ErrorIsLast
          <5>2. reply'.bodies = Append(<<"success">>, "error")
            BY <1>1, <1>2, <3>4 DEF HandleError, Replies
          <5> QED
            BY <5>1, <5>2
        <4> QED
          BY <1>4, <3>1, <3>4, <4>1
      <3>5. CASE ~silent /\ pc' = "done" /\ ~reply.sent
        <4>1. reply'.bodies = <<"error">>
          BY <1>1, <1>2, <3>5, ErrorIsLast DEF HandleError, Replies
        <4> QED
          BY <3>1, <3>2, <3>5, <4>1
      <3> QED
        BY <1>1, <3>1, <3>3, <3>4, <3>5
    <2> QED
      BY <1>1, <1>2, <2>1, <2>2, <2>3, <2>4 DEF ReplyInv
  <1> QED
    BY <1>5, <1>6, <1>7, <1>8

LEMMA RequestNextInvariant == RequestInv /\ [RequestNext]_requestVars => RequestInv'
  <1> SUFFICES ASSUME RequestInv, [RequestNext]_requestVars
               PROVE  RequestInv'
    OBVIOUS
  <1>1. CASE MiddlewaresIn \/ SecondIn
    BY <1>1, InStep
  <1>2. ASSUME NEW s \in Spans, StartSpan(s) \/ FailSpan(s) \/ EndSpan(s)
        PROVE  RequestInv'
    BY <1>2, SpanStep
  <1>3. ASSUME NEW e \in Errors \cup {NoError}, NEW wrote \in {0, 200, 201}, Return(e, wrote)
        PROVE  RequestInv'
    BY <1>3, ReturnStep
  <1>4. CASE Panics
    BY <1>4, ReturnStep
  <1>5. CASE MiddlewaresOut \/ SecondOut
    BY <1>5, RequestOutStep
  <1>6. CASE Answer
    BY <1>6, AnswerStep
  <1>7. CASE UNCHANGED requestVars
    BY <1>7 DEF requestVars, RequestInv, RequestTypes, IdInv, TimelineInv, ReplyInv, Whole,
                HasTrace, Traced, ResponseOf, Converted, KeyFor
  <1> QED
    BY <1>1, <1>2, <1>3, <1>4, <1>5, <1>6, <1>7 DEF RequestNext

(* The ids, the trace and the answer of a request, in every state. *)
THEOREM RequestInvariance == RequestSpec => []RequestInv
  BY RequestInitInvariant, RequestNextInvariant, PTL DEF RequestSpec

(* middleware.go:48: with loggerw outside of tracer every id is the same,   *)
(* and the access log has the status of the answer, or 200 for a request    *)
(* whose error had still to be answered.                                    *)
THEOREM LogsAgreeHolds == RequestSpec => []LogsAgree
  <1>1. RequestInv => LogsAgree
    BY DEF RequestInv, LogsAgree, IdInv, ReplyInv
  <1> QED
    BY <1>1, RequestInvariance, PTL

(* trace.go:122 and 145: for any number of spans, ended in any goroutine,   *)
(* at any time and any number of times: the line of the trace has a record  *)
(* for each call of End before it, and no other.                            *)
THEOREM TraceIsWholeHolds == RequestSpec => []TraceIsWhole
  <1>1. RequestInv => TraceIsWhole
    <2> SUFFICES ASSUME RequestInv, traceLog.done
                 PROVE  TraceIsWhole
      BY DEF TraceIsWhole
    <2>1. /\ Whole(traceLog.spans, traceLog.errors)
          /\ traceLog.level = IF err # NoError THEN "error" ELSE IF traceLog.errors > 0 THEN "warn" ELSE "info"
      BY DEF RequestInv, TimelineInv
    <2>2. traceLog.level = "info" => traceLog.errors = 0
      <3>1. traceLog.errors \in Nat
        BY <2>1, PlacesAreFinite, FS_CardinalityType DEF Whole
      <3> QED
        BY <2>1, <3>1
    <2>3. traceLog.level = "error" <=> err # NoError
      BY <2>1
    <2>4. ASSUME pc = "done", ~panicked
          PROVE  err # NoError <=> "error" \in ToSet(reply.bodies)
      <3>1. /\ ToSet(<<"success">>) = {"success"} /\ ToSet(<<"error">>) = {"error"}
            /\ ToSet(<<"success", "error">>) = {"success", "error"}
        BY DEF ToSet
      <3> QED
        BY <2>4, <3>1 DEF RequestInv, ReplyInv
    <2> QED
      BY <2>1, <2>2, <2>3, <2>4 DEF TraceIsWhole, Whole
  <1> QED
    BY <1>1, RequestInvariance, PTL

(* echo_error.go:168 to 281: for every code and every status: an ErrorW is  *)
(* answered by what its code reaches, an ErrorResponse by the status and    *)
(* code it was made with, and only HTTPError can make an error a success.   *)
THEOREM ErrorsAreAnsweredHolds == RequestSpec => []ErrorsAreAnswered
  <1>1. RequestInv => ErrorsAreAnswered
    <2> SUFFICES ASSUME RequestInv, pc = "done", err # NoError, reply.bodies = <<"error">>
                 PROVE  ErrorsAreAnswered
      BY DEF ErrorsAreAnswered
    <2>1. err \in Errors /\ errMap \in ErrMaps /\ ~panicked
      BY DEF RequestInv, RequestTypes, ReplyInv
    <2>2. reply.status = ResponseOf(err).status /\ reply.code = ResponseOf(err).code
      <3>1. <<"success", "error">> # <<"error">>
        BY OrderFacts
      <3> QED
        BY <2>1, <3>1 DEF RequestInv, ReplyInv
    <2> QED
      BY <2>1, <2>2, ResponseOfFacts DEF ErrorsAreAnswered, Fitting, Inside, Reached
  <1> QED
    BY <1>1, RequestInvariance, PTL

-----------------------------------------------------------------------------
(* CopyNumbers. *)

LEMMA Halves ==
    ASSUME NEW f \in Int
    PROVE  /\ Truncated(f) \in Int
           /\ f >= 0 => Truncated(f) >= 0
           /\ f % 2 = 0 => f = 2 * Truncated(f) /\ Truncated(f) = f \div 2
           /\ (2 * f) % 2 = 0 /\ (2 * f) \div 2 = f
  <1>1. CASE f >= 0
    BY <1>1 DEF Truncated
  <1>2. CASE f < 0
    <2>1. Truncated(f) = -((-f) \div 2)
      BY <1>2 DEF Truncated, Abs
    <2>2. (-f) \div 2 \in Int
      OBVIOUS
    <2> QED
      BY <1>2, <2>1, <2>2
  <1> QED
    BY <1>1, <1>2

(* What wraps around ends up in the type, and stays what it is within it.   *)
LEMMA Wraps ==
    ASSUME NEW low \in Int, NEW size \in Nat \ {0}, NEW i \in Int
    PROVE  /\ Wrapped(i, low, size) \in low .. low + size - 1
           /\ i \in low .. low + size - 1 => Wrapped(i, low, size) = i
  <1> DEFINE j == i - low
  <1>1. j \in Int /\ Wrapped(i, low, size) = low + (j % size)
    BY DEF Wrapped
  <1>2. i \in low .. low + size - 1 => j \in 0 .. size - 1 /\ low + j = i
    OBVIOUS
  <1> HIDE DEF j
  <1>3. j % size \in 0 .. size - 1
    BY <1>1
  <1>4. j \in 0 .. size - 1 => j % size = j
    BY <1>1
  <1>5. j % size \in Int
    BY <1>3
  <1>6. low + (j % size) \in low .. low + size - 1
    BY <1>3, <1>5
  <1> QED
    BY <1>1, <1>2, <1>4, <1>6

LEMMA Tops ==
    ASSUME NEW kind
    PROVE  /\ Top(kind) \in Nat \ {0} /\ Top(kind) <= IntTop
           /\ ByteTop \in Nat \ {0} /\ IntTop \in Nat \ {0}
  BY NumbersAssumption DEF Top

LEMMA ToInt64Is ==
    ASSUME NEW arch \in Architectures, NEW f \in Int
    PROVE  /\ ToInt64(arch, f) \in Int
           /\ Truncated(f) \in -IntTop .. IntTop - 1 => ToInt64(arch, f) = Truncated(f)
  <1>1. Truncated(f) \in Int /\ IntTop \in Nat \ {0}
    BY Halves, Tops
  <1>2. CASE Truncated(f) \in -IntTop .. IntTop - 1
    BY <1>1, <1>2 DEF ToInt64
  <1>3. CASE Truncated(f) >= IntTop
    BY <1>1, <1>3 DEF ToInt64
  <1>4. CASE Truncated(f) < -IntTop
    BY <1>1, <1>4 DEF ToInt64
  <1> QED
    BY <1>1, <1>2, <1>3, <1>4

(* copy/struct.go:332 to 341 (numberToNumber): whatever the float is, and   *)
(* whatever the processor makes of one beyond int64, what is set is a value *)
(* of the integer type.                                                     *)
THEOREM IntegersFit ==
    ASSUME NEW arch \in Architectures, NEW kind \in IntKinds \cup {"uint8"}, NEW f \in Int
    PROVE  Fits(FloatToNumber(arch, kind, f), kind)
  <1>1. CASE kind \in IntKinds
    <2> DEFINE top == Top(kind)
               i == Wrapped(ToInt64(arch, f), -top, 2 * top)
    <2>0. /\ top \in Nat \ {0} /\ ToInt64(arch, f) \in Int
          /\ -top \in Int /\ 2 * top \in Nat \ {0} /\ -top + 2 * top = top
      BY ToInt64Is, Tops
    <2> HIDE DEF top
    <2>1. i \in -top .. top - 1
      BY <2>0, Wraps
    <2>2. FloatToNumber(arch, kind, f) = 2 * i
      BY <1>1 DEF FloatToNumber, IntKinds, top
    <2>3. i \in Int
      BY <2>0, <2>1
    <2> HIDE DEF i
    <2>4. (2 * i) % 2 = 0 /\ (2 * i) \div 2 = i
      BY <2>3, Halves
    <2> QED
      BY <1>1, <2>1, <2>2, <2>4 DEF Fits, IntKinds, top
  <1>2. CASE kind = "uint8"
    <2> DEFINE g == IF f < 0 THEN 0 ELSE f
               i == Wrapped(Truncated(g), 0, 2 * ByteTop)
    <2>1. g \in Int
      OBVIOUS
    <2>2. FloatToNumber(arch, kind, f) = 2 * i
      BY <1>2 DEF FloatToNumber, IntKinds
    <2> HIDE DEF g
    <2>3. i \in 0 .. 2 * ByteTop - 1
      <3> DEFINE size == 2 * ByteTop
      <3>1. Truncated(g) \in Int
        BY <2>1, Halves
      <3>2. size \in Nat \ {0}
        BY Tops
      <3> HIDE DEF size
      <3>3. Wrapped(Truncated(g), 0, size) \in 0 .. 0 + size - 1
        BY <3>1, <3>2, Wraps
      <3>4. 0 + size - 1 = size - 1
        BY <3>2
      <3> QED
        BY <3>3, <3>4 DEF size
    <2>4. i \in Int
      <3>1. ByteTop \in Nat
        BY Tops
      <3> QED
        BY <2>3, <3>1
    <2> HIDE DEF i
    <2>5. (2 * i) % 2 = 0 /\ (2 * i) \div 2 = i
      BY <2>4, Halves
    <2> QED
      BY <1>2, <2>2, <2>3, <2>5 DEF Fits, IntKinds
  <1> QED
    BY <1>1, <1>2

(* A number that both types have comes through unchanged. *)
LEMMA NumberKept ==
    ASSUME NEW arch \in Architectures, NEW from \in NumberKinds \cup {"string"},
           NEW kind \in NumberKinds, NEW n \in Int, Fits(n, kind), Rounded(n) = n
    PROVE  NumberToNumber(arch, kind, from, n) = n
  <1>1. NumberToNumber(arch, kind, from, n) = FloatToNumber(arch, kind, n)
    BY DEF NumberToNumber
  <1>2. CASE kind \in IntKinds
    <2>1. n % 2 = 0 /\ n \div 2 \in -Top(kind) .. Top(kind) - 1
      BY <1>2 DEF Fits, IntKinds
    <2>2. n = 2 * Truncated(n) /\ Truncated(n) \in -Top(kind) .. Top(kind) - 1 /\ Truncated(n) \in Int
      BY <2>1, Halves
    <2>3. ToInt64(arch, n) = Truncated(n)
      BY <2>2, Tops, ToInt64Is
    <2>4. Wrapped(ToInt64(arch, n), -Top(kind), 2 * Top(kind)) = Truncated(n)
      <3> DEFINE top == Top(kind)
      <3>1. /\ top \in Nat \ {0} /\ -top \in Int /\ 2 * top \in Nat \ {0}
            /\ -top + 2 * top = top
        BY Tops
      <3>2. Truncated(n) \in -top .. top - 1
        BY <2>2
      <3> HIDE DEF top
      <3>3. Wrapped(Truncated(n), -top, 2 * top) = Truncated(n)
        BY <2>2, <3>1, <3>2, Wraps
      <3> QED
        BY <2>3, <3>3 DEF top
    <2> QED
      BY <1>1, <1>2, <2>2, <2>4 DEF FloatToNumber, IntKinds
  <1>3. CASE kind = "uint8"
    <2>1. n % 2 = 0 /\ n \div 2 \in 0 .. 2 * ByteTop - 1
      BY <1>3 DEF Fits, IntKinds
    <2>2. n = 2 * Truncated(n) /\ Truncated(n) \in 0 .. 2 * ByteTop - 1 /\ Truncated(n) \in Int
      BY <2>1, Halves
    <2>3. ~(n < 0)
      BY <2>2
    <2>4. Wrapped(Truncated(n), 0, 2 * ByteTop) = Truncated(n)
      <3> DEFINE size == 2 * ByteTop
      <3>1. size \in Nat \ {0}
        BY Tops
      <3> HIDE DEF size
      <3>2. Truncated(n) \in 0 .. 0 + size - 1
        BY <2>2, <3>1 DEF size
      <3>3. Wrapped(Truncated(n), 0, size) = Truncated(n)
        BY <2>2, <3>1, <3>2, Wraps
      <3> QED
        BY <3>3 DEF size
    <2> QED
      BY <1>1, <1>3, <2>2, <2>3, <2>4 DEF FloatToNumber, IntKinds
  <1>4. CASE kind = "float64"
    BY <1>1, <1>4 DEF FloatToNumber, IntKinds
  <1> QED
    BY <1>2, <1>3, <1>4 DEF NumberKinds

(* copy/struct.go:313 to 346 (numberToNumber): a number that both types and *)
(* a float64 can hold comes through unchanged, there and back, for integers *)
(* and floats of any size.                                                  *)
THEOREM NumbersComeBack ==
    ASSUME NEW arch \in Architectures, NEW from \in NumberKinds, NEW kind \in NumberKinds,
           NEW n \in Int, Fits(n, from), Fits(n, kind), Rounded(n) = n
    PROVE  /\ NumberToNumber(arch, kind, from, n) = n
           /\ NumberToNumber(arch, from, kind, NumberToNumber(arch, kind, from, n)) = n
  BY NumberKept
=============================================================================
