---------------------------- MODULE StateMachine ----------------------------
(***************************************************************************)
(* The rule engine of v2/statemachinew/fsm.go.  On puts an empty rule into *)
(* the map and returns a builder that fills it, without the lock, while    *)
(* other goroutines may Fire.  Rules are objects the map points to: a      *)
(* second On for an event replaces the rule in the map, not in the hands   *)
(* of a Fire that looked it up.  Lists of hooks are modelled by their      *)
(* lengths, what a hook returns is nondeterministic.                       *)
(***************************************************************************)
EXTENDS Integers, Sequences

CONSTANTS
    Events, States, Firers,
    ZeroState,      \* the empty State, which no caller uses
    MaxRules,       \* bound: calls of On
    MaxHooks        \* bound: hooks of a kind

ASSUME FsmAssumption ==
    ZeroState \notin States /\ MaxRules \in Nat /\ MaxHooks \in Nat

VARIABLES
    rules,      \* the rule of each event; 0 if it has none
    rule,       \* the rule objects made so far
    finished,   \* rules whose builder is not used any more
    fire        \* the calls of Fire

fsmVars == <<rules, rule, finished, fire>>

EmptyRule == [from |-> {}, to |-> ZeroState, guards |-> 0, pre |-> 0, post |-> 0]
NoFire == [pc |-> "idle"]

FsmInit ==
    /\ rules = [e \in Events |-> 0] /\ rule = <<>> /\ finished = {}
    /\ fire = [f \in Firers |-> NoFire]

-----------------------------------------------------------------------------
(* Building rules. *)

On(e) ==
    /\ Len(rule) < MaxRules
    /\ rule' = Append(rule, EmptyRule)
    /\ rules' = [rules EXCEPT ![e] = Len(rule) + 1]
    /\ UNCHANGED <<finished, fire>>

From(r, s) == rule' = [rule EXCEPT ![r].from = @ \cup {s}]
To(r, s)   == rule' = [rule EXCEPT ![r].to = s]
Guard(r)   == rule[r].guards < MaxHooks /\ rule' = [rule EXCEPT ![r].guards = @ + 1]
Pre(r)     == rule[r].pre < MaxHooks /\ rule' = [rule EXCEPT ![r].pre = @ + 1]
Post(r)    == rule[r].post < MaxHooks /\ rule' = [rule EXCEPT ![r].post = @ + 1]

(* A call of the builder of rule r. *)
Build(r) ==
    /\ r \in DOMAIN rule \ finished
    /\ \/ \E s \in States : From(r, s) \/ To(r, s)
       \/ Guard(r) \/ Pre(r) \/ Post(r)
    /\ UNCHANGED <<rules, finished, fire>>

(* The caller is through with a builder. *)
Finish(r) ==
    /\ r \in DOMAIN rule \ finished /\ rule[r].to # ZeroState
    /\ finished' = finished \cup {r}
    /\ UNCHANGED <<rules, rule, fire>>

-----------------------------------------------------------------------------
(* Fire. *)

FireReturns(f, outcome, state) ==
    fire' = [fire EXCEPT ![f].pc = "returned", ![f].outcome = outcome, ![f].state = state]

(* The rule is looked up under the lock, and read without it afterwards. *)
Lookup(f, e, s) ==
    /\ fire[f].pc = "idle"
    /\ fire' = [fire EXCEPT ![f] =
                  [pc |-> IF rules[e] = 0 THEN "returned" ELSE "check",
                   event |-> e, rule |-> rules[e], from |-> s, left |-> 0,
                   passed |-> [guards |-> 0, pre |-> 0, post |-> 0],
                   outcome |-> "unknown", state |-> s,
                   whole |-> rules[e] \in finished]]
    /\ UNCHANGED <<rules, rule, finished>>

Check(f) ==
    LET r == rule[fire[f].rule] IN
    /\ fire[f].pc = "check"
    /\ IF fire[f].from \in r.from
       THEN fire' = [fire EXCEPT ![f].pc = "guards", ![f].left = r.guards]
       ELSE FireReturns(f, "invalid", fire[f].from)
    /\ UNCHANGED <<rules, rule, finished>>

(* A guard, pre- or post-hook: the first that fails ends Fire, with the     *)
(* state the entity had, or for a post-hook with the new one.               *)
Hook(f, ok) ==
    LET c == fire[f] IN
    /\ c.pc \in {"guards", "pre", "post"} /\ c.left > 0
    /\ IF ok THEN fire' = [fire EXCEPT ![f].left = @ - 1, ![f].passed[c.pc] = @ + 1]
       ELSE IF c.pc = "post" THEN FireReturns(f, "post", c.state) ELSE FireReturns(f, c.pc, c.from)
    /\ UNCHANGED <<rules, rule, finished>>

(* Fault: the rule is looked up a second time for the new state. *)
HooksDoneLookedUpAgain(f) ==
    LET c == fire[f]
        r == rule[c.rule] IN
    /\ c.pc \in {"guards", "pre", "post"} /\ c.left = 0
    /\ CASE c.pc = "guards" -> fire' = [fire EXCEPT ![f].pc = "pre", ![f].left = r.pre]
         [] c.pc = "pre" -> fire' = [fire EXCEPT ![f].pc = "post", ![f].left = r.post,
                                                 ![f].state = rule[rules[c.event]].to]
         [] c.pc = "post" -> FireReturns(f, "ok", c.state)
    /\ UNCHANGED <<rules, rule, finished>>

(* All hooks of a kind passed.  After the pre-hooks the state changes. *)
HooksDone(f) ==
    LET c == fire[f]
        r == rule[c.rule] IN
    /\ c.pc \in {"guards", "pre", "post"} /\ c.left = 0
    /\ CASE c.pc = "guards" -> fire' = [fire EXCEPT ![f].pc = "pre", ![f].left = r.pre]
         [] c.pc = "pre" -> fire' = [fire EXCEPT ![f].pc = "post", ![f].left = r.post,
                                                 ![f].state = r.to]
         [] c.pc = "post" -> FireReturns(f, "ok", c.state)
    /\ UNCHANGED <<rules, rule, finished>>

Fire(f) ==
    \/ \E e \in Events, s \in States : Lookup(f, e, s)
    \/ Check(f) \/ HooksDone(f)
    \/ \E ok \in BOOLEAN : Hook(f, ok)

(* Bounds: rules made after the last Fire returned, and what is built of a  *)
(* rule that no Fire holds or will look up, meet nobody.                    *)
SomeFireToCome == \E f \in Firers : fire[f].pc # "returned"
Met(r) ==
    \E f \in Firers : IF fire[f].pc = "idle" THEN \E e \in Events : rules[e] = r
                      ELSE fire[f].pc # "returned" /\ fire[f].rule = r

FsmNext ==
    \/ SomeFireToCome /\ \E e \in Events : On(e)
    \/ \E r \in 1 .. MaxRules : Met(r) /\ (Build(r) \/ Finish(r))
    \/ \E f \in Firers : Fire(f)

FsmSpec == FsmInit /\ [][FsmNext]_fsmVars

-----------------------------------------------------------------------------
(* Properties. *)

(* What Fire promises of one rule: guards, pre-hooks, state change and      *)
(* post-hooks in this order, each begun only when all before it passed.     *)
Promise(r, c) ==
    LET all == c.passed.guards = r.guards /\ c.passed.pre = r.pre IN
    CASE c.outcome = "unknown" -> FALSE
      [] c.outcome = "invalid" -> c.from \notin r.from /\ c.state = c.from
      [] c.outcome = "guards"  -> /\ c.from \in r.from /\ c.state = c.from
                                  /\ c.passed.guards < r.guards
                                  /\ c.passed.pre = 0 /\ c.passed.post = 0
      [] c.outcome = "pre"     -> /\ c.from \in r.from /\ c.state = c.from
                                  /\ c.passed.guards = r.guards
                                  /\ c.passed.pre < r.pre /\ c.passed.post = 0
      [] c.outcome = "post"    -> c.from \in r.from /\ c.state = r.to /\ all /\ c.passed.post < r.post
      [] c.outcome = "ok"      -> c.from \in r.from /\ c.state = r.to /\ all /\ c.passed.post = r.post

Left(c, kind) == IF c.pc = kind THEN c.left ELSE 0

(* What holds of a rule that is still being built too: it only grows, the   *)
(* state was one of its, no hook ran that it does not have, and none of a   *)
(* kind before the kinds before it were through.                            *)
Within(r, c) ==
    LET p == c.passed IN
    /\ c.pc # "check" /\ c.outcome # "invalid" => c.from \in r.from
    /\ c.pc = "check" \/ c.outcome = "invalid" => p.guards = 0
    /\ c.pc \in {"check", "guards"} \/ c.outcome \in {"invalid", "guards"} => p.pre = 0
    /\ c.pc \in {"check", "guards", "pre"} \/ c.outcome \in {"invalid", "guards", "pre"} => p.post = 0
    /\ p.guards + Left(c, "guards") <= r.guards
    /\ p.pre + Left(c, "pre") <= r.pre
    /\ p.post + Left(c, "post") <= r.post

(* fsm.go:37 to 38 under concurrency: a Fire that looked up a finished rule *)
(* keeps the promise of that one rule, even if On replaces it meanwhile.    *)
(* A Fire that met a half-built one (fsm.go:87 publishes it empty) may miss *)
(* guards and hooks added later, and no more: it changes the state only     *)
(* from one the rule allows and runs its hooks in order.  Whatever rule it  *)
(* meets, an entity that is refused keeps its state, and a state that no    *)
(* rule names comes only from a rule whose To was still to be called.       *)
FireIsOfOneRule ==
    \A f \in Firers :
        LET c == fire[f] IN
        c.pc = "returned" =>
            /\ c.rule # 0 => Within(rule[c.rule], c)
            /\ c.rule # 0 /\ c.whole => Promise(rule[c.rule], c)
            /\ c.outcome \notin {"ok", "post"} => c.state = c.from
            /\ c.state = ZeroState => ~c.whole /\ rules[c.event] # 0

-----------------------------------------------------------------------------
(* The inductive invariant. *)

Rule == [from : SUBSET States, to : States \cup {ZeroState}, guards : Nat, pre : Nat, post : Nat]
Passed == [guards : Nat, pre : Nat, post : Nat]
Outcomes == {"unknown", "invalid", "guards", "pre", "post", "ok"}
Call == [pc : {"check", "guards", "pre", "post", "returned"}, event : Events, rule : Nat,
         from : States, left : Nat, passed : Passed, outcome : Outcomes,
         state : States \cup {ZeroState}, whole : BOOLEAN]

(* Rules and calls have the shape of their Go counterparts; a finished rule *)
(* names its new state.                                                     *)
FsmTypeOK ==
    /\ rule \in Seq(Rule) /\ rules \in [Events -> 0 .. Len(rule)]
    /\ finished \subseteq DOMAIN rule /\ \A r \in finished : rule[r].to # ZeroState
    /\ DOMAIN fire = Firers /\ \A f \in Firers : fire[f] = NoFire \/ fire[f] \in Call

(* A call holds a rule, until it returns without one, and its event has one.*)
HeldInv ==
    \A f \in Firers :
        LET c == fire[f] IN
        c # NoFire =>
            /\ c.rule \in 0 .. Len(rule)
            /\ c.rule = 0 => c.pc = "returned" /\ ~c.whole
            /\ c.rule # 0 => rules[c.event] # 0
            /\ c.whole => c.rule \in finished
            /\ c.rule = 0 \/ c.pc \in {"check", "guards", "pre"} => c.state = c.from
            /\ c.pc # "returned" => c.outcome = "unknown"
            /\ c.pc = "returned" /\ c.outcome \notin {"ok", "post"} => c.state = c.from
            /\ c.state = ZeroState => c.rule # 0 /\ ~c.whole

(* How far a call of a finished rule is. *)
Progress(r, c) ==
    LET p == c.passed IN
    CASE c.pc = "check"    -> p.guards = 0 /\ p.pre = 0 /\ p.post = 0
      [] c.pc = "guards"   -> /\ c.from \in r.from /\ p.guards + c.left = r.guards
                              /\ p.pre = 0 /\ p.post = 0
      [] c.pc = "pre"      -> /\ c.from \in r.from /\ p.guards = r.guards
                              /\ p.pre + c.left = r.pre /\ p.post = 0
      [] c.pc = "post"     -> /\ c.from \in r.from /\ p.guards = r.guards /\ p.pre = r.pre
                              /\ p.post + c.left = r.post /\ c.state = r.to
      [] c.pc = "returned" -> Promise(r, c)

ProgressInv ==
    \A f \in Firers :
        fire[f] # NoFire /\ fire[f].whole => Progress(rule[fire[f].rule], fire[f])

WithinInv ==
    \A f \in Firers :
        fire[f] # NoFire /\ fire[f].rule # 0 => Within(rule[fire[f].rule], fire[f])

FsmInv == FsmTypeOK /\ HeldInv /\ ProgressInv /\ WithinInv
=============================================================================
