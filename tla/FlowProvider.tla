------------------------------ MODULE FlowProvider ------------------------------
(***************************************************************************)
(* A Skill Flow from its SKILL.md to its end: the provider that loads the   *)
(* file (workflow/definition-provider.ts), the analyzer that searches its   *)
(* graph (skills/flow-analyzer.ts), the linter (skills/flow-lint.ts), and   *)
(* the walk of the runner over what was loaded (workflow/runner.ts).        *)
(*                                                                          *)
(* The file can be edited and the server redeployed with another registry   *)
(* at any time the definition is not in memory; "case" says with what.      *)
(* WorkflowRunner has the persistence of the walk: here a step of it is     *)
(* taken whole.                                                             *)
(***************************************************************************)
EXTENDS FlowDocument

CONSTANTS
  Cases,      \* [doc, env, flow, later, then]: what is loaded, and replaces it
  MaxSteps    \* MAX_FLOW_STEPS

VARIABLES
  case,  \* the case at hand
  file,  \* the SKILL.md there is, or None
  env,   \* the registry and the configuration of the process
  load,  \* the call of load, reload or lintSkillFlow in progress
  exec,  \* the execution: its durable state, and the definition in memory
  lint   \* what flow:lint said last

vars == <<case, file, env, load, exec, lint>>

ASSUME StepsAreCounted == MaxSteps \in Nat

ASSUME CasesAreRegistered == \A c \in Cases : Registers(c.env) /\ Registers(c.then)

(* The lines of a document are numbered, there is a last one, and a count is *)
(* a number.                                                                 *)
Numbered(doc) ==
  doc # None =>
    /\ DOMAIN doc \subseteq Nat /\ IsFiniteSet(DOMAIN doc)
    /\ \A i \in DOMAIN doc : doc[i].is = "attr" /\ NameOf(doc, i) = "required" => doc[i].value \in Nat

(* A heading names something, or nothing; in lower case a name is one still. *)
Named(doc) ==
  doc # None => \A i \in Headings(doc) : doc[i].id \in DOMAIN Lower \cup {None}

ASSUME NamesStayNames == \A name \in DOMAIN Lower : Lower[name] # None

Counted(server) ==
  \A r \in DOMAIN server.reviews :
    LET review == server.reviews[r] IN
    /\ {"roles", "strategy", "count", "initiator"} \subseteq DOMAIN review
    /\ review.count \in Nat /\ IsFiniteSet(review.roles)

ASSUME CasesAreTyped ==
  \A c \in Cases :
    /\ Numbered(c.doc) /\ Numbered(c.later) /\ Named(c.doc) /\ Named(c.later)
    /\ Counted(c.env) /\ Counted(c.then)

Idle == [phase |-> "idle", purpose |-> None, doc |-> None, def |-> None, issues |-> {},
         seen |-> {}, todo |-> {}, reachable |-> {}]

NoExecution == [status |-> "none", doc |-> None, def |-> None, current |-> None,
                steps |-> 0, threw |-> FALSE]

Init ==
  /\ case \in Cases
  /\ file = case.doc /\ env = case.env
  /\ load = Idle /\ exec = NoExecution /\ lint = None

-------------------------------------------------------------------------------
(* load: the file is read, parsed and validated.                             *)

Asked(purpose) == IF purpose = "lint" THEN None ELSE case.flow

(* The linter passes over a file without a trace of a flow.                  *)
SkipsWithoutBlocks(doc) == Blocks(doc) = {}
Skips(doc) == Blocks(doc) = {} /\ ParseIssues(doc) = {}

CanBegin(purpose) ==
  CASE purpose = "prepare" -> exec.status = "none"
    [] purpose = "run" -> exec.status \in {"prepared", "decided"}
    [] purpose = "lint" -> lint = None /\ file # None /\ exec.status = "none"

Begin(purpose) ==
  LET issues == Validate(file, env, Asked(purpose))
      called == [Idle EXCEPT !.purpose = purpose, !.doc = file]
  IN
  /\ load.phase = "idle"
  /\ CanBegin(purpose)
  /\ load' = IF file = None
               THEN [called EXCEPT !.phase = "answer", !.issues = {Issue("skill-missing", 0)}]
             ELSE IF purpose = "lint" /\ Skips(file)
               THEN [called EXCEPT !.phase = "answer"]
             ELSE IF Blocking(issues)
               THEN [called EXCEPT !.phase = "answer", !.issues = issues]
             ELSE [called EXCEPT !.phase = "forward", !.def = Definition(file, env),
                            !.issues = issues, !.todo = {Start(file)}]
  /\ UNCHANGED <<case, file, env, exec, lint>>

-------------------------------------------------------------------------------
(* analyzeFlow: a search from the start, and one backwards from the ends.    *)

Edges(def, n) ==
  IF n \in DOMAIN def.nodes
    THEN {r.to : r \in def.nodes[n].routes} \cap (DOMAIN def.nodes \cup Inherited)
    ELSE {}

Before(def, n) == {m \in DOMAIN def.nodes : n \in Edges(def, m)}

Ends(def) == {n \in DOMAIN def.nodes : def.nodes[n].type \in Terminal}

NeighboursAhead(n) == Edges(load.def, n)
Neighbours(n) ==
  IF load.phase = "forward" THEN Edges(load.def, n) ELSE Before(load.def, n)

(* bfs: a node that was seen is passed over when it comes up again.          *)
Enqueue(n) == IF n \in load.seen THEN {} ELSE Neighbours(n)

Visit(n) ==
  /\ load.phase \in {"forward", "backward"} /\ n \in load.todo
  /\ load' = [load EXCEPT !.seen = @ \cup {n}, !.todo = (@ \ {n}) \cup Enqueue(n)]
  /\ UNCHANGED <<case, file, env, exec, lint>>

Unreachable == {n \in DOMAIN load.def.nodes : n \notin load.seen}

(* reverse.get(to)! has no entry for a name that is only inherited.          *)
ReverseThrows == \E n \in DOMAIN load.def.nodes : Edges(load.def, n) \cap Inherited # {}

EndForward ==
  /\ load.phase = "forward" /\ load.todo = {}
  /\ load' = IF ReverseThrows
               THEN [load EXCEPT !.phase = "answer", !.issues = {Issue("thrown", 0)}]
               ELSE [load EXCEPT
                 !.phase = "backward", !.seen = {}, !.todo = Ends(load.def),
                 !.reachable = load.seen,
                 !.issues = @ \cup Issues("node-unreachable",
                                          {load.def.nodes[n].line : n \in Unreachable})]
  /\ UNCHANGED <<case, file, env, exec, lint>>

NeverDead == {}
DeadEnds == {n \in DOMAIN load.def.nodes : n \in load.reachable /\ n \notin load.seen}

EndBackward ==
  /\ load.phase = "backward" /\ load.todo = {}
  /\ load' = [load EXCEPT
       !.phase = "answer",
       !.issues = @ \cup Issues("no-terminal-path", {load.def.nodes[n].line : n \in DeadEnds})
                    \cup (IF \E n \in DOMAIN load.def.nodes : load.def.nodes[n].type = "end" THEN {}
                          ELSE {Issue("no-success-path", 0)})]
  /\ UNCHANGED <<case, file, env, exec, lint>>

-------------------------------------------------------------------------------
(* The answers.                                                              *)

Ok == ~Blocking(load.issues)

Answer(purpose) == load.phase = "answer" /\ load.purpose = purpose /\ load' = Idle

(* prepare, and start: the execution is created with the hash of the file.   *)
Prepare ==
  /\ Answer("prepare")
  /\ exec' = IF Ok
               THEN [exec EXCEPT !.status = "prepared", !.doc = load.doc, !.current = Start(load.doc)]
               ELSE [exec EXCEPT !.status = "refused", !.doc = load.doc]
  /\ UNCHANGED <<case, file, env, lint>>

AnySource(doc) == TRUE
SameSource(doc) == doc = exec.doc

(* reload, for run() and for resumeFromTask().                               *)
Reload ==
  /\ Answer("run")
  /\ exec' = IF Ok /\ SameSource(load.doc)
               THEN [exec EXCEPT !.status = IF @ = "decided" THEN "resumed" ELSE "running",
                                 !.def = load.def]
               ELSE [exec EXCEPT !.status = "failed"]
  /\ UNCHANGED <<case, file, env, lint>>

Lint ==
  /\ Answer("lint")
  /\ lint' = [doc |-> load.doc, env |-> env, ok |-> Ok]
  /\ UNCHANGED <<case, file, env, exec>>

-------------------------------------------------------------------------------
(* The walk: loop(), and the steps it takes at a node.                       *)

Node == exec.def.nodes[exec.current]

(* findRoute takes the first route of that outcome.                          *)
RoutesOn(outcome) == {r \in Node.routes : r.on = outcome}
FindRoute(outcome) ==
  (CHOOSE r \in RoutesOn(outcome) : \A q \in RoutesOn(outcome) : r.line <= q.line).to

Follow(outcome) ==
  exec' = IF RoutesOn(outcome) = {}
            THEN [exec EXCEPT !.status = "stuck", !.def = None]
            ELSE [exec EXCEPT !.status = "running", !.current = FindRoute(outcome),
                              !.steps = @ + 1]

AtNode(type) ==
  /\ exec.status = "running" /\ exec.steps < MaxSteps
  /\ exec.current \in DOMAIN exec.def.nodes /\ Node.type = type

Walks == UNCHANGED <<case, file, env, load, lint>>

(* runTaskStep, and runCommandStep when the policy decides by itself.        *)
Step(type) ==
  /\ AtNode(type) /\ type \in {"task", "command"}
  /\ \E outcome \in {"success", "fail"} : Follow(outcome)
  /\ Walks

(* runGateStep: evaluate() gives an outcome it is registered with.           *)
Gate ==
  /\ AtNode("gate")
  /\ \E outcome \in env.gates[exec.current] : Follow(outcome)
  /\ Walks

(* evaluate() throws: the outcome is "fail", registered or not.              *)
GateThrows ==
  /\ AtNode("gate")
  /\ exec' = IF RoutesOn("fail") = {}
               THEN [exec EXCEPT !.status = "stuck", !.def = None, !.threw = TRUE]
               ELSE [exec EXCEPT !.current = FindRoute("fail"), !.steps = @ + 1]
  /\ Walks

(* A human task is created, unless nobody could decide it; the definition in *)
(* memory is gone.                                                           *)
NobodyDecides ==
  Node.type = "review" /\ NarrowRoles(BasePolicy(env.reviews[exec.current]), Node.attrs) = {}

Pause(type) ==
  /\ AtNode(type) /\ type \in {"review", "command"}
  /\ exec' = [exec EXCEPT !.status = IF NobodyDecides THEN "failed" ELSE "waiting", !.def = None]
  /\ Walks

Decide ==
  /\ exec.status = "waiting"
  /\ exec' = [exec EXCEPT !.status = "decided"]
  /\ UNCHANGED <<case, file, env, load, lint>>

Resume ==
  /\ exec.status = "resumed"
  /\ \E outcome \in NodeOutcomes[Node.type] : Follow(outcome)
  /\ Walks

(* The command changed since: it is put to a human again.  The task expired  *)
(* or was cancelled: there is no outcome to route.                           *)
AskAgain ==
  /\ exec.status = "resumed" /\ Node.type = "command"
  /\ exec' = [exec EXCEPT !.status = "waiting", !.def = None]
  /\ Walks

Unresumable ==
  /\ exec.status = "resumed"
  /\ exec' = [exec EXCEPT !.status = "failed", !.def = None]
  /\ Walks

Finish ==
  /\ exec.status = "running" /\ exec.steps < MaxSteps
  /\ exec.current \in DOMAIN exec.def.nodes /\ Node.type \in Terminal
  /\ exec' = [exec EXCEPT !.status = "done", !.def = None]
  /\ Walks

(* A node that is not there, or, for an inherited name, is no node at all.   *)
NoNode ==
  /\ exec.status = "running" /\ exec.steps < MaxSteps
  /\ exec.current \notin DOMAIN exec.def.nodes
  /\ exec' = [exec EXCEPT !.status = "stuck", !.def = None]
  /\ Walks

TooManySteps ==
  /\ exec.status = "running" /\ exec.steps >= MaxSteps
  /\ exec' = [exec EXCEPT !.status = "failed", !.def = None]
  /\ Walks

-------------------------------------------------------------------------------
(* Somebody edits or removes the file; the server comes back with another    *)
(* registry, which only matters while it holds no definition.                *)

Edit ==
  /\ file = case.doc /\ file # case.later
  /\ file' = case.later
  /\ UNCHANGED <<case, env, load, exec, lint>>

Redeploy ==
  /\ load.phase = "idle" /\ exec.status \notin {"running", "resumed"}
  /\ env = case.env /\ env # case.then
  /\ env' = case.then
  /\ UNCHANGED <<case, file, load, exec, lint>>

Loading ==
  \/ \E n \in load.todo : Visit(n)
  \/ EndForward \/ EndBackward \/ Prepare \/ Reload \/ Lint

Walking ==
  \/ \E type \in NodeTypes : Step(type) \/ Pause(type)
  \/ Gate \/ GateThrows \/ Resume \/ AskAgain \/ Unresumable \/ Finish \/ NoNode \/ TooManySteps

Next ==
  \/ \E purpose \in {"prepare", "run", "lint"} : Begin(purpose)
  \/ Loading \/ Walking \/ Decide \/ Edit \/ Redeploy

Spec == Init /\ [][Next]_vars

-------------------------------------------------------------------------------
(* The state is of its types.                                                *)
TypeOK ==
  /\ file \in {case.doc, case.later} /\ env \in {case.env, case.then}
  /\ load.phase \in {"idle", "forward", "backward", "answer"}
  /\ load.phase = "idle" => load = Idle
  /\ exec.status \in {"none", "refused", "prepared", "running", "waiting", "decided",
                      "resumed", "done", "failed", "stuck"}
  /\ exec.status \notin {"running", "resumed"} => exec.def = None
  /\ exec.steps \in 0 .. MaxSteps
  /\ exec.status \in {"waiting", "decided", "resumed"} => exec.steps < MaxSteps

(* A walk never stops for want of a node or of a route, whatever its nodes   *)
(* give, because the file was checked when it was loaded.  Two ways out are  *)
(* left open by the code and excepted here: a gate that throws gives "fail"  *)
(* though it may be registered without, and an inherited name passes for a   *)
(* node.  A third is outside the model: a gate whose evaluate() returns an   *)
(* outcome it did not declare (Gate takes the deployment at its word).       *)
NeverStuck == exec.status = "stuck" => exec.threw \/ exec.current \in Inherited

(* From where a walk stands there is always a way to an end (no loop without *)
(* exit): the node is in every set that has the ends and all nodes before    *)
(* its members.                                                              *)
CanFinish ==
  exec.def # None /\ exec.current \notin Inherited =>
    \A S \in SUBSET DOMAIN exec.def.nodes :
      Ends(exec.def) \subseteq S /\ (\A n \in S : Before(exec.def, n) \subseteq S)
        => exec.current \in S

(* The two searches find what they are for: the nodes in every set closed    *)
(* under the edges that holds what the search started from.                  *)
Closure(from, next(_), all) ==
  LET closed == {S \in SUBSET all : from \subseteq S /\ \A m \in S : next(m) \subseteq S}
  IN {n \in all : \A S \in closed : n \in S}

SearchIsReachability ==
  LET def == load.def
      all == DOMAIN def.nodes \cup Inherited
      after(n) == Edges(def, n)
      before(n) == Before(def, n)
  IN load.todo = {} =>
       /\ load.phase = "forward" => load.seen = Closure({Start(load.doc)}, after, all)
       /\ load.phase = "backward" =>
            /\ load.seen = Closure(Ends(def), before, all)
            /\ load.reachable = Closure({Start(load.doc)}, after, all)

(* What is walked is the file the execution was created from, whoever edited *)
(* it since, as the process that walks it understands it.                    *)
RunsWhatWasPrepared ==
  exec.def # None => exec.def = Definition(exec.doc, env)

(* The policy of a review that can be reached narrows the registered one,    *)
(* also after a redeployment: no new role, nobody left without one, no vote  *)
(* less, ALL still means everyone, the initiator is not let back in.         *)
Narrower(policy, base) ==
  /\ policy.roles # {} /\ policy.roles \subseteq base.roles
  /\ policy.count >= base.count
  /\ base.strategy = "ALL" => policy.strategy = "ALL"
  /\ policy.strategy = "ALL" => policy.count >= Cardinality(policy.roles)
  /\ policy.initiator => base.initiator

ReviewIsNarrower ==
  exec.def # None =>
    \A n \in DOMAIN exec.def.nodes : exec.def.nodes[n].type = "review" =>
      LET base == BasePolicy(env.reviews[n])
      IN Narrower(ReviewPolicy(base, exec.def.nodes[n].attrs), base)

(* Nothing is corrected in silence: the attributes of an accepted file hold  *)
(* as they are written, the policy of a review and the tools of a task alike *)
(* (capability.ts caps the tools once more at run time).                     *)
ResolveTools(attrs) == (IF attrs["tools"] = None THEN env.tools ELSE attrs["tools"] \cap env.tools)
                         \cap AllowedKinds

Holds(written, inForce) == written # None => written = inForce

WrittenHolds ==
  exec.def # None =>
    \A n \in DOMAIN exec.def.nodes :
      LET node == exec.def.nodes[n]  attrs == node.attrs IN
      /\ node.type = "task" => Holds(attrs["tools"], ResolveTools(attrs))
      /\ node.type = "review" =>
           LET policy == ReviewPolicy(BasePolicy(env.reviews[n]), attrs) IN
           /\ attrs["role"] # None => policy.roles = {attrs["role"]}
           /\ Holds(attrs["strategy"], policy.strategy)
           /\ Holds(attrs["required"], policy.count)
           /\ attrs["exclude"] # None => policy.initiator = (attrs["exclude"] = "none")

(* Little is ignored in silence: in an accepted file every heading with an   *)
(* @, every attribute and every route of a node is part of what is walked,   *)
(* every "start" of the @flow leads where the walk starts, and the @flow has *)
(* no attributes.  The code does drop the other routes under the @flow: the  *)
(* parser reads its "start" only, and the validator looks at the rest for    *)
(* duplicates alone.                                                         *)
NothingIgnored ==
  exec.def # None =>
    LET doc == exec.doc  nodes == exec.def.nodes IN
    /\ Marked(doc) = FlowBlocks(doc) \cup {nodes[n].line : n \in DOMAIN nodes}
    /\ \A f \in FlowBlocks(doc) :
         /\ Zone(doc, f) = {}
         /\ \A j \in StartLines(doc, f) : To(doc, j) = exec.def.start
    /\ \A n \in DOMAIN nodes : \A j \in Zone(doc, nodes[n].line) :
         NameOf(doc, j) \in AllAttrs /\ nodes[n].attrs[NameOf(doc, j)] = doc[j].value
    /\ \A n \in DOMAIN nodes : \A j \in RouteLines(doc, nodes[n].line) :
         \E r \in nodes[n].routes : r.line <= j /\ r.on = On(doc, j) /\ r.to = To(doc, j)

(* flow:lint and the server agree on one file under one registry: what the   *)
(* one passes the other takes, and the other way round, unless the flow has  *)
(* another name.                                                             *)
LintAgreesWithLoad ==
  /\ lint # None /\ load.phase = "answer" /\ load.purpose # "lint"
  /\ lint.doc = load.doc /\ lint.env = env /\ Marked(load.doc) # {}
  /\ \A f \in FlowBlocks(load.doc) : IdOf(load.doc, f) = Lower[case.flow]
  => (lint.ok <=> Ok)
===============================================================================
