--------------------------- MODULE FlowProviderProofs ---------------------------
(***************************************************************************)
(* Theorems about FlowProvider, for every file, registry and redeployment:  *)
(* a flow that was accepted never gets stuck, can always come to an end,    *)
(* is walked as it was prepared, and its reviews are never laxer than what  *)
(* is registered.                                                           *)
(***************************************************************************)
EXTENDS FlowProvider, NumberLemmas

-------------------------------------------------------------------------------
(* The first line of a set of lines is one of them.                          *)

LEMMA FirstIsOne ==
  ASSUME NEW S \in SUBSET Nat, S # {}
  PROVE  FirstOf(S) \in S /\ \A y \in S : FirstOf(S) <= y
BY Smallest DEF FirstOf

LEMMA BlockOfNode ==
  ASSUME NEW doc, doc # None, Numbered(doc), NEW n \in Ids(doc)
  PROVE  BlockOf(doc, n) \in NodeBlocks(doc) /\ IdOf(doc, BlockOf(doc, n)) = n
<1> DEFINE S == {i \in NodeBlocks(doc) : IdOf(doc, i) = n}
<1>1. S \in SUBSET Nat /\ S # {}
  BY DEF Numbered, Ids, NodeBlocks, Blocks, Marked, Headings
<1> QED  BY <1>1, FirstIsOne DEF BlockOf

-------------------------------------------------------------------------------
(* What it means that a file is accepted.                                    *)

Accepted(doc, server) == ~Blocking(Validate(doc, server, case.flow))

LEMMA NothingBlocks ==
  ASSUME NEW issues, ~Blocking(issues), NEW code, NEW line, Issue(code, line) \in issues
  PROVE  code \in Warnings
BY DEF Blocking, Issue

(* What the validator says, whichever flow is asked for.                     *)
LEMMA PassedFlow ==
  ASSUME NEW doc, NEW server, NEW asked, ~Blocking(Validate(doc, server, asked))
  PROVE  /\ FlowBlocks(doc) # {} /\ ~(Cardinality(FlowBlocks(doc)) > 1)
         /\ OutcomeIssues(doc, FirstOf(FlowBlocks(doc))) \subseteq Validate(doc, server, asked)
         /\ Found(doc, Start(doc))
         /\ DuplicateNodes(doc) = {}
         /\ \A n \in Ids(doc) : NodeIssues(doc, server, n) \subseteq Validate(doc, server, asked)
<1> DEFINE issues == Validate(doc, server, asked)
           flow == FirstOf(FlowBlocks(doc))
<1>1. FlowBlocks(doc) # {}
  <2>1. FlowBlocks(doc) = {} => Issue("flow-missing", 0) \in issues
    BY FS_EmptySet DEF Validate
  <2> QED  BY <2>1, NothingBlocks DEF Warnings
<1>2. ~(Cardinality(FlowBlocks(doc)) > 1)
  <2>1. ASSUME Cardinality(FlowBlocks(doc)) > 1
        PROVE  Issue("flow-duplicate", 0) \in issues
    BY <1>1, <2>1 DEF Validate
  <2> QED  BY <2>1, NothingBlocks DEF Warnings
<1>3. FlowIssues(doc, server, flow, asked) \subseteq issues
  BY <1>1, <1>2 DEF Validate
<1>4. StartLines(doc, flow) # {}
  <2>1. StartLines(doc, flow) = {} => Issue("flow-missing-start", flow) \in issues
    BY <1>3 DEF FlowIssues
  <2> QED  BY <2>1, NothingBlocks DEF Warnings
<1>5. Found(doc, Start(doc))
  <2>1. ~Found(doc, Start(doc)) => Issue("start-missing-node", flow) \in issues
    BY <1>3, <1>4 DEF FlowIssues
  <2> QED  BY <2>1, NothingBlocks DEF Warnings
<1>6. \A n \in Ids(doc) : NodeIssues(doc, server, n) \subseteq issues
  BY <1>3, <1>4 DEF FlowIssues
<1>7. DuplicateNodes(doc) = {}
  <2>1. \A i \in DuplicateNodes(doc) : Issue("node-duplicate", i) \in issues
    BY <1>3, <1>4 DEF FlowIssues, Issues
  <2> QED  BY <2>1, NothingBlocks DEF Warnings
<1>8. OutcomeIssues(doc, flow) \subseteq issues
  BY <1>3, <1>4 DEF FlowIssues
<1> QED  BY <1>1, <1>2, <1>5, <1>6, <1>7, <1>8

LEMMA AcceptedFlow ==
  ASSUME NEW doc, NEW server, Accepted(doc, server)
  PROVE  /\ Found(doc, Start(doc))
         /\ \A n \in Ids(doc) : NodeIssues(doc, server, n) \subseteq Validate(doc, server, case.flow)
BY PassedFlow DEF Accepted

(* What holds of a node of an accepted file.                                 *)
NodeIsSound(doc, server, n) ==
  LET i == BlockOf(doc, n)
      routed == {On(doc, j) : j \in RouteLines(doc, i)}
      base == BasePolicy(server.reviews[n])
      tools == Attrs(doc, i, server)["tools"]
  IN /\ NodeOutcomes[doc[i].type] \subseteq routed
     /\ \A j \in RouteLines(doc, i) : Found(doc, To(doc, j))
     /\ doc[i].type = "gate" => n \in DOMAIN server.gates /\ server.gates[n] \subseteq routed
     /\ doc[i].type = "review" => /\ n \in DOMAIN server.reviews
                                  /\ base.roles # {}
                                  /\ Narrowing(base, Attrs(doc, i, server), i) = {}
     /\ doc[i].type = "task" /\ tools # None => tools \subseteq AllowedKinds \cap server.tools

LEMMA AcceptedNode ==
  ASSUME NEW doc, doc # None, Numbered(doc), NEW server, Accepted(doc, server), NEW n \in Ids(doc)
  PROVE  NodeIsSound(doc, server, n)
<1> DEFINE i == BlockOf(doc, n)
           attrs == Attrs(doc, i, server)
           base == BasePolicy(server.reviews[n])
           issues == Validate(doc, server, case.flow)
<1>0. IdOf(doc, i) = n
  BY BlockOfNode
<1>a. NodeIssues(doc, server, n) \subseteq issues
  BY AcceptedFlow
<1>b. ASSUME NEW code, NEW line, Issue(code, line) \in NodeIssues(doc, server, n)
      PROVE  code \in Warnings
  BY <1>a, <1>b, NothingBlocks DEF Accepted
<1>1. MissingOutcomes(doc, i) = {}
  <2>1. \A k \in MissingOutcomes(doc, i) :
          Issue("node-missing-outcome", k) \in NodeIssues(doc, server, n)
    BY DEF NodeIssues, Issues
  <2> QED  BY <1>b, <2>1 DEF Warnings
<1>2. \A j \in RouteLines(doc, i) : Found(doc, To(doc, j))
  <2>1. \A j \in RouteLines(doc, i) : ~Found(doc, To(doc, j)) =>
          Issue("route-target-missing", j) \in RouteIssues(doc, i)
    BY DEF RouteIssues, Issues
  <2>2. RouteIssues(doc, i) \subseteq NodeIssues(doc, server, n)
    BY DEF NodeIssues
  <2> QED  BY <1>b, <2>1, <2>2 DEF Warnings
<1>3. /\ doc[i].type = "gate" => n \in DOMAIN server.gates
      /\ doc[i].type = "review" => n \in DOMAIN server.reviews
  <2>1. \/ doc[i].type = "gate" /\ n \notin DOMAIN server.gates
        \/ doc[i].type = "review" /\ n \notin DOMAIN server.reviews
        => Issue("registry-missing", i) \in NodeIssues(doc, server, n)
    BY <1>0 DEF NodeIssues, RegistryIssues, Issues
  <2> QED  BY <1>b, <2>1 DEF Warnings
<1>4. ASSUME doc[i].type = "gate"
      PROVE  server.gates[n] \subseteq {On(doc, j) : j \in RouteLines(doc, i)}
  <2>1. ~(server.gates[n] \subseteq {On(doc, j) : j \in RouteLines(doc, i)})
        => Issue("gate-outcome-unrouted", i) \in GateIssues(doc, i, server)
    BY <1>0, <1>3, <1>4 DEF GateIssues, Issues
  <2>2. GateIssues(doc, i, server) \subseteq NodeIssues(doc, server, n)
    BY DEF NodeIssues
  <2> QED  BY <1>b, <2>1, <2>2 DEF Warnings
<1>5. ASSUME doc[i].type = "review"
      PROVE  base.roles # {} /\ Narrowing(base, attrs, i) = {}
  <2>0. ReviewIssues(doc, i, server) \subseteq NodeIssues(doc, server, n)
    BY DEF NodeIssues
  <2>1. base.roles # {}
    <3>1. base.roles = {} => Issue("review-missing-role", i) \in ReviewIssues(doc, i, server)
      BY <1>0, <1>3, <1>5 DEF ReviewIssues
    <3> QED  BY <1>b, <2>0, <3>1 DEF Warnings
  <2>2. Narrowing(base, attrs, i) \subseteq ReviewIssues(doc, i, server)
    BY <1>0, <1>3, <1>5, <2>1 DEF ReviewIssues
  <2>3. Narrowing(base, attrs, i)
          \subseteq {Issue("role-not-allowed", i), Issue("attr-widens", i),
                     Issue("review-all-required", i)}
    BY DEF Narrowing
  <2> QED  BY <1>b, <2>0, <2>1, <2>2, <2>3 DEF Warnings
<1>6. ASSUME doc[i].type = "task", attrs["tools"] # None
      PROVE  attrs["tools"] \subseteq AllowedKinds \cap server.tools
  <2>0. ToolIssues(doc, i, server) \subseteq NodeIssues(doc, server, n)
    BY DEF NodeIssues
  <2>1. attrs["tools"] \subseteq AllowedKinds
    <3>1. ~(attrs["tools"] \subseteq AllowedKinds)
          => Issue("task-tools-forbidden", i) \in ToolIssues(doc, i, server)
      BY <1>6 DEF ToolIssues
    <3> QED  BY <1>b, <2>0, <3>1 DEF Warnings
  <2>2. attrs["tools"] \subseteq server.tools
    <3>1. ~(attrs["tools"] \subseteq server.tools)
          => Issue("task-tools-widens", i) \in ToolIssues(doc, i, server)
      BY <1>6, <2>1 DEF ToolIssues, Issues
    <3> QED  BY <1>b, <2>0, <3>1 DEF Warnings
  <2> QED  BY <2>1, <2>2
<1> QED  BY <1>1, <1>2, <1>3, <1>4, <1>5, <1>6 DEF NodeIsSound, MissingOutcomes

-------------------------------------------------------------------------------
(* The policy of a review.                                                   *)

Policy(base) ==
  /\ {"roles", "strategy", "count", "initiator"} \subseteq DOMAIN base
  /\ base.count \in Nat /\ IsFiniteSet(base.roles)

Readable(attrs) ==
  /\ attrs["required"] = None \/ attrs["required"] \in Nat
  /\ attrs["strategy"] \in {None, "ANY", "ALL"}
  /\ attrs["exclude"] \in {None, "initiator", "none"}

WrittenInPolicy(attrs, policy) ==
  /\ attrs["role"] # None => policy.roles = {attrs["role"]}
  /\ Holds(attrs["strategy"], policy.strategy)
  /\ Holds(attrs["required"], policy.count)
  /\ attrs["exclude"] # None => policy.initiator = (attrs["exclude"] = "none")

LEMMA BasePolicyType ==
  ASSUME NEW server, Counted(server), NEW r \in DOMAIN server.reviews
  PROVE  Policy(BasePolicy(server.reviews[r]))
<1> DEFINE review == server.reviews[r]
<1>1. review.count \in Nat /\ IsFiniteSet(review.roles) /\ Cardinality(review.roles) \in Nat
  BY FS_CardinalityType DEF Counted
<1>2. {"roles", "strategy", "count", "initiator"} \subseteq DOMAIN review
  BY DEF Counted
<1> QED  BY <1>1, <1>2 DEF Policy, BasePolicy

LEMMA AttrsAreReadable ==
  ASSUME NEW doc, doc # None, Numbered(doc), NEW i \in Nat, NEW server
  PROVE  Readable(Attrs(doc, i, server))
<1> DEFINE attrs == Attrs(doc, i, server)
           good == {j \in AttrLines(doc, i) : ~Malformed(doc, j) /\ ~Unregistered(doc, j, server)}
<1>1. ASSUME NEW name \in AllAttrs
      PROVE  attrs[name] = None \/ \E j \in good : NameOf(doc, j) = name /\ attrs[name] = doc[j].value
  BY DEF Attrs
<1>2. \A j \in good : j \in DOMAIN doc /\ doc[j].is = "attr"
  <2>1. \A j \in Zone(doc, i) : j \in DOMAIN doc /\ j > i /\ \A k \in i + 1 .. j : doc[k].is = "attr"
    BY DEF Zone, BodyOf
  <2>2. \A j \in good : j \in Zone(doc, i)
    BY DEF AttrLines
  <2>3. good \subseteq Nat
    BY <2>1, <2>2 DEF Numbered
  <2> QED  BY <2>1, <2>2, <2>3
<1>3. {"required", "strategy", "exclude"} \subseteq AllAttrs
  BY DEF AllAttrs, NodeAttrs, NodeTypes
<1>4. attrs["required"] = None \/ attrs["required"] \in Nat
  BY <1>1, <1>2, <1>3 DEF Numbered
<1>5. attrs["strategy"] \in {None, "ANY", "ALL"}
  BY <1>1, <1>3 DEF Malformed
<1>6. attrs["exclude"] \in {None, "initiator", "none"}
  BY <1>1, <1>3 DEF Malformed
<1> QED  BY <1>4, <1>5, <1>6 DEF Readable

(* What the validator lets pass only narrows, and holds as it is written.    *)
LEMMA PassedNarrows ==
  ASSUME NEW base, Policy(base), base.roles # {}, NEW attrs, Readable(attrs),
         NEW line, Narrowing(base, attrs, line) = {}
  PROVE  /\ Narrower(ReviewPolicy(base, attrs), base)
         /\ WrittenInPolicy(attrs, ReviewPolicy(base, attrs))
<1> DEFINE policy == ReviewPolicy(base, attrs)
           n == Cardinality(policy.roles)
<1>1. /\ ~RoleIsForeign(base, attrs)
      /\ ~(base.strategy = "ALL" /\ attrs["strategy"] = "ANY")
      /\ attrs["required"] # None => ~(attrs["required"] < base.count)
      /\ ~(attrs["exclude"] = "none" /\ ~base.initiator)
      /\ ~(policy.roles # {} /\ policy.count > NarrowCount(base, attrs))
  BY DEF Narrowing
<1>2. /\ policy.roles # {} /\ policy.roles \subseteq base.roles
      /\ attrs["role"] # None => policy.roles = {attrs["role"]}
  BY <1>1 DEF ReviewPolicy, NarrowRoles, RoleIsForeign
<1>3. n \in Nat
  BY <1>2, FS_Subset, FS_CardinalityType DEF Policy
<1>4. /\ NarrowCount(base, attrs) \in Nat /\ NarrowCount(base, attrs) >= base.count
      /\ Holds(attrs["required"], NarrowCount(base, attrs))
  BY <1>1 DEF NarrowCount, Policy, Readable, Holds
<1>5. /\ policy.count \in Nat /\ policy.count >= NarrowCount(base, attrs)
      /\ policy.strategy = "ALL" => policy.count >= n
  BY <1>3, <1>4 DEF ReviewPolicy, RequiredVotes, AllVotes
<1>6. policy.count = NarrowCount(base, attrs)
  BY <1>1, <1>2, <1>4, <1>5
<1>7. /\ base.strategy = "ALL" => policy.strategy = "ALL"
      /\ Holds(attrs["strategy"], policy.strategy)
  BY <1>1 DEF ReviewPolicy, NarrowStrategy, Readable, Holds
<1>8. policy.initiator = (base.initiator /\ attrs["exclude"] # "initiator")
  BY DEF ReviewPolicy
<1>9. /\ policy.initiator => base.initiator
      /\ attrs["exclude"] # None => policy.initiator = (attrs["exclude"] = "none")
  <2>1. policy.initiator => base.initiator
    BY <1>8
  <2>2. attrs["exclude"] = "initiator" => ~policy.initiator /\ ~(attrs["exclude"] = "none")
    BY <1>8
  <2>3. attrs["exclude"] = "none" => policy.initiator = TRUE
    BY <1>1, <1>8
  <2>4. attrs["exclude"] = "initiator" => policy.initiator = FALSE
    BY <1>8
  <2> QED  BY <2>1, <2>2, <2>3, <2>4 DEF Readable
<1> QED
  BY <1>2, <1>4, <1>5, <1>6, <1>7, <1>9, Policy(base) DEF Narrower, WrittenInPolicy, Policy

-------------------------------------------------------------------------------
(* The graph of a file does not depend on the registry.                      *)

Known(doc) == Ids(doc) \cup Inherited

Targets(doc, n) ==
  IF n \in Ids(doc) THEN {To(doc, j) : j \in RouteLines(doc, BlockOf(doc, n))} \cap Known(doc)
  ELSE {}

EndsOf(doc) == {n \in Ids(doc) : doc[BlockOf(doc, n)].type \in Terminal}

ClosedAhead(doc, T) == \A n \in T : Targets(doc, n) \subseteq T
ClosedBack(doc, S) == \A n \in Ids(doc) : Targets(doc, n) \cap S # {} => n \in S

(* There is a way from the start to n; there is one from n to an end.        *)
Reaches(doc, n) ==
  \A T \in SUBSET Known(doc) : Start(doc) \in T /\ ClosedAhead(doc, T) => n \in T
Finishes(doc, n) ==
  \A S \in SUBSET Ids(doc) : EndsOf(doc) \subseteq S /\ ClosedBack(doc, S) => n \in S

Safe(doc) == \A n \in Ids(doc) : Reaches(doc, n) => Finishes(doc, n)

LEMMA GraphOfDefinition ==
  ASSUME NEW doc, NEW server
  PROVE  LET def == Definition(doc, server) IN
         /\ DOMAIN def.nodes = Ids(doc)
         /\ \A n : Edges(def, n) = Targets(doc, n)
         /\ Ends(def) = EndsOf(doc)
         /\ \A n : Before(def, n) = {m \in Ids(doc) : n \in Targets(doc, m)}
<1> DEFINE def == Definition(doc, server)
<1>1. DOMAIN def.nodes = Ids(doc)
  BY DEF Definition
<1>2. ASSUME NEW n \in Ids(doc)
      PROVE  /\ def.nodes[n].type = doc[BlockOf(doc, n)].type
             /\ {r.to : r \in def.nodes[n].routes}
                  = {To(doc, j) : j \in RouteLines(doc, BlockOf(doc, n))}
  <2> DEFINE lines == RouteLines(doc, BlockOf(doc, n))
             route(j) == [on |-> On(doc, j), to |-> To(doc, j), line |-> j]
  <2>1. /\ def.nodes[n].type = doc[BlockOf(doc, n)].type
        /\ def.nodes[n].routes = {route(j) : j \in lines}
    BY DEF Definition
  <2>2. \A j : route(j).to = To(doc, j)
    OBVIOUS
  <2> HIDE DEF route, lines, def
  <2>3. {r.to : r \in {route(j) : j \in lines}} = {To(doc, j) : j \in lines}
    BY <2>2
  <2> QED  BY <2>1, <2>3 DEF lines
<1>3. \A n : Edges(def, n) = Targets(doc, n)
  BY <1>1, <1>2 DEF Edges, Targets, Known
<1> QED  BY <1>1, <1>2, <1>3 DEF Ends, EndsOf, Before

LEMMA StartReaches == \A doc : Reaches(doc, Start(doc))
BY DEF Reaches

LEMMA AheadReaches ==
  ASSUME NEW doc, NEW n, Reaches(doc, n), NEW m \in Targets(doc, n)
  PROVE  Reaches(doc, m)
BY DEF Reaches, ClosedAhead

LEMMA EndsFinish ==
  \A doc : \A n \in EndsOf(doc) : n \in Ids(doc) /\ Finishes(doc, n)
BY DEF EndsOf, Finishes

LEMMA BackFinishes ==
  ASSUME NEW doc, NEW n, Finishes(doc, n), NEW m \in Ids(doc), n \in Targets(doc, m)
  PROVE  Finishes(doc, m)
BY DEF Finishes, ClosedBack

-------------------------------------------------------------------------------
(* The inductive invariant: of what is loaded, and of what is executed.      *)

IsFile(doc) == doc # None /\ Numbered(doc) /\ Named(doc)

(* The cases bring files and registries of their types.                      *)
InputsInv ==
  /\ case \in Cases
  /\ file \in {case.doc, case.later} /\ env \in {case.env, case.then}

(* What leads to a node.                                                     *)
Sources(doc, n) == {m \in Ids(doc) : n \in Targets(doc, m)}

(* A search has met nothing but what it is for, and has passed on all that   *)
(* lies next to what it has seen.                                            *)
Forward(doc, seen, todo) ==
  /\ Start(doc) \in seen \cup todo
  /\ \A n \in seen \cup todo : n \in Known(doc) /\ Reaches(doc, n)
  /\ \A n \in seen : Targets(doc, n) \subseteq seen \cup todo

Backward(doc, seen, todo) ==
  /\ EndsOf(doc) \subseteq seen \cup todo
  /\ \A n \in seen \cup todo : n \in Ids(doc) /\ Finishes(doc, n)
  /\ \A n \in seen : Sources(doc, n) \subseteq seen \cup todo

(* What the analyzer has against a file.                                     *)
Throws(doc) == \E n \in Ids(doc) : Targets(doc, n) \cap Inherited # {}
AllReached(doc) == \A n \in Ids(doc) : Reaches(doc, n)

SearchInv ==
  load.phase \in {"forward", "backward"} =>
    LET issues == Validate(load.doc, env, Asked(load.purpose)) IN
    /\ IsFile(load.doc) /\ load.def = Definition(load.doc, env)
    /\ Start(load.doc) \in Known(load.doc) /\ ~Blocking(issues)
    /\ load.phase = "forward" =>
         /\ load.issues = issues
         /\ Forward(load.doc, load.seen, load.todo)
    /\ load.phase = "backward" =>
         /\ issues \subseteq load.issues /\ ~Throws(load.doc)
         /\ Blocking(load.issues) <=> ~AllReached(load.doc)
         /\ Forward(load.doc, load.reachable, {})
         /\ Backward(load.doc, load.seen, load.todo)

(* A file that is accepted, as def, by the present process.                  *)
Sound(doc, def) ==
  IsFile(doc) /\ def = Definition(doc, env) /\ Accepted(doc, env) /\ Safe(doc)

(* The verdict of the provider and of the linter, as a fact about the file.  *)
Verdict(doc, server, asked) ==
  /\ ~Blocking(Validate(doc, server, asked))
  /\ ~Throws(doc) /\ AllReached(doc) /\ Safe(doc)

Judged(doc, server, purpose, ok) ==
  doc # None =>
    /\ IsFile(doc)
    /\ ~(purpose = "lint" /\ Skips(doc)) => (ok <=> Verdict(doc, server, Asked(purpose)))

LintInv ==
  /\ lint # None =>
       lint.doc # None /\ Judged(lint.doc, lint.env, "lint", lint.ok)
  /\ load.phase = "answer" /\ load.purpose = "lint" => load.doc # None

LoadInv ==
  /\ {"phase", "purpose", "doc", "def", "issues", "seen", "todo", "reachable"} \subseteq DOMAIN load
  /\ SearchInv
  /\ load.phase = "answer" /\ load.purpose # "lint" /\ Ok => Sound(load.doc, load.def)
  /\ load.phase = "answer" => Judged(load.doc, env, load.purpose, Ok)

ExecInv ==
  /\ {"status", "doc", "def", "current", "steps", "threw"} \subseteq DOMAIN exec
  /\ exec.status \in {"running", "resumed"} => Sound(exec.doc, exec.def)
  /\ exec.status \notin {"running", "resumed"} => exec.def = None
  /\ exec.status \in {"prepared", "running"} =>
       exec.current \in Known(exec.doc) /\ Reaches(exec.doc, exec.current)
  /\ exec.status \in {"waiting", "decided", "resumed"} =>
       exec.current \in Ids(exec.doc) /\ Reaches(exec.doc, exec.current)

(* An execution waits for the call that loads its file.                      *)
CallInv ==
  load.phase # "idle" =>
    /\ load.purpose = "prepare" => exec.status = "none"
    /\ load.purpose = "run" => exec.status \in {"prepared", "decided"}

Inv == InputsInv /\ LoadInv /\ ExecInv /\ CallInv /\ LintInv /\ NeverStuck

LEMMA InputsType ==
  ASSUME InputsInv
  PROVE  Numbered(file) /\ Named(file) /\ Counted(env)
BY CasesAreTyped DEF InputsInv

LEMMA InitHolds == Init => Inv
BY DEF Init, Inv, InputsInv, LoadInv, SearchInv, ExecInv, CallInv, LintInv, NeverStuck, Idle,
       NoExecution

(* What the linter said stays as it is.                                      *)
LEMMA LintKept ==
  ASSUME Inv, UNCHANGED <<case, lint>>,
         load'.phase = "answer" /\ load'.purpose = "lint" => load'.doc # None
  PROVE  LintInv'
BY DEF Inv, LintInv, Judged, Verdict, Asked

LEMMA BeginKeeps ==
  ASSUME Inv, NEW purpose \in {"prepare", "run", "lint"}, Begin(purpose)
  PROVE  Inv'
<1> USE DEF Inv
<1> DEFINE issues == Validate(file, env, Asked(purpose))
<1>1. InputsInv' /\ ExecInv' /\ NeverStuck'
  BY DEF Begin, InputsInv, ExecInv, NeverStuck, Sound, Accepted
<1>0. CallInv'
  BY DEF Begin, CallInv, CanBegin, Idle
<1>a. UNCHANGED <<case, file, env, lint>> /\ load'.purpose = purpose /\ load'.doc = file
      /\ load'.phase \in {"answer", "forward"}
      /\ {"phase", "purpose", "doc", "def", "issues", "seen", "todo", "reachable"}
           \subseteq DOMAIN load'
  BY DEF Begin, Idle
<1>b. LintInv'
  <2>1. purpose = "lint" => file # None
    BY DEF Begin, CanBegin
  <2> QED  BY <1>a, <2>1, LintKept
<1>c. file # None => IsFile(file)
  BY InputsType DEF IsFile
<1>2. CASE load'.phase = "answer"
  <2>1. Blocking({Issue("skill-missing", 0)})
    BY DEF Blocking, Issue, Warnings
  <2>2. \/ file = None /\ ~Ok'
        \/ purpose = "lint" /\ Skips(file)
        \/ Blocking(issues) /\ ~Ok'
    BY <1>2, <2>1 DEF Begin, Idle, Ok
  <2>3. ~Ok' \/ purpose = "lint"
    BY <2>2
  <2>4. Judged(file, env, purpose, Ok')
    BY <1>c, <2>2 DEF Judged, Verdict
  <2>5. Judged(load.doc, env, load.purpose, Ok)'
    BY <1>a, <2>4 DEF Judged, Verdict, Asked
  <2>6. SearchInv'
    BY <1>2 DEF SearchInv
  <2>7. LoadInv'
    BY <1>a, <1>2, <2>3, <2>5, <2>6 DEF LoadInv
  <2> QED  BY <1>0, <1>1, <1>b, <2>7
<1>3. CASE load'.phase # "answer"
  <2>1. /\ file # None /\ ~Blocking(issues) /\ load'.phase = "forward"
        /\ load'.def = Definition(file, env) /\ load'.issues = issues
        /\ load'.seen = {} /\ load'.todo = {Start(file)}
    BY <1>3 DEF Begin, Idle
  <2>2. Start(file) \in Known(file)
    BY <2>1, PassedFlow DEF Found, Known
  <2>3. Forward(file, {}, {Start(file)})
    BY <2>2, StartReaches DEF Forward
  <2>4. SearchInv'
    BY <1>a, <1>c, <2>1, <2>2, <2>3 DEF SearchInv, Asked
  <2> QED  BY <1>0, <1>1, <1>a, <1>b, <2>1, <2>4 DEF LoadInv
<1> QED  BY <1>2, <1>3

(* The two searches, a node at a time.                                       *)
LEMMA VisitAhead ==
  ASSUME NEW doc, NEW seen, NEW todo, Forward(doc, seen, todo), NEW n \in todo, NEW next,
         next = IF n \in seen THEN {} ELSE Targets(doc, n)
  PROVE  Forward(doc, seen \cup {n}, (todo \ {n}) \cup next)
<1>1. \A m \in next : m \in Known(doc) /\ Reaches(doc, m)
  <2>1. Reaches(doc, n)
    BY DEF Forward
  <2>2. next \subseteq Targets(doc, n) /\ Targets(doc, n) \subseteq Known(doc)
    BY DEF Targets
  <2> QED  BY <2>1, <2>2, AheadReaches
<1> QED  BY <1>1 DEF Forward

LEMMA VisitBack ==
  ASSUME NEW doc, NEW seen, NEW todo, Backward(doc, seen, todo), NEW n \in todo, NEW next,
         next = IF n \in seen THEN {} ELSE Sources(doc, n)
  PROVE  Backward(doc, seen \cup {n}, (todo \ {n}) \cup next)
<1>1. \A m \in next : m \in Ids(doc) /\ Finishes(doc, m)
  <2>1. Finishes(doc, n)
    BY DEF Backward
  <2> QED  BY <2>1, BackFinishes DEF Sources
<1> QED  BY <1>1 DEF Backward

LEMMA VisitKeeps ==
  ASSUME Inv, NEW n \in load.todo, Visit(n)
  PROVE  Inv'
<1> USE DEF Inv
<1>1. InputsInv' /\ ExecInv' /\ NeverStuck'
  BY DEF Visit, InputsInv, ExecInv, NeverStuck, Sound, Accepted
<1>0. CallInv'
  BY DEF Visit, CallInv, LoadInv
<1>2. /\ load' = [load EXCEPT !.seen = @ \cup {n}, !.todo = (@ \ {n}) \cup Enqueue(n)]
      /\ load.phase \in {"forward", "backward"} /\ UNCHANGED <<case, file, env, lint>>
  BY DEF Visit
<1>3. /\ load'.phase = load.phase /\ load'.purpose = load.purpose /\ load'.doc = load.doc
      /\ load'.def = load.def /\ load'.issues = load.issues /\ load'.reachable = load.reachable
      /\ load'.seen = load.seen \cup {n} /\ load'.todo = (load.todo \ {n}) \cup Enqueue(n)
      /\ DOMAIN load' = DOMAIN load
  BY <1>2 DEF LoadInv
<1>b. LintInv'
  BY <1>2, <1>3, LintKept
<1>c. load.def = Definition(load.doc, env) /\ Asked(load.purpose)' = Asked(load.purpose)
  BY <1>2, <1>3 DEF LoadInv, SearchInv, Asked
<1>4. CASE load.phase = "forward"
  <2>1. Enqueue(n) = IF n \in load.seen THEN {} ELSE Targets(load.doc, n)
    BY <1>4, <1>c, GraphOfDefinition DEF Enqueue, Neighbours
  <2>2. Forward(load.doc, load.seen, load.todo)
    BY <1>4 DEF LoadInv, SearchInv
  <2>3. Forward(load.doc, load.seen \cup {n}, (load.todo \ {n}) \cup Enqueue(n))
    BY <2>1, <2>2, VisitAhead
  <2>4. SearchInv'
    BY <1>2, <1>3, <1>4, <1>c, <2>3 DEF LoadInv, SearchInv
  <2> QED  BY <1>0, <1>1, <1>3, <1>4, <1>b, <2>4 DEF LoadInv
<1>5. CASE load.phase = "backward"
  <2>1. Enqueue(n) = IF n \in load.seen THEN {} ELSE Sources(load.doc, n)
    <3>1. Before(load.def, n) = Sources(load.doc, n)
      BY <1>c, GraphOfDefinition DEF Sources
    <3>2. Enqueue(n) = IF n \in load.seen THEN {} ELSE Before(load.def, n)
      BY <1>5 DEF Enqueue, Neighbours
    <3> QED  BY <3>1, <3>2
  <2>2. Backward(load.doc, load.seen, load.todo)
    BY <1>5 DEF LoadInv, SearchInv
  <2>3. Backward(load.doc, load.seen \cup {n}, (load.todo \ {n}) \cup Enqueue(n))
    BY <2>1, <2>2, VisitBack
  <2>4. SearchInv'
    BY <1>2, <1>3, <1>5, <1>c, <2>3 DEF LoadInv, SearchInv
  <2> QED  BY <1>0, <1>1, <1>3, <1>5, <1>b, <2>4 DEF LoadInv
<1> QED  BY <1>2, <1>4, <1>5

(* A search that is through has seen what there is.                          *)
LEMMA SeenAhead ==
  ASSUME NEW doc, NEW seen, Forward(doc, seen, {})
  PROVE  /\ seen \subseteq Known(doc) /\ Start(doc) \in seen /\ ClosedAhead(doc, seen)
         /\ \A n : n \in seen <=> n \in Known(doc) /\ Reaches(doc, n)
<1>1. seen \in SUBSET Known(doc) /\ Start(doc) \in seen /\ ClosedAhead(doc, seen)
  BY DEF Forward, ClosedAhead
<1>2. \A n : Reaches(doc, n) => n \in seen
  BY <1>1 DEF Reaches
<1> QED  BY <1>1, <1>2 DEF Forward

LEMMA SeenBack ==
  ASSUME NEW doc, NEW seen, Backward(doc, seen, {})
  PROVE  /\ seen \subseteq Ids(doc) /\ EndsOf(doc) \subseteq seen /\ ClosedBack(doc, seen)
         /\ \A n : n \in seen <=> n \in Ids(doc) /\ Finishes(doc, n)
<1>1. seen \in SUBSET Ids(doc) /\ EndsOf(doc) \subseteq seen /\ ClosedBack(doc, seen)
  BY DEF Backward, ClosedBack, Sources
<1>2. \A n : Finishes(doc, n) => n \in seen
  BY <1>1 DEF Finishes
<1> QED  BY <1>1, <1>2 DEF Backward

LEMMA EndForwardKeeps ==
  ASSUME Inv, EndForward
  PROVE  Inv'
<1> USE DEF Inv
<1>1. InputsInv' /\ ExecInv' /\ NeverStuck'
  BY DEF EndForward, InputsInv, ExecInv, NeverStuck, Sound, Accepted
<1>0. CallInv'
  BY DEF EndForward, CallInv, LoadInv
<1> DEFINE doc == load.doc
<1>2. UNCHANGED <<case, file, env, lint>> /\ load.phase = "forward" /\ load.todo = {}
  BY DEF EndForward
<1>a. /\ IsFile(doc) /\ load.def = Definition(doc, env) /\ Forward(doc, load.seen, {})
      /\ Start(doc) \in Known(doc)
      /\ load.issues = Validate(doc, env, Asked(load.purpose)) /\ ~Blocking(load.issues)
  BY <1>2 DEF LoadInv, SearchInv
<1>b. ReverseThrows <=> Throws(doc)
  BY <1>a, GraphOfDefinition DEF ReverseThrows, Throws
<1>3. CASE ReverseThrows
  <2>1. load' = [load EXCEPT !.phase = "answer", !.issues = {Issue("thrown", 0)}]
    BY <1>3 DEF EndForward
  <2>2. /\ load'.phase = "answer" /\ load'.purpose = load.purpose /\ load'.doc = doc
        /\ load'.issues = {Issue("thrown", 0)} /\ DOMAIN load' = DOMAIN load
    BY <2>1 DEF LoadInv
  <2>3. ~Ok'
    BY <2>2 DEF Blocking, Issue, Warnings, Ok
  <2>4. LintInv'
    BY <1>2, <1>a, <2>2, LintKept DEF IsFile
  <2>5. Judged(doc, env, load.purpose, Ok')
    BY <1>3, <1>a, <1>b, <2>3 DEF Judged, Verdict
  <2>6. Judged(load.doc, env, load.purpose, Ok)'
    BY <1>2, <2>2, <2>5 DEF Judged, Verdict, Asked
  <2> QED  BY <1>0, <1>1, <2>2, <2>3, <2>4, <2>6 DEF LoadInv, SearchInv
<1>4. CASE ~ReverseThrows
  <2> DEFINE lines == {load.def.nodes[n].line : n \in Unreachable}
  <2>1. /\ load'.phase = "backward" /\ load'.purpose = load.purpose /\ load'.doc = doc
        /\ load'.def = load.def /\ load'.issues = load.issues \cup Issues("node-unreachable", lines)
        /\ load'.reachable = load.seen /\ load'.seen = {} /\ load'.todo = Ends(load.def)
        /\ DOMAIN load' = DOMAIN load
    BY <1>4 DEF EndForward, LoadInv
  <2>2. Ends(load.def) = EndsOf(doc)
    BY <1>a, GraphOfDefinition
  <2>3. Backward(doc, {}, EndsOf(doc))
    BY EndsFinish DEF Backward
  <2>4. Unreachable = {} <=> AllReached(doc)
    <3>1. \A n \in Ids(doc) : n \in load.seen <=> Reaches(doc, n)
      BY <1>a, SeenAhead DEF Known
    <3>2. Unreachable = {n \in Ids(doc) : n \notin load.seen}
      BY <1>a, GraphOfDefinition DEF Unreachable
    <3> QED  BY <3>1, <3>2 DEF AllReached
  <2>5. Blocking(load'.issues) <=> Unreachable # {}
    <3>1. ASSUME Unreachable # {}
          PROVE  Blocking(load'.issues)
      <4>1. PICK n \in Unreachable : TRUE
        BY <3>1
      <4>2. Issue("node-unreachable", load.def.nodes[n].line) \in load'.issues
        BY <2>1, <4>1 DEF Issues
      <4> QED  BY <4>2 DEF Blocking, Issue, Warnings
    <3>2. ASSUME Unreachable = {}
          PROVE  load'.issues = load.issues
      BY <2>1, <3>2 DEF Issues
    <3> QED  BY <1>a, <3>1, <3>2
  <2>6. SearchInv'
    <3>1. Asked(load.purpose)' = Asked(load.purpose) /\ env' = env
      BY <1>2, <2>1 DEF Asked
    <3> QED  BY <1>4, <1>a, <1>b, <2>1, <2>2, <2>3, <2>4, <2>5, <3>1 DEF SearchInv
  <2>7. LintInv'
    BY <1>2, <2>1, LintKept
  <2> QED  BY <1>0, <1>1, <2>1, <2>6, <2>7 DEF LoadInv
<1> QED  BY <1>3, <1>4

LEMMA EndBackwardKeeps ==
  ASSUME Inv, EndBackward
  PROVE  Inv'
<1> USE DEF Inv
<1>1. InputsInv' /\ ExecInv' /\ NeverStuck'
  BY DEF EndBackward, InputsInv, ExecInv, NeverStuck, Sound, Accepted
<1>0. CallInv'
  BY DEF EndBackward, CallInv, LoadInv
<1> DEFINE doc == load.doc
           lines == {load.def.nodes[n].line : n \in DeadEnds}
           asked == Asked(load.purpose)
<1>2. /\ UNCHANGED <<case, file, env, lint>> /\ load.phase = "backward" /\ load.todo = {}
      /\ load'.phase = "answer" /\ load'.purpose = load.purpose /\ load'.doc = doc
      /\ load'.def = load.def /\ DOMAIN load' = DOMAIN load
  BY DEF EndBackward, LoadInv
<1>a. PICK rest \in SUBSET {Issue("no-success-path", 0)} :
        load'.issues = load.issues \cup Issues("no-terminal-path", lines) \cup rest
  BY DEF EndBackward, LoadInv
<1>b. /\ IsFile(doc) /\ load.def = Definition(doc, env) /\ ~Throws(doc)
      /\ ~Blocking(Validate(doc, env, asked)) /\ Validate(doc, env, asked) \subseteq load.issues
      /\ Blocking(load.issues) <=> ~AllReached(doc)
      /\ Forward(doc, load.reachable, {}) /\ Backward(doc, load.seen, {})
  BY <1>2 DEF LoadInv, SearchInv
<1>c. DeadEnds = {} <=> Safe(doc)
  <2>1. \A n \in Ids(doc) : /\ n \in load.reachable <=> Reaches(doc, n)
                            /\ n \in load.seen <=> Finishes(doc, n)
    BY <1>b, SeenAhead, SeenBack DEF Known
  <2>2. DeadEnds = {n \in Ids(doc) : n \in load.reachable /\ n \notin load.seen}
    BY <1>b, GraphOfDefinition DEF DeadEnds
  <2> QED  BY <2>1, <2>2 DEF Safe
<1>d. Blocking(load'.issues) <=> Blocking(load.issues) \/ DeadEnds # {}
  <2>1. ASSUME DeadEnds # {}
        PROVE  Blocking(load'.issues)
    <3>1. PICK n \in DeadEnds : TRUE
      BY <2>1
    <3>2. Issue("no-terminal-path", load.def.nodes[n].line) \in load'.issues
      BY <1>a, <3>1 DEF Issues
    <3> QED  BY <3>2 DEF Blocking, Issue, Warnings
  <2>2. Blocking(load.issues) => Blocking(load'.issues)
    BY <1>a DEF Blocking
  <2>3. ASSUME Blocking(load'.issues), DeadEnds = {}
        PROVE  Blocking(load.issues)
    <3>1. PICK x \in load'.issues : x.code \notin Warnings
      BY <2>3 DEF Blocking
    <3>2. x \in load.issues \/ x = Issue("no-success-path", 0)
      BY <1>a, <2>3, <3>1 DEF Issues
    <3>3. Issue("no-success-path", 0).code \in Warnings
      BY DEF Issue, Warnings
    <3> QED  BY <3>1, <3>2, <3>3 DEF Blocking
  <2> QED  BY <2>1, <2>2, <2>3
<1>e. Ok' <=> Verdict(doc, env, asked)
  BY <1>b, <1>c, <1>d DEF Ok, Verdict
<1>3. ASSUME load.purpose # "lint", Ok'
      PROVE  Sound(load.doc, load.def)'
  <2>1. asked = case.flow
    BY <1>3 DEF Asked
  <2>2. Accepted(doc, env) /\ Safe(doc)
    BY <1>3, <1>e, <2>1 DEF Accepted, Verdict
  <2> QED  BY <1>2, <1>b, <2>2 DEF Sound, Accepted
<1>4. Judged(load.doc, env, load.purpose, Ok)'
  <2>1. Judged(doc, env, load.purpose, Ok')
    BY <1>b, <1>e DEF Judged
  <2> QED  BY <1>2, <2>1 DEF Judged, Verdict, Asked
<1>5. LoadInv'
  BY <1>2, <1>3, <1>4 DEF LoadInv, SearchInv
<1>6. LintInv'
  BY <1>2, <1>b, LintKept DEF IsFile
<1> QED  BY <1>0, <1>1, <1>5, <1>6

LEMMA AnswerKeeps ==
  ASSUME Inv, Prepare \/ Reload \/ Lint
  PROVE  Inv'
<1> USE DEF Inv
<1>1. InputsInv' /\ LoadInv' /\ CallInv'
  BY DEF Prepare, Reload, Lint, Answer, InputsInv, LoadInv, SearchInv, CallInv, Idle
<1>a. LintInv'
  <2>1. load' = Idle /\ Idle.phase = "idle"
    BY DEF Prepare, Reload, Lint, Answer, Idle
  <2>2. ASSUME Prepare \/ Reload
        PROVE  LintInv'
    BY <2>1, <2>2, LintKept DEF Prepare, Reload
  <2>3. ASSUME Lint
        PROVE  LintInv'
    <3>1. /\ load.phase = "answer" /\ load.purpose = "lint" /\ UNCHANGED case
          /\ lint' = [doc |-> load.doc, env |-> env, ok |-> Ok]
      BY <2>3 DEF Lint, Answer
    <3>2. load.doc # None /\ Judged(load.doc, env, "lint", Ok)
      BY <3>1 DEF LoadInv, LintInv
    <3> QED  BY <2>1, <3>1, <3>2 DEF LintInv, Judged, Verdict, Asked
  <2> QED  BY <2>2, <2>3
<1>2. ASSUME Prepare
      PROVE  ExecInv' /\ NeverStuck'
  <2>1. /\ UNCHANGED <<case, file, env>> /\ load.phase = "answer" /\ load.purpose = "prepare"
        /\ exec.status = "none"
    BY <1>2 DEF Prepare, Answer, CallInv
  <2>2. CASE Ok
    <3>1. IsFile(load.doc) /\ Accepted(load.doc, env)
      BY <2>1, <2>2 DEF LoadInv, Sound
    <3>2. Start(load.doc) \in Known(load.doc)
      BY <3>1, AcceptedFlow DEF Found, Known
    <3>3. Reaches(load.doc, Start(load.doc))
      BY StartReaches
    <3> QED  BY <1>2, <2>1, <2>2, <3>2, <3>3 DEF Prepare, ExecInv, NeverStuck, Answer
  <2>3. CASE ~Ok
    BY <1>2, <2>1, <2>3 DEF Prepare, ExecInv, NeverStuck, Answer
  <2> QED  BY <2>2, <2>3
<1>3. ASSUME Reload
      PROVE  ExecInv' /\ NeverStuck'
  <2>1. /\ UNCHANGED <<case, file, env>> /\ load.phase = "answer" /\ load.purpose = "run"
        /\ exec.status \in {"prepared", "decided"}
    BY <1>3 DEF Reload, Answer, CallInv
  <2>2. CASE Ok /\ SameSource(load.doc)
    <3>1. /\ exec'.doc = load.doc /\ exec'.doc = exec.doc /\ exec'.def = load.def
          /\ exec'.current = exec.current /\ DOMAIN exec' = DOMAIN exec
          /\ exec'.status = IF exec.status = "decided" THEN "resumed" ELSE "running"
      BY <1>3, <2>2 DEF Reload, SameSource, ExecInv
    <3>2. Sound(exec.doc, exec.def)'
      BY <2>1, <2>2, <3>1 DEF LoadInv, Sound, Accepted
    <3> QED  BY <2>1, <3>1, <3>2 DEF ExecInv, NeverStuck
  <2>3. CASE ~(Ok /\ SameSource(load.doc))
    BY <1>3, <2>1, <2>3 DEF Reload, ExecInv, NeverStuck, Answer
  <2> QED  BY <2>2, <2>3
<1>4. ASSUME Lint
      PROVE  ExecInv' /\ NeverStuck'
  BY <1>4 DEF Lint, ExecInv, NeverStuck, Sound, Accepted
<1> QED  BY <1>1, <1>a, <1>2, <1>3, <1>4

(* A step of the walk leaves alone what is loaded.                           *)
LEMMA WalkKeepsTheRest ==
  ASSUME Inv, Walks, exec.status \in {"running", "resumed", "waiting"}
  PROVE  /\ InputsInv' /\ LoadInv' /\ LintInv'
         /\ load.phase = "idle" \/ load.purpose \notin {"prepare", "run"}
BY DEF Inv, Walks, InputsInv, LoadInv, SearchInv, CallInv, LintInv, Sound, Accepted, Judged, Verdict,
       Asked, Ok

(* What Node is, for a walk over a file that was accepted.                   *)
LEMMA NodeOfWalk ==
  ASSUME Inv, exec.status \in {"running", "resumed"}, exec.current \in Ids(exec.doc)
  PROVE  LET i == BlockOf(exec.doc, exec.current) IN
         /\ NodeIsSound(exec.doc, env, exec.current)
         /\ Node.type = exec.doc[i].type
         /\ Node.attrs = Attrs(exec.doc, i, env)
         /\ Node.routes = {[on |-> On(exec.doc, j), to |-> To(exec.doc, j), line |-> j] :
                             j \in RouteLines(exec.doc, i)}
         /\ Node.type \in NodeTypes
<1>1. IsFile(exec.doc) /\ exec.def = Definition(exec.doc, env) /\ Accepted(exec.doc, env)
  BY DEF Inv, ExecInv, Sound
<1>2. NodeIsSound(exec.doc, env, exec.current)
  BY <1>1, AcceptedNode DEF IsFile
<1>3. BlockOf(exec.doc, exec.current) \in NodeBlocks(exec.doc)
  BY <1>1, BlockOfNode DEF IsFile
<1>4. exec.doc[BlockOf(exec.doc, exec.current)].type \in NodeTypes
  BY <1>3 DEF NodeBlocks, FlowBlocks, Blocks, BlockTypes
<1> QED  BY <1>1, <1>2, <1>4 DEF Node, Definition

(* An outcome with a route leads on, to a node or an inherited name.         *)
LEMMA FollowLeadsOn ==
  ASSUME Inv, exec.status \in {"running", "resumed"}, exec.current \in Ids(exec.doc), NEW outcome,
         outcome \in {On(exec.doc, j) : j \in RouteLines(exec.doc, BlockOf(exec.doc, exec.current))}
  PROVE  /\ RoutesOn(outcome) # {}
         /\ FindRoute(outcome) \in Known(exec.doc)
         /\ Reaches(exec.doc, FindRoute(outcome))
<1> DEFINE doc == exec.doc
           i == BlockOf(doc, exec.current)
           route(j) == [on |-> On(doc, j), to |-> To(doc, j), line |-> j]
           lines == {j \in RouteLines(doc, i) : On(doc, j) = outcome}
<1>0. IsFile(doc)
  BY DEF Inv, ExecInv, Sound
<1>1. Node.routes = {route(j) : j \in RouteLines(doc, i)}
  BY NodeOfWalk
<1>2. RoutesOn(outcome) = {route(j) : j \in lines}
  BY <1>1 DEF RoutesOn
<1>3. lines # {} /\ lines \in SUBSET Nat
  BY <1>0 DEF RouteLines, BodyOf, IsFile, Numbered
<1>4. PICK first \in lines : \A j \in lines : first <= j
  BY <1>3, Smallest
<1>5. route(first) \in RoutesOn(outcome) /\ \A q \in RoutesOn(outcome) : route(first).line <= q.line
  BY <1>2, <1>4
<1>6. PICK r \in RoutesOn(outcome) : FindRoute(outcome) = r.to
  BY <1>5 DEF FindRoute
<1>7. PICK j \in lines : FindRoute(outcome) = To(doc, j)
  BY <1>2, <1>6
<1>8. Found(doc, To(doc, j))
  BY NodeOfWalk DEF NodeIsSound
<1>9. FindRoute(outcome) \in Targets(doc, exec.current)
  BY <1>7, <1>8 DEF Targets, Known, Found
<1>10. Reaches(doc, exec.current)
  BY DEF Inv, ExecInv
<1> QED  BY <1>5, <1>9, <1>10, AheadReaches DEF Targets

LEMMA FollowKeeps ==
  ASSUME Inv, exec.status \in {"running", "resumed"}, exec.current \in Ids(exec.doc), Walks,
         NEW outcome, Follow(outcome),
         outcome \in {On(exec.doc, j) : j \in RouteLines(exec.doc, BlockOf(exec.doc, exec.current))}
  PROVE  Inv'
<1>1. exec' = [exec EXCEPT !.status = "running", !.current = FindRoute(outcome), !.steps = @ + 1]
  BY FollowLeadsOn DEF Follow
<1>2. /\ exec'.status = "running" /\ exec'.current = FindRoute(outcome) /\ exec'.doc = exec.doc
      /\ exec'.def = exec.def /\ DOMAIN exec' = DOMAIN exec
  BY <1>1 DEF Inv, ExecInv
<1>3. FindRoute(outcome) \in Known(exec.doc) /\ Reaches(exec.doc, FindRoute(outcome))
  BY FollowLeadsOn
<1>4. Sound(exec.doc, exec.def)'
  BY <1>2 DEF Inv, ExecInv, Sound, Accepted, Walks
<1>5. ExecInv' /\ NeverStuck'
  BY <1>2, <1>3, <1>4 DEF Inv, ExecInv, NeverStuck
<1> QED  BY <1>5, WalkKeepsTheRest DEF Inv, CallInv, Walks

(* A walk stops or pauses with nothing in memory.                            *)
LEMMA StopKeeps ==
  ASSUME Inv, exec.status \in {"running", "resumed"}, Walks,
         NEW status \in {"failed", "done", "waiting", "stuck"}, NEW threw,
         exec' = [exec EXCEPT !.status = status, !.def = None, !.threw = threw],
         status = "waiting" => exec.current \in Ids(exec.doc),
         status = "stuck" => threw \/ exec.current \in Inherited
  PROVE  Inv'
<1>1. /\ exec'.status = status /\ exec'.def = None /\ exec'.current = exec.current
      /\ exec'.doc = exec.doc /\ exec'.threw = threw /\ DOMAIN exec' = DOMAIN exec
  BY DEF Inv, ExecInv
<1>2. ExecInv' /\ NeverStuck'
  BY <1>1 DEF Inv, ExecInv, NeverStuck
<1> QED  BY <1>2, WalkKeepsTheRest DEF Inv, CallInv, Walks

LEMMA AtNodeOfFile ==
  ASSUME Inv, NEW type, AtNode(type)
  PROVE  exec.status = "running" /\ exec.current \in Ids(exec.doc) /\ Node.type = type
BY GraphOfDefinition DEF AtNode, Inv, ExecInv, Sound

LEMMA StepKeeps ==
  ASSUME Inv, NEW type \in NodeTypes, Step(type)
  PROVE  Inv'
<1>1. PICK outcome \in {"success", "fail"} : Follow(outcome)
  BY DEF Step
<1>2. exec.status = "running" /\ exec.current \in Ids(exec.doc) /\ Node.type \in {"task", "command"}
      /\ Walks
  BY AtNodeOfFile DEF Step
<1>3. outcome \in NodeOutcomes[Node.type]
  BY <1>2 DEF NodeOutcomes
<1> QED  BY <1>1, <1>2, <1>3, NodeOfWalk, FollowKeeps DEF NodeIsSound

LEMMA GateKeeps ==
  ASSUME Inv, Gate
  PROVE  Inv'
<1>1. PICK outcome \in env.gates[exec.current] : Follow(outcome)
  BY DEF Gate
<1>2. exec.status = "running" /\ exec.current \in Ids(exec.doc) /\ Node.type = "gate" /\ Walks
  BY AtNodeOfFile DEF Gate
<1> QED  BY <1>1, <1>2, NodeOfWalk, FollowKeeps DEF NodeIsSound

LEMMA GateThrowsKeeps ==
  ASSUME Inv, GateThrows
  PROVE  Inv'
<1> DEFINE routed == {On(exec.doc, j) : j \in RouteLines(exec.doc, BlockOf(exec.doc, exec.current))}
<1>1. exec.status = "running" /\ exec.current \in Ids(exec.doc) /\ Walks
  BY AtNodeOfFile DEF GateThrows
<1>2. CASE RoutesOn("fail") = {}
  <2>1. exec' = [exec EXCEPT !.status = "stuck", !.def = None, !.threw = TRUE]
    BY <1>2 DEF GateThrows
  <2> QED  BY <1>1, <2>1, StopKeeps
<1>3. CASE RoutesOn("fail") # {}
  <2>1. exec' = [exec EXCEPT !.current = FindRoute("fail"), !.steps = @ + 1]
    BY <1>3 DEF GateThrows
  <2>2. "fail" \in routed
    BY <1>1, <1>3, NodeOfWalk DEF RoutesOn
  <2>3. Reaches(exec.doc, FindRoute("fail")) /\ FindRoute("fail") \in Known(exec.doc)
    BY <1>1, <2>2, FollowLeadsOn
  <2>4. /\ exec'.status = "running" /\ exec'.current = FindRoute("fail") /\ exec'.doc = exec.doc
        /\ exec'.def = exec.def /\ DOMAIN exec' = DOMAIN exec
    BY <1>1, <2>1 DEF Inv, ExecInv
  <2>5. Sound(exec.doc, exec.def)'
    BY <1>1, <2>4 DEF Inv, ExecInv, Sound, Accepted, Walks
  <2>6. ExecInv' /\ NeverStuck'
    BY <2>3, <2>4, <2>5 DEF Inv, ExecInv, NeverStuck
  <2> QED  BY <1>1, <2>6, WalkKeepsTheRest DEF Inv, CallInv, Walks
<1> QED  BY <1>2, <1>3

LEMMA PauseKeeps ==
  ASSUME Inv, NEW type \in NodeTypes, Pause(type)
  PROVE  Inv'
<1> DEFINE status == IF NobodyDecides THEN "failed" ELSE "waiting"
<1>1. exec.status = "running" /\ exec.current \in Ids(exec.doc) /\ Walks
  BY AtNodeOfFile DEF Pause
<1>2. exec' = [exec EXCEPT !.status = status, !.def = None, !.threw = exec.threw]
  BY DEF Pause, Inv, ExecInv
<1> QED  BY <1>1, <1>2, StopKeeps

LEMMA ResumeKeeps ==
  ASSUME Inv, Resume
  PROVE  Inv'
<1>1. exec.status = "resumed" /\ exec.current \in Ids(exec.doc) /\ Walks
  BY DEF Resume, Inv, ExecInv
<1>2. PICK outcome \in NodeOutcomes[Node.type] : Follow(outcome)
  BY DEF Resume
<1> QED  BY <1>1, <1>2, NodeOfWalk, FollowKeeps DEF NodeIsSound

LEMMA EndKeeps ==
  ASSUME Inv, AskAgain \/ Unresumable \/ Finish \/ NoNode \/ TooManySteps
  PROVE  Inv'
<1>1. PICK status \in {"failed", "done", "waiting", "stuck"} :
        /\ exec' = [exec EXCEPT !.status = status, !.def = None]
        /\ status = "waiting" => exec.status = "resumed"
        /\ status = "stuck" => exec.status = "running" /\ exec.current \notin DOMAIN exec.def.nodes
        /\ exec.status \in {"running", "resumed"} /\ Walks
  BY DEF AskAgain, Unresumable, Finish, NoNode, TooManySteps
<1>2. exec' = [exec EXCEPT !.status = status, !.def = None, !.threw = exec.threw]
  BY <1>1 DEF Inv, ExecInv
<1>3. status = "waiting" => exec.current \in Ids(exec.doc)
  BY <1>1 DEF Inv, ExecInv
<1>4. status = "stuck" => exec.current \in Inherited
  BY <1>1, GraphOfDefinition DEF Inv, ExecInv, Sound, Known
<1> QED  BY <1>1, <1>2, <1>3, <1>4, StopKeeps

LEMMA OtherKeeps ==
  ASSUME Inv, Decide \/ Edit \/ Redeploy
  PROVE  Inv'
<1>1. ASSUME Decide
      PROVE  Inv'
  BY <1>1 DEF Decide, Inv, InputsInv, LoadInv, SearchInv, ExecInv, CallInv, LintInv, NeverStuck,
              Sound, Accepted, Judged, Verdict, Asked, Ok
<1>2. ASSUME Edit
      PROVE  Inv'
  BY <1>2 DEF Edit, Inv, InputsInv, LoadInv, SearchInv, ExecInv, CallInv, LintInv, NeverStuck,
              Sound, Accepted, Judged, Verdict, Asked, Ok
<1>3. ASSUME Redeploy
      PROVE  Inv'
  BY <1>3 DEF Redeploy, Inv, InputsInv, LoadInv, SearchInv, ExecInv, CallInv, LintInv, NeverStuck,
              Judged, Verdict, Asked
<1> QED  BY <1>1, <1>2, <1>3

LEMMA NextKeeps ==
  ASSUME Inv, [Next]_vars
  PROVE  Inv'
<1>1. ASSUME UNCHANGED vars
      PROVE  Inv'
  BY <1>1 DEF vars, Inv, InputsInv, LoadInv, SearchInv, ExecInv, CallInv, LintInv, NeverStuck,
              Sound, Accepted, Judged, Verdict, Asked, Ok
<1>2. ASSUME Loading
      PROVE  Inv'
  BY <1>2, VisitKeeps, EndForwardKeeps, EndBackwardKeeps, AnswerKeeps DEF Loading
<1>3. ASSUME Walking
      PROVE  Inv'
  BY <1>3, StepKeeps, PauseKeeps, GateKeeps, GateThrowsKeeps, ResumeKeeps, EndKeeps DEF Walking
<1> QED  BY <1>1, <1>2, <1>3, BeginKeeps, OtherKeeps DEF Next

THEOREM AcceptedStaysSound == Spec => []Inv
<1>1. Inv /\ [Next]_vars => Inv'
  BY NextKeeps
<1> QED  BY InitHolds, <1>1, PTL DEF Spec

-------------------------------------------------------------------------------
(* The state is of its types: a walk takes MaxSteps steps at most, because   *)
(* one that waits has not used them up (loop() counts before it visits).     *)
LEMMA TypesKept ==
  ASSUME TypeOK, Inv, [Next]_vars
  PROVE  TypeOK'
<1> USE StepsAreCounted
<1>0. Inv'
  BY NextKeeps
<1>1. file' \in {case'.doc, case'.later} /\ env' \in {case'.env, case'.then}
  BY <1>0 DEF Inv, InputsInv
<1>2. exec'.status \notin {"running", "resumed"} => exec'.def = None
  BY <1>0 DEF Inv, ExecInv
<1>3. {"status", "def", "current", "steps", "threw"} \subseteq DOMAIN exec
      /\ {"phase", "seen", "todo", "reachable", "issues"} \subseteq DOMAIN load
  BY DEF Inv, ExecInv, LoadInv
<1>4. load'.phase \in {"idle", "forward", "backward", "answer"} /\ (load'.phase = "idle" => load' = Idle)
  <2>1. CASE UNCHANGED load
    BY <2>1 DEF TypeOK
  <2>2. CASE Loading
    <3>1. ASSUME NEW n \in load.todo, Visit(n)
          PROVE  load'.phase \in {"forward", "backward"}
      BY <3>1, <1>3 DEF Visit
    <3>2. EndForward => load'.phase \in {"backward", "answer"}
      BY <1>3 DEF EndForward
    <3>3. EndBackward => load'.phase = "answer"
      BY <1>3 DEF EndBackward
    <3>4. Prepare \/ Reload \/ Lint => load' = Idle /\ Idle.phase = "idle"
      BY DEF Prepare, Reload, Lint, Answer, Idle
    <3> QED  BY <2>2, <3>1, <3>2, <3>3, <3>4 DEF Loading
  <2>3. ASSUME NEW purpose \in {"prepare", "run", "lint"}, Begin(purpose)
        PROVE  load'.phase \in {"forward", "answer"}
    BY <2>3 DEF Begin, Idle
  <2> QED  BY <2>1, <2>2, <2>3 DEF Next, Walking, Step, Pause, Gate, GateThrows, Resume, AskAgain,
             Unresumable, Finish, NoNode, TooManySteps, Decide, Edit, Redeploy, Walks, vars
<1>5. ASSUME NEW outcome, Follow(outcome), exec.steps < MaxSteps
      PROVE  exec'.status \in {"running", "stuck"} /\ exec'.steps \in 0 .. MaxSteps
  BY <1>3, <1>5 DEF Follow, TypeOK
<1>6. /\ exec'.status \in {"none", "refused", "prepared", "running", "waiting", "decided",
                           "resumed", "done", "failed", "stuck"}
      /\ exec'.steps \in 0 .. MaxSteps
      /\ exec'.status \in {"waiting", "decided", "resumed"} => exec'.steps < MaxSteps
  <2>1. CASE UNCHANGED exec
    BY <2>1 DEF TypeOK
  <2>2. CASE Prepare \/ Reload
    BY <2>2, <1>3 DEF Prepare, Reload, Answer, TypeOK, Inv, CallInv
  <2>3. CASE Gate \/ Resume \/ \E type \in NodeTypes : Step(type)
    BY <2>3, <1>5 DEF Gate, Resume, Step, AtNode, TypeOK
  <2>4. CASE GateThrows
    BY <2>4, <1>3 DEF GateThrows, AtNode, TypeOK
  <2>5. CASE Decide \/ AskAgain \/ Unresumable \/ Finish \/ NoNode \/ TooManySteps
             \/ \E type \in NodeTypes : Pause(type)
    BY <2>5, <1>3 DEF Decide, AskAgain, Unresumable, Finish, NoNode, TooManySteps, Pause, AtNode, TypeOK
  <2> QED  BY <2>1, <2>2, <2>3, <2>4, <2>5 DEF Next, Loading, Walking, Begin, Visit, EndForward,
             EndBackward, Lint, Edit, Redeploy, vars
<1> QED  BY <1>1, <1>2, <1>4, <1>6 DEF TypeOK

THEOREM TypesHold == Spec => []TypeOK
<1>1. Init => TypeOK
  BY StepsAreCounted DEF Init, TypeOK, Idle, NoExecution
<1>2. TypeOK /\ Inv /\ [Next]_vars => TypeOK'
  BY TypesKept
<1> QED  BY <1>1, <1>2, AcceptedStaysSound, PTL DEF Spec

-------------------------------------------------------------------------------
(* A walk over an accepted file never lacks a node or a route: what each     *)
(* node can give was checked to have a route, and each route to lead to a    *)
(* node (skill-flow validation against the steps of the runner).             *)
THEOREM NeverStuckHolds == Spec => []NeverStuck
BY AcceptedStaysSound, PTL DEF Inv

(* There is a way to an end from wherever a walk stands, whatever has been   *)
(* edited or redeployed since (analyzeFlow against the loop of the runner).  *)
THEOREM CanFinishHolds == Spec => []CanFinish
<1>1. Inv => CanFinish
  <2> SUFFICES ASSUME Inv, exec.def # None, exec.current \notin Inherited,
                      NEW S \in SUBSET DOMAIN exec.def.nodes, Ends(exec.def) \subseteq S,
                      \A n \in S : Before(exec.def, n) \subseteq S
               PROVE  exec.current \in S
    BY DEF CanFinish
  <2>1. /\ Sound(exec.doc, exec.def) /\ exec.current \in Ids(exec.doc)
        /\ Reaches(exec.doc, exec.current)
    BY DEF Inv, ExecInv, Known
  <2>2. S \in SUBSET Ids(exec.doc) /\ EndsOf(exec.doc) \subseteq S
    BY <2>1, GraphOfDefinition DEF Sound
  <2>3. ClosedBack(exec.doc, S)
    BY <2>1, GraphOfDefinition DEF Sound, ClosedBack
  <2> QED  BY <2>1, <2>2, <2>3 DEF Sound, Safe, Finishes
<1> QED  BY AcceptedStaysSound, <1>1, PTL

(* The process that walks an execution walks the file it was prepared from,  *)
(* as its own registry understands it (the hash that reload compares).       *)
THEOREM RunsWhatWasPreparedHolds == Spec => []RunsWhatWasPrepared
<1>1. Inv => RunsWhatWasPrepared
  BY DEF Inv, ExecInv, Sound, RunsWhatWasPrepared
<1> QED  BY AcceptedStaysSound, <1>1, PTL

LEMMA NodesHold ==
  ASSUME Inv, exec.def # None, NEW n \in DOMAIN exec.def.nodes
  PROVE  LET node == exec.def.nodes[n]  base == BasePolicy(env.reviews[n]) IN
         /\ node.type = "review" => /\ Narrower(ReviewPolicy(base, node.attrs), base)
                                    /\ WrittenInPolicy(node.attrs, ReviewPolicy(base, node.attrs))
         /\ node.type = "task" /\ node.attrs["tools"] # None =>
              node.attrs["tools"] \subseteq AllowedKinds \cap env.tools
<1> DEFINE i == BlockOf(exec.doc, n)
           attrs == Attrs(exec.doc, i, env)
           base == BasePolicy(env.reviews[n])
<1>1. /\ IsFile(exec.doc) /\ exec.def = Definition(exec.doc, env) /\ Accepted(exec.doc, env)
      /\ Counted(env)
  BY InputsType DEF Inv, ExecInv, Sound
<1>2. n \in Ids(exec.doc) /\ exec.def.nodes[n].type = exec.doc[i].type
      /\ exec.def.nodes[n].attrs = attrs
  BY <1>1 DEF Definition
<1>3. NodeIsSound(exec.doc, env, n)
  BY <1>1, <1>2, AcceptedNode DEF IsFile
<1>4. ASSUME exec.doc[i].type = "review"
      PROVE  Narrower(ReviewPolicy(base, attrs), base) /\ WrittenInPolicy(attrs, ReviewPolicy(base, attrs))
  <2>1. Policy(base) /\ base.roles # {} /\ Narrowing(base, attrs, i) = {}
    BY <1>1, <1>3, <1>4, BasePolicyType DEF NodeIsSound
  <2>2. i \in Nat
    BY <1>1, <1>2, BlockOfNode DEF IsFile, Numbered, NodeBlocks, Blocks, Marked, Headings
  <2>3. Readable(attrs)
    BY <1>1, <2>2, AttrsAreReadable DEF IsFile
  <2> QED  BY <2>1, <2>3, PassedNarrows
<1> QED  BY <1>2, <1>3, <1>4 DEF NodeIsSound

(* A review asks for no less than what is registered for it, in the process  *)
(* that runs it and whatever the file says (checkNarrowing against           *)
(* reviewPolicyFor).                                                         *)
THEOREM ReviewIsNarrowerHolds == Spec => []ReviewIsNarrower
<1>1. Inv => ReviewIsNarrower
  BY NodesHold DEF ReviewIsNarrower
<1> QED  BY AcceptedStaysSound, <1>1, PTL

(* What an accepted file says of a review or of the tools of a task is what  *)
(* holds when it runs.                                                       *)
THEOREM WrittenHoldsHolds == Spec => []WrittenHolds
<1>1. Inv => WrittenHolds
  <2> SUFFICES ASSUME Inv, exec.def # None, NEW n \in DOMAIN exec.def.nodes
               PROVE  LET node == exec.def.nodes[n]  attrs == node.attrs
                          policy == ReviewPolicy(BasePolicy(env.reviews[n]), attrs) IN
                      /\ node.type = "task" => Holds(attrs["tools"], ResolveTools(attrs))
                      /\ node.type = "review" => WrittenInPolicy(attrs, policy)
    BY DEF WrittenHolds, WrittenInPolicy
  <2> DEFINE attrs == exec.def.nodes[n].attrs
  <2>1. ASSUME exec.def.nodes[n].type = "task", attrs["tools"] # None
        PROVE  attrs["tools"] = ResolveTools(attrs)
    <3>1. attrs["tools"] \subseteq AllowedKinds \cap env.tools
      BY <2>1, NodesHold
    <3> QED  BY <2>1, <3>1 DEF ResolveTools
  <2> QED  BY <2>1, NodesHold DEF Holds
<1> QED  BY AcceptedStaysSound, <1>1, PTL

-------------------------------------------------------------------------------
(* The searches of the analyzer.  A set is closed under the edges of the     *)
(* definition as it is under those of the document; what is in all of them   *)
(* that hold the start, or the ends, is what was seen.                       *)
LEMMA ClosureAhead ==
  ASSUME NEW doc, NEW server, NEW def, def = Definition(doc, server),
         NEW seen, Forward(doc, seen, {})
  PROVE  LET all == DOMAIN def.nodes \cup Inherited
             after(n) == Edges(def, n)
         IN seen = Closure({Start(doc)}, after, all)
<1> DEFINE closed == {S \in SUBSET Known(doc) :
                        {Start(doc)} \subseteq S /\ \A m \in S : Edges(def, m) \subseteq S}
<1>1. DOMAIN def.nodes \cup Inherited = Known(doc) /\ \A n : Edges(def, n) = Targets(doc, n)
  BY GraphOfDefinition DEF Known
<1>2. closed = {S \in SUBSET Known(doc) : Start(doc) \in S /\ ClosedAhead(doc, S)}
  BY <1>1 DEF ClosedAhead
<1>3. \A n : Reaches(doc, n) <=> \A S \in closed : n \in S
  BY <1>2 DEF Reaches
<1>4. seen = {n \in Known(doc) : \A S \in closed : n \in S}
  BY <1>3, SeenAhead
<1> QED  BY <1>1, <1>4 DEF Closure

LEMMA ClosureBack ==
  ASSUME NEW doc, NEW server, NEW def, def = Definition(doc, server),
         NEW seen, Backward(doc, seen, {})
  PROVE  LET all == DOMAIN def.nodes \cup Inherited
             before(n) == Before(def, n)
         IN seen = Closure(Ends(def), before, all)
<1> DEFINE closed == {S \in SUBSET Known(doc) :
                        Ends(def) \subseteq S /\ \A m \in S : Before(def, m) \subseteq S}
<1>1. /\ DOMAIN def.nodes \cup Inherited = Known(doc) /\ Ends(def) = EndsOf(doc)
      /\ \A n : Before(def, n) = Sources(doc, n)
  BY GraphOfDefinition DEF Known, Sources
<1>2. seen \subseteq Ids(doc) /\ Ids(doc) \subseteq Known(doc)
  BY SeenBack DEF Known
<1>3. seen \in closed
  BY <1>1, <1>2 DEF Backward
<1>4. ASSUME NEW S \in closed, NEW n \in seen
      PROVE  n \in S
  <2>1. S \cap Ids(doc) \in SUBSET Ids(doc) /\ EndsOf(doc) \subseteq S \cap Ids(doc)
    BY <1>1 DEF EndsOf
  <2>2. ClosedBack(doc, S \cap Ids(doc))
    BY <1>1 DEF ClosedBack, Sources
  <2> QED  BY <2>1, <2>2, SeenBack DEF Finishes
<1>5. seen = {n \in Known(doc) : \A S \in closed : n \in S}
  BY <1>2, <1>3, <1>4
<1> QED  BY <1>1, <1>5 DEF Closure

(* The analyzer's searches, as they go over the nodes one by one, find what  *)
(* can be reached from the start and what an end can be reached from (bfs,   *)
(* twice, in analyzeFlow).                                                   *)
THEOREM SearchIsReachabilityHolds == Spec => []SearchIsReachability
<1>1. Inv => SearchIsReachability
  <2> SUFFICES ASSUME Inv, load.todo = {}
               PROVE  LET def == load.def
                          all == DOMAIN def.nodes \cup Inherited
                          after(n) == Edges(def, n)
                          before(n) == Before(def, n)
                      IN /\ load.phase = "forward" =>
                              load.seen = Closure({Start(load.doc)}, after, all)
                         /\ load.phase = "backward" =>
                              /\ load.seen = Closure(Ends(def), before, all)
                              /\ load.reachable = Closure({Start(load.doc)}, after, all)
    BY DEF SearchIsReachability
  <2>1. CASE load.phase = "forward"
    <3>1. load.def = Definition(load.doc, env) /\ Forward(load.doc, load.seen, {})
      BY <2>1 DEF Inv, LoadInv, SearchInv
    <3> QED  BY <2>1, <3>1, ClosureAhead DEF Closure
  <2>2. CASE load.phase = "backward"
    <3>1. /\ load.def = Definition(load.doc, env)
          /\ Forward(load.doc, load.reachable, {}) /\ Backward(load.doc, load.seen, {})
      BY <2>2 DEF Inv, LoadInv, SearchInv
    <3> QED  BY <2>2, <3>1, ClosureAhead, ClosureBack DEF Closure
  <2> QED  BY <2>1, <2>2
<1> QED  BY AcceptedStaysSound, <1>1, PTL

-------------------------------------------------------------------------------
(* What stands in an accepted file is taken from it.                         *)
LEMMA BlocksAreNodes ==
  ASSUME NEW doc, IsFile(doc), NEW server, Accepted(doc, server)
  PROVE  Marked(doc) = FlowBlocks(doc) \cup {BlockOf(doc, n) : n \in Ids(doc)}
<1> DEFINE issues == Validate(doc, server, case.flow)
<1>0. \A code, line : Issue(code, line) \in ParseIssues(doc) => code \in Warnings
  BY NothingBlocks DEF Accepted, Validate
<1>1. ASSUME NEW i \in Marked(doc)
      PROVE  i \in Blocks(doc)
  <2>1. doc[i].type \notin BlockTypes => Issue("block-unknown-type", i) \in ParseIssues(doc)
    BY DEF ParseIssues, ParseUnknown, Issues
  <2>2. doc[i].type \in BlockTypes /\ doc[i].depth # 2 => Issue("block-depth", i) \in ParseIssues(doc)
    BY DEF ParseIssues, Issues
  <2> QED  BY <1>0, <2>1, <2>2 DEF Warnings, Blocks
<1>2. ASSUME NEW i \in NodeBlocks(doc)
      PROVE  IdOf(doc, i) \in Ids(doc) /\ i = BlockOf(doc, IdOf(doc, i))
  <2>1. i \in Blocks(doc) /\ i \in Headings(doc)
    BY DEF NodeBlocks, Blocks, Marked
  <2>2. doc[i].id # None
    <3>1. doc[i].id = None => Issue("block-missing-id", i) \in ParseIssues(doc)
      BY <2>1 DEF ParseIssues, Issues
    <3> QED  BY <1>0, <3>1 DEF Warnings
  <2>3. IdOf(doc, i) # None
    BY <2>1, <2>2, NamesStayNames DEF IdOf, IsFile, Named
  <2>4. i \notin DuplicateNodes(doc)
    BY PassedFlow DEF Accepted
  <2> QED  BY <2>3, <2>4 DEF DuplicateNodes, Ids
<1>3. \A n \in Ids(doc) : BlockOf(doc, n) \in Marked(doc)
  BY BlockOfNode DEF IsFile, NodeBlocks, Blocks
<1>4. FlowBlocks(doc) \subseteq Marked(doc)
  BY DEF FlowBlocks, Blocks
<1> QED  BY <1>1, <1>2, <1>3, <1>4 DEF NodeBlocks

LEMMA AttributesAreTaken ==
  ASSUME NEW doc, IsFile(doc), NEW server, Accepted(doc, server), NEW n \in Ids(doc),
         NEW j \in Zone(doc, BlockOf(doc, n))
  PROVE  /\ NameOf(doc, j) \in AllAttrs
         /\ Attrs(doc, BlockOf(doc, n), server)[NameOf(doc, j)] = doc[j].value
<1> DEFINE i == BlockOf(doc, n)
           issues == Validate(doc, server, case.flow)
           good == {k \in AttrLines(doc, i) : ~Malformed(doc, k) /\ ~Unregistered(doc, k, server)}
<1>0. \A code, line : Issue(code, line) \in issues => code \in Warnings
  BY NothingBlocks DEF Accepted
<1>1. i \in NodeBlocks(doc) /\ i \in Blocks(doc) /\ doc[i].type \in NodeTypes
  BY BlockOfNode DEF IsFile, NodeBlocks, FlowBlocks, Blocks, BlockTypes
<1>2. ASSUME NEW k \in Zone(doc, i)
      PROVE  NameOf(doc, k) \in NodeAttrs[doc[i].type] /\ k \notin Repeated(doc, i)
  <2>0. AttrIssues(doc, i) \subseteq issues
    BY <1>1 DEF Validate, ParseIssues
  <2>1. NameOf(doc, k) \in NodeAttrs[doc[i].type]
    <3>1. NameOf(doc, k) \notin NodeAttrs[doc[i].type] =>
            \/ Issue("block-attr-unsupported", k) \in AttrIssues(doc, i)
            \/ Issue("block-attr-unknown", k) \in AttrIssues(doc, i)
      BY DEF AttrIssues, Issues
    <3> QED  BY <1>0, <2>0, <3>1 DEF Warnings
  <2>2. k \notin Repeated(doc, i)
    <3>1. k \in Repeated(doc, i) => Issue("block-attr-duplicate", k) \in AttrIssues(doc, i)
      BY <2>1 DEF AttrIssues, Issues
    <3> QED  BY <1>0, <2>0, <3>1 DEF Warnings
  <2> QED  BY <2>1, <2>2
<1>3. NameOf(doc, j) \in AllAttrs
  BY <1>1, <1>2 DEF AllAttrs
<1>4. j \in good
  <2>0. ValueIssues(doc, i, server) \subseteq issues
    BY PassedFlow DEF Accepted, NodeIssues
  <2>1. j \in AttrLines(doc, i)
    BY <1>2 DEF AttrLines
  <2>2. ~Malformed(doc, j)
    <3>1. Malformed(doc, j) => Issue("attr-invalid", j) \in ValueIssues(doc, i, server)
      BY <2>1 DEF ValueIssues, Issues
    <3> QED  BY <1>0, <2>0, <3>1 DEF Warnings
  <2>3. ~Unregistered(doc, j, server)
    <3>1. Unregistered(doc, j, server) =>
            Issue(Missing(doc, j), j) \in ValueIssues(doc, i, server)
      BY <2>1, <2>2 DEF ValueIssues
    <3> QED  BY <1>0, <2>0, <3>1 DEF Warnings, Missing
  <2> QED  BY <2>1, <2>2, <2>3
<1>5. ASSUME NEW k \in good, NameOf(doc, k) = NameOf(doc, j)
      PROVE  k = j
  <2>1. k \in Zone(doc, i)
    BY DEF AttrLines
  <2>2. k \in Nat /\ j \in Nat
    BY <2>1 DEF Zone, BodyOf, IsFile, Numbered
  <2>3. ~(k < j) /\ ~(j < k)
    BY <1>2, <1>5, <2>1 DEF Repeated
  <2> QED  BY <2>2, <2>3
<1> DEFINE name == NameOf(doc, j)
           line == CHOOSE k \in good : NameOf(doc, k) = name
<1>6. line = j
  <2>1. line \in good /\ NameOf(doc, line) = name
    BY <1>4
  <2> QED  BY <1>5, <2>1
<1>7. Attrs(doc, i, server)[name] = doc[line].value
  BY <1>3, <1>4 DEF Attrs
<1> QED  BY <1>3, <1>6, <1>7

(* The block of the @flow: no attribute is left above its routes, and its    *)
(* starts agree, because two that do not are reported.                       *)
LEMMA FlowIsItsStart ==
  ASSUME NEW doc, IsFile(doc), NEW server, Accepted(doc, server), NEW f \in FlowBlocks(doc)
  PROVE  Zone(doc, f) = {} /\ \A j \in StartLines(doc, f) : To(doc, j) = Start(doc)
<1> DEFINE issues == Validate(doc, server, case.flow)
           before(j) == {k \in RouteLines(doc, f) : k < j /\ On(doc, k) = On(doc, j)}
<1>0. \A code, line : Issue(code, line) \in issues => code \in Warnings
  BY NothingBlocks DEF Accepted
<1>1. f \in Blocks(doc) /\ doc[f].type = "flow"
  BY DEF FlowBlocks
<1>2. ASSUME NEW k \in Zone(doc, f)
      PROVE  FALSE
  <2>1. NameOf(doc, k) \notin NodeAttrs[doc[f].type]
    BY <1>1 DEF NodeAttrs
  <2>2. \/ Issue("block-attr-unsupported", k) \in AttrIssues(doc, f)
        \/ Issue("block-attr-unknown", k) \in AttrIssues(doc, f)
    BY <2>1 DEF AttrIssues, Issues
  <2>3. AttrIssues(doc, f) \subseteq issues
    BY <1>1 DEF Validate, ParseIssues
  <2> QED  BY <1>0, <2>2, <2>3 DEF Warnings
<1>3. f = FirstOf(FlowBlocks(doc)) /\ OutcomeIssues(doc, f) \subseteq issues
  <2> DEFINE flows == FlowBlocks(doc)
             g == FirstOf(flows)
  <2>1. OutcomeIssues(doc, g) \subseteq issues /\ ~(Cardinality(flows) > 1)
    BY PassedFlow DEF Accepted
  <2>2. flows \subseteq DOMAIN doc /\ DOMAIN doc \subseteq Nat /\ IsFiniteSet(DOMAIN doc)
    BY DEF FlowBlocks, Blocks, Marked, Headings, IsFile, Numbered
  <2>3. g \in flows
    BY <2>2, FirstIsOne
  <2>4. ASSUME f # g
        PROVE  FALSE
    <3>1. IsFiniteSet(flows)
      BY <2>2, FS_Subset
    <3>2. IsFiniteSet({f}) /\ Cardinality({f}) = 1
      BY FS_Singleton
    <3>3. Cardinality({f} \cup {g}) = 2
      BY <2>4, <3>2, FS_AddElement
    <3>4. Cardinality({f} \cup {g}) <= Cardinality(flows)
      BY <2>3, <3>1, FS_Subset
    <3>5. Cardinality(flows) \in Nat
      BY <3>1, FS_CardinalityType
    <3>6. Cardinality(flows) <= 1
      BY <2>1, <3>5
    <3> HIDE DEF flows, g
    <3> QED  BY <3>3, <3>4, <3>5, <3>6
  <2> QED  BY <2>1, <2>4
<1>4. ASSUME NEW j \in StartLines(doc, f)
      PROVE  To(doc, j) = Start(doc)
  <2> DEFINE first == FirstOf(StartLines(doc, f))
  <2>1. StartLines(doc, f) \subseteq Nat
    BY DEF StartLines, RouteLines, BodyOf, IsFile, Numbered
  <2>2. first \in StartLines(doc, f) /\ \A k \in StartLines(doc, f) : first <= k
    BY <2>1, FirstIsOne
  <2>3. CASE j = first
    BY <1>3, <2>3 DEF Start
  <2>4. CASE j # first
    <3>1. first \in before(j)
      BY <2>1, <2>2, <2>4 DEF StartLines
    <3>2. FirstOf(before(j)) = first
      BY <2>1, <2>2, <3>1 DEF FirstOf, StartLines
    <3>3. To(doc, FirstOf(before(j))) = To(doc, j)
      <4>1. To(doc, FirstOf(before(j))) # To(doc, j) =>
              Issue("route-outcome-duplicate", j) \in OutcomeIssues(doc, f)
        BY <3>1 DEF OutcomeIssues, Issues, StartLines
      <4> QED  BY <1>0, <1>3, <4>1 DEF Warnings
    <3> QED  BY <1>3, <3>2, <3>3 DEF Start
  <2> QED  BY <2>3, <2>4
<1> QED  BY <1>2, <1>4

(* Every marked heading, and every attribute and route of a node, of an      *)
(* accepted file is in the definition that is walked; all its starts lead to *)
(* where that starts, and its @flow has no attributes (the parser and the    *)
(* validator against what the runner executes).                              *)
THEOREM NothingIgnoredHolds == Spec => []NothingIgnored
<1>1. Inv => NothingIgnored
  <2> SUFFICES ASSUME Inv, exec.def # None
               PROVE  LET doc == exec.doc  nodes == exec.def.nodes IN
                      /\ Marked(doc) = FlowBlocks(doc) \cup {nodes[n].line : n \in DOMAIN nodes}
                      /\ \A f \in FlowBlocks(doc) :
                           /\ Zone(doc, f) = {}
                           /\ \A j \in StartLines(doc, f) : To(doc, j) = exec.def.start
                      /\ \A n \in DOMAIN nodes : \A j \in Zone(doc, nodes[n].line) :
                           /\ NameOf(doc, j) \in AllAttrs
                           /\ nodes[n].attrs[NameOf(doc, j)] = doc[j].value
                      /\ \A n \in DOMAIN nodes : \A j \in RouteLines(doc, nodes[n].line) :
                           \E r \in nodes[n].routes :
                             r.line <= j /\ r.on = On(doc, j) /\ r.to = To(doc, j)
    BY DEF NothingIgnored
  <2> DEFINE doc == exec.doc
             nodes == exec.def.nodes
             route(j) == [on |-> On(doc, j), to |-> To(doc, j), line |-> j]
  <2>1. IsFile(doc) /\ exec.def = Definition(doc, env) /\ Accepted(doc, env)
    BY DEF Inv, ExecInv, Sound
  <2>2. DOMAIN nodes = Ids(doc)
    BY <2>1, GraphOfDefinition
  <2>3. \A n \in Ids(doc) :
          /\ nodes[n].line = BlockOf(doc, n)
          /\ nodes[n].attrs = Attrs(doc, BlockOf(doc, n), env)
          /\ nodes[n].routes = {route(j) : j \in RouteLines(doc, BlockOf(doc, n))}
    BY <2>1 DEF Definition
  <2>4. Marked(doc) = FlowBlocks(doc) \cup {nodes[n].line : n \in DOMAIN nodes}
    BY <2>1, <2>2, <2>3, BlocksAreNodes
  <2>5. ASSUME NEW n \in Ids(doc), NEW j \in Zone(doc, nodes[n].line)
        PROVE  NameOf(doc, j) \in AllAttrs /\ nodes[n].attrs[NameOf(doc, j)] = doc[j].value
    BY <2>1, <2>3, AttributesAreTaken
  <2>6. ASSUME NEW n \in Ids(doc), NEW j \in RouteLines(doc, nodes[n].line)
        PROVE  \E r \in nodes[n].routes : r.line <= j /\ r.on = On(doc, j) /\ r.to = To(doc, j)
    <3>1. j \in Nat
      BY <2>1 DEF RouteLines, BodyOf, IsFile, Numbered
    <3>2. route(j) \in nodes[n].routes
      BY <2>3
    <3> QED  BY <3>1, <3>2
  <2>7. ASSUME NEW f \in FlowBlocks(doc)
        PROVE  Zone(doc, f) = {} /\ \A j \in StartLines(doc, f) : To(doc, j) = exec.def.start
    BY <2>1, FlowIsItsStart DEF Definition
  <2> QED  BY <2>2, <2>4, <2>5, <2>6, <2>7
<1> QED  BY AcceptedStaysSound, <1>1, PTL

-------------------------------------------------------------------------------
(* The flow that is asked for is a matter of its name only.                  *)
LEMMA NameDecides ==
  ASSUME NEW doc, IsFile(doc), NEW server, NEW asked,
         \A f \in FlowBlocks(doc) : IdOf(doc, f) = Lower[asked]
  PROVE  Validate(doc, server, asked) = Validate(doc, server, None)
<1>1. CASE FlowBlocks(doc) = {}
  BY <1>1 DEF Validate
<1>2. CASE FlowBlocks(doc) # {}
  <2> DEFINE f == FirstOf(FlowBlocks(doc))
  <2>1. f \in FlowBlocks(doc)
    BY <1>2, FirstIsOne DEF IsFile, Numbered, FlowBlocks, Blocks, Marked, Headings
  <2>2. IdOf(doc, f) = Lower[asked]
    BY <2>1
  <2>3. FlowIssues(doc, server, f, asked) = FlowIssues(doc, server, f, None)
    BY <2>2 DEF FlowIssues
  <2> QED  BY <1>2, <2>3 DEF Validate
<1> QED  BY <1>1, <1>2

(* What flow:lint passes the server takes, and the other way round, for one  *)
(* file under one registry: whatever was loaded, edited or redeployed between *)
(* the two verdicts, if file and registry are the same again they agree      *)
(* (flow-lint.ts against load()).                                            *)
THEOREM LintAgreesWithLoadHolds == Spec => []LintAgreesWithLoad
<1>1. Inv => LintAgreesWithLoad
  <2> SUFFICES ASSUME Inv, lint # None, load.phase = "answer", load.purpose # "lint",
                      lint.doc = load.doc, lint.env = env, Marked(load.doc) # {},
                      \A f \in FlowBlocks(load.doc) : IdOf(load.doc, f) = Lower[case.flow]
               PROVE  lint.ok <=> Ok
    BY DEF LintAgreesWithLoad
  <2> DEFINE doc == load.doc
  <2>1. /\ doc # None /\ Judged(doc, env, "lint", lint.ok)
        /\ Judged(doc, env, load.purpose, Ok)
    BY DEF Inv, LintInv, LoadInv
  <2>2. IsFile(doc)
    BY <2>1 DEF Judged
  <2>3. ~Skips(doc)
    <3> SUFFICES ASSUME Blocks(doc) = {}
                 PROVE  ParseIssues(doc) # {}
      BY DEF Skips
    <3>1. PICK i \in Marked(doc) : TRUE
      OBVIOUS
    <3>2. \/ Issue("block-unknown-type", i) \in ParseIssues(doc)
          \/ Issue("block-depth", i) \in ParseIssues(doc)
      BY <3>1 DEF Blocks, ParseIssues, ParseUnknown, Issues
    <3> QED  BY <3>2
  <2>4. Validate(doc, env, case.flow) = Validate(doc, env, None)
    BY <2>2, NameDecides
  <2>5. lint.ok <=> Verdict(doc, env, None)
    BY <2>1, <2>3 DEF Judged, Asked
  <2>6. Ok <=> Verdict(doc, env, case.flow)
    BY <2>1 DEF Judged, Asked
  <2> QED  BY <2>4, <2>5, <2>6 DEF Verdict
<1> QED  BY AcceptedStaysSound, <1>1, PTL
===============================================================================
