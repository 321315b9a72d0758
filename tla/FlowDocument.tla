------------------------------ MODULE FlowDocument ------------------------------
(***************************************************************************)
(* The language of Skill Flows: what the parser (skills/flow-parser.ts)     *)
(* makes of a SKILL.md, what the validator (skills/flow-validator.ts)       *)
(* reports, and what the runner makes of a @review (workflow/runner.ts).    *)
(*                                                                          *)
(* A document is a sequence of lines.  A heading has a depth and, if it     *)
(* starts with @, a type ("unknown" if there is none of that name) and an   *)
(* id; below it stand attributes ("name: value"), routes ("on -> to") and   *)
(* text.  The position of a line is its line number.  Attribute values are  *)
(* abstracted to what the validator tells apart: "?" is a malformed value,  *)
(* as is 0 for "required" and a set with "?" in it for "tools".             *)
(***************************************************************************)
EXTENDS Naturals, FiniteSets

CONSTANTS
  None,
  Lower,      \* names to their lower case
  Inherited   \* names every object has: nodes[name] is never undefined

NodeTypes == {"task", "gate", "review", "command", "stop", "end"}
BlockTypes == NodeTypes \cup {"flow"}
Terminal == {"stop", "end"}

NodeAttrs ==
  [task |-> {"output", "tools"}, gate |-> {},
   review |-> {"role", "strategy", "required", "exclude"},
   command |-> {"role"}, stop |-> {}, end |-> {}, flow |-> {}]

AllAttrs == UNION {NodeAttrs[t] : t \in NodeTypes}

(* What the runtime can give as outcome; a gate's outcomes are registered.   *)
NodeOutcomes ==
  [task |-> {"success", "fail"}, gate |-> {}, review |-> {"approve", "reject"},
   command |-> {"success", "fail"}, stop |-> {}, end |-> {}]

AllowedKinds == {"read", "write", "url"}
PermissionKinds == AllowedKinds \cup {"shell", "mcp"}

FirstOf(S) == CHOOSE x \in S : \A y \in S : x <= y

-------------------------------------------------------------------------------
(* parseSkillFlow.  Headings of any depth below 2 belong to the body of the  *)
(* block above them, with the routes under them.                             *)

Headings(doc) == {i \in DOMAIN doc : doc[i].is = "heading"}
Marked(doc) == {i \in Headings(doc) : doc[i].type # "none"}
Blocks(doc) == {i \in Marked(doc) : doc[i].type \in BlockTypes /\ doc[i].depth = 2}
FlowBlocks(doc) == {i \in Blocks(doc) : doc[i].type = "flow"}
NodeBlocks(doc) == Blocks(doc) \ FlowBlocks(doc)

BodyOf(doc, i) ==
  {j \in DOMAIN doc : j > i /\ \A k \in i + 1 .. j :
                        doc[k].is = "heading" => doc[k].depth > 2}

IdOf(doc, i) == IF doc[i].id = None THEN None ELSE Lower[doc[i].id]

RouteLines(doc, i) == {j \in BodyOf(doc, i) : doc[j].is = "route"}
On(doc, j) == Lower[doc[j].on]
To(doc, j) == Lower[doc[j].to]

(* splitAttrs: the attribute lines right below the heading; if none of them  *)
(* is a reserved name they are text.                                         *)
NameOf(doc, j) == Lower[doc[j].name]

Zone(doc, i) ==
  LET zone == {j \in BodyOf(doc, i) : \A k \in i + 1 .. j : doc[k].is = "attr"}
  IN IF \E j \in zone : NameOf(doc, j) \in AllAttrs THEN zone ELSE {}

(* The lines of the zone whose name stands above them in it already.         *)
Repeated(doc, i) ==
  LET zone == Zone(doc, i) IN
  {j \in zone : \E k \in zone : k < j /\ NameOf(doc, k) = NameOf(doc, j)}

AttrLines(doc, i) ==
  {j \in Zone(doc, i) : NameOf(doc, j) \in NodeAttrs[doc[i].type]} \ Repeated(doc, i)

Issue(code, line) == [code |-> code, line |-> line]
Issues(code, lines) == {Issue(code, i) : i \in lines}

AttrIssues(doc, i) ==
  LET foreign == {j \in Zone(doc, i) : NameOf(doc, j) \notin NodeAttrs[doc[i].type]} IN
  Issues("block-attr-unsupported", {j \in foreign : NameOf(doc, j) \in AllAttrs})
    \cup Issues("block-attr-unknown", {j \in foreign : NameOf(doc, j) \notin AllAttrs})
    \cup Issues("block-attr-duplicate", Repeated(doc, i) \ foreign)

StartLines(doc, i) == {j \in RouteLines(doc, i) : On(doc, j) = "start"}

ParseUnmarked(doc) == {}

ParseUnknown(doc) ==
  Issues("block-unknown-type", {i \in Marked(doc) : doc[i].type \notin BlockTypes})

ParseIssues(doc) ==
  ParseUnknown(doc)
    \cup Issues("block-depth",
                {i \in Marked(doc) : doc[i].type \in BlockTypes /\ doc[i].depth # 2})
    \cup Issues("block-missing-id", {i \in Blocks(doc) : doc[i].id = None})
    \cup Issues("flow-missing-start",
                {i \in FlowBlocks(doc) : doc[i].id # None /\ StartLines(doc, i) = {}})
    \cup UNION {AttrIssues(doc, i) : i \in Blocks(doc)}

-------------------------------------------------------------------------------
(* The registry of the server (workflow/registry.ts) and its options:        *)
(*   gates     the outcomes of each gate                                     *)
(*   reviews   the declared policy of each review, count 0 if left out       *)
(*   commands, outputs, roles    what is registered                          *)
(*   tools     config.workflowAgentTools                                     *)
(*   output    whether a @task needs a contract                              *)

(* "ALL" means all roles: fewer votes would be an ANY by another name.       *)
AllVotes(strategy, count, roles) == IF count < roles THEN roles ELSE count

RequiredVotes(strategy, count, roles) ==
  IF strategy = "ALL" THEN AllVotes(strategy, count, roles) ELSE count

BasePolicy(review) ==
  [review EXCEPT !.count = IF @ # 0 THEN @
                           ELSE IF review.strategy = "ALL" THEN Cardinality(review.roles)
                           ELSE 1]

(* registerFlowGate and registerFlowReview refuse what could not work.       *)
Registers(env) ==
  /\ \A g \in DOMAIN env.gates : env.gates[g] # {}
  /\ \A r \in DOMAIN env.reviews :
       LET base == BasePolicy(env.reviews[r]) IN
       /\ base.roles # {}
       /\ RequiredVotes(base.strategy, base.count, Cardinality(base.roles)) <= base.count

-------------------------------------------------------------------------------
(* buildAttrs: a value that is not valid is reported and left out.           *)

Malformed(doc, j) ==
  LET v == doc[j].value IN
  CASE NameOf(doc, j) = "required" -> v = 0
    [] NameOf(doc, j) = "tools" -> v = {} \/ ~(v \subseteq PermissionKinds)
    [] NameOf(doc, j) = "strategy" -> v \notin {"ANY", "ALL"}
    [] NameOf(doc, j) = "exclude" -> v \notin {"initiator", "none"}
    [] OTHER -> v = "?"

Unregistered(doc, j, env) ==
  \/ NameOf(doc, j) = "role" /\ doc[j].value \notin env.roles
  \/ NameOf(doc, j) = "output" /\ doc[j].value \notin env.outputs

Missing(doc, j) ==
  IF NameOf(doc, j) = "role" THEN "role-missing" ELSE "registry-missing-output"

ValueIssues(doc, i, env) ==
  LET bad == {j \in AttrLines(doc, i) : Malformed(doc, j)} IN
  Issues("attr-invalid", bad)
    \cup {Issue(Missing(doc, j), j) :
            j \in {j \in AttrLines(doc, i) \ bad : Unregistered(doc, j, env)}}

Attrs(doc, i, env) ==
  LET good == {j \in AttrLines(doc, i) : ~Malformed(doc, j) /\ ~Unregistered(doc, j, env)}
  IN [name \in AllAttrs |->
        IF \E j \in good : NameOf(doc, j) = name
          THEN doc[CHOOSE j \in good : NameOf(doc, j) = name].value
          ELSE None]

-------------------------------------------------------------------------------
(* What a @review comes to: the base policy, narrowed by the attributes      *)
(* (runner.ts, reviewPolicyFor).  The validator computes it too, and must    *)
(* report whatever the runner would refuse or silently correct.              *)

NarrowRoles(base, attrs) ==
  IF attrs["role"] = None THEN base.roles ELSE base.roles \cap {attrs["role"]}

NarrowStrategy(base, attrs) ==
  IF base.strategy = "ALL" \/ attrs["strategy"] = None THEN base.strategy
  ELSE attrs["strategy"]

CountAsWritten(base, attrs) ==
  IF attrs["required"] = None THEN base.count ELSE attrs["required"]

NarrowCount(base, attrs) ==
  IF attrs["required"] = None \/ attrs["required"] < base.count THEN base.count
  ELSE attrs["required"]

ReviewPolicy(base, attrs) ==
  LET roles == NarrowRoles(base, attrs)  strategy == NarrowStrategy(base, attrs) IN
  [roles |-> roles,
   strategy |-> strategy,
   count |-> RequiredVotes(strategy, NarrowCount(base, attrs), Cardinality(roles)),
   initiator |-> base.initiator /\ attrs["exclude"] # "initiator"]

RoleIsAnyones(base, attrs) == FALSE
RoleIsForeign(base, attrs) == attrs["role"] # None /\ attrs["role"] \notin base.roles

(* checkNarrowing.                                                           *)
Narrowing(base, attrs, line) ==
  LET policy == ReviewPolicy(base, attrs)
      widens ==
        \/ base.strategy = "ALL" /\ attrs["strategy"] = "ANY"
        \/ attrs["required"] # None /\ attrs["required"] < base.count
        \/ attrs["exclude"] = "none" /\ ~base.initiator
  IN (IF RoleIsForeign(base, attrs) THEN {Issue("role-not-allowed", line)} ELSE {})
       \cup (IF widens THEN {Issue("attr-widens", line)} ELSE {})
       \cup (IF policy.roles # {} /\ policy.count > NarrowCount(base, attrs)
               THEN {Issue("review-all-required", line)} ELSE {})

-------------------------------------------------------------------------------
(* The definition: the first block of each id.  The nodes are kept in a      *)
(* plain object, where an inherited name counts as taken and as found.       *)

Ids(doc) == {IdOf(doc, i) : i \in NodeBlocks(doc)} \ ({None} \cup Inherited)
BlockOf(doc, n) == FirstOf({i \in NodeBlocks(doc) : IdOf(doc, i) = n})
Found(doc, n) == n \in Ids(doc) \cup Inherited

Start(doc) == To(doc, FirstOf(StartLines(doc, FirstOf(FlowBlocks(doc)))))

Definition(doc, env) ==
  [start |-> Start(doc),
   nodes |-> [n \in Ids(doc) |->
     LET i == BlockOf(doc, n) IN
     [type |-> doc[i].type,
      line |-> i,
      routes |-> {[on |-> On(doc, j), to |-> To(doc, j), line |-> j] :
                    j \in RouteLines(doc, i)},
      attrs |-> Attrs(doc, i, env)]]]

-------------------------------------------------------------------------------
(* validateSkillFlow, rule by rule, for the block i of a node.               *)

OutcomeIssues(doc, i) ==
  LET before(j) == {k \in RouteLines(doc, i) : k < j /\ On(doc, k) = On(doc, j)}
      again == {j \in RouteLines(doc, i) : before(j) # {}}
      same == {j \in again : To(doc, FirstOf(before(j))) = To(doc, j)}
  IN Issues("route-outcome-redundant", same)
       \cup Issues("route-outcome-duplicate", again \ same)

RouteIssues(doc, i) ==
  LET type == doc[i].type
      lines == RouteLines(doc, i)
      allowed == NodeOutcomes[type]
  IN Issues("terminal-has-route", {k \in {i} : type \in Terminal /\ lines # {}})
       \cup Issues("node-missing-route", {k \in {i} : type \notin Terminal /\ lines = {}})
       \cup Issues("route-target-missing", {j \in lines : ~Found(doc, To(doc, j))})
       \cup Issues("node-unknown-outcome",
                   {j \in lines : allowed # {} /\ On(doc, j) \notin allowed})
       \cup OutcomeIssues(doc, i)

MissingUnchecked(doc, i) == {}

MissingOutcomes(doc, i) ==
  {k \in {i} : ~(NodeOutcomes[doc[i].type] \subseteq {On(doc, j) : j \in RouteLines(doc, i)})}

GateIssues(doc, i, env) ==
  LET declared == env.gates[IdOf(doc, i)]
      routed == {On(doc, j) : j \in RouteLines(doc, i)}
  IN IF doc[i].type # "gate" \/ IdOf(doc, i) \notin DOMAIN env.gates THEN {}
     ELSE Issues("gate-outcome-unrouted", {k \in {i} : ~(declared \subseteq routed)})
            \cup Issues("gate-outcome-unknown", {k \in {i} : ~(routed \subseteq declared)})

RegistryIssues(doc, i, env) ==
  LET id == IdOf(doc, i)  type == doc[i].type IN
  Issues("registry-missing",
    {k \in {i} : \/ type = "gate" /\ id \notin DOMAIN env.gates
                 \/ type = "review" /\ id \notin DOMAIN env.reviews
                 \/ type = "command" /\ id \notin env.commands})

ReviewIssues(doc, i, env) ==
  LET base == BasePolicy(env.reviews[IdOf(doc, i)]) IN
  IF doc[i].type # "review" \/ IdOf(doc, i) \notin DOMAIN env.reviews THEN {}
  ELSE IF base.roles = {} THEN {Issue("review-missing-role", i)}
  ELSE Narrowing(base, Attrs(doc, i, env), i)

ToolIssues(doc, i, env) ==
  LET tools == Attrs(doc, i, env)["tools"] IN
  IF doc[i].type # "task" \/ tools = None THEN {}
  ELSE IF ~(tools \subseteq AllowedKinds) THEN {Issue("task-tools-forbidden", i)}
  ELSE Issues("task-tools-widens", {k \in {i} : ~(tools \subseteq env.tools)})

OutputIssues(doc, i, env) ==
  Issues("task-output-missing",
    {k \in {i} : /\ env.output /\ doc[i].type = "task"
                 /\ Attrs(doc, i, env)["output"] = None})

NodeIssues(doc, env, n) ==
  LET i == BlockOf(doc, n) IN
  ValueIssues(doc, i, env) \cup RouteIssues(doc, i)
    \cup Issues("node-missing-outcome", MissingOutcomes(doc, i))
    \cup GateIssues(doc, i, env) \cup RegistryIssues(doc, i, env)
    \cup ReviewIssues(doc, i, env) \cup ToolIssues(doc, i, env)
    \cup OutputIssues(doc, i, env)

(* A second block of an id, or a block whose id is an inherited name.        *)
DuplicateNodes(doc) ==
  {i \in NodeBlocks(doc) :
     \/ IdOf(doc, i) \in Inherited
     \/ IdOf(doc, i) # None /\ i # BlockOf(doc, IdOf(doc, i))}

(* The flow that is asked for is None when nobody asks for a certain one.    *)
FlowIssues(doc, env, f, flow) ==
  (IF flow # None /\ IdOf(doc, f) # Lower[flow]
     THEN {Issue("flow-name-mismatch", f)} ELSE {})
    \cup
  (IF StartLines(doc, f) = {} THEN {Issue("flow-missing-start", f)}
   ELSE OutcomeIssues(doc, f)
          \cup Issues("node-duplicate", DuplicateNodes(doc))
          \cup (UNION {NodeIssues(doc, env, n) : n \in Ids(doc)})
          \cup (IF Found(doc, Start(doc)) THEN {}
                ELSE {Issue("start-missing-node", f)}))

Validate(doc, env, flow) ==
  ParseIssues(doc) \cup
    CASE FlowBlocks(doc) = {} -> {Issue("flow-missing", 0)}
      [] Cardinality(FlowBlocks(doc)) > 1 -> {Issue("flow-duplicate", 0)}
      [] OTHER -> FlowIssues(doc, env, FirstOf(FlowBlocks(doc)), flow)

(* What is reported stops the flow, unless it is a warning.                  *)
Warnings == {"route-outcome-redundant", "no-success-path"}
Blocking(issues) == \E x \in issues : x.code \notin Warnings
===============================================================================
