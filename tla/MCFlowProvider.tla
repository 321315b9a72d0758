----------------------------- MODULE MCFlowProvider -----------------------------
(* Small instances of FlowProvider for TLC: all graphs over three or four     *)
(* nodes, all small deviations from one good document, and all attributes of  *)
(* a review against a few registered policies.                                *)
EXTENDS FlowProvider, Sequences, TLC

Names == {"main", "a", "b", "s", "e", "m", "ghost", "success", "fail", "approve", "reject", "yes",
          "no", "start", "role", "strategy", "required", "exclude", "output", "tools", "owner",
          "constructor", "other"}
MCLower == [n \in Names |-> n] @@ ("A" :> "a") @@ ("Success" :> "success") @@ ("Main" :> "main")

H(type, id) == <<[is |-> "heading", depth |-> 2, type |-> type, id |-> id]>>
R(on, to) == <<[is |-> "route", on |-> on, to |-> to]>>
A(name, value) == <<[is |-> "attr", name |-> name, value |-> value]>>

Review(roles, strategy, count, initiator) ==
  [roles |-> roles, strategy |-> strategy, count |-> count, initiator |-> initiator]

Server(review, gate, tools, output) ==
  [gates |-> "b" :> gate, reviews |-> "b" :> review, commands |-> {"b"}, outputs |-> {"brief"},
   roles |-> {"boss", "clerk"}, tools |-> tools, output |-> output]

Both == {"boss", "clerk"}
Plain == Server(Review({"boss"}, "ANY", 0, FALSE), {"yes", "no"}, {"read", "write", "mcp"}, FALSE)
Changed == Server(Review({"clerk"}, "ALL", 2, FALSE), {"yes", "fail"}, {"read"}, TRUE)

CaseOf(doc, server, later, then) ==
  [doc |-> doc, env |-> server, flow |-> "Main", later |-> later, then |-> then]

(* The graphs: a task, a node of each other kind, a stop or an end.           *)
Outs == [task |-> <<"success", "fail">>, gate |-> <<"yes", "no">>, review |-> <<"approve", "reject">>,
         command |-> <<"success", "fail">>]

Graph(start, type, a1, a2, b1, b2, last) ==
  H("flow", "main") \o R("start", start) \o
  H("task", "a") \o R("success", a1) \o R("fail", a2) \o
  H(type, "b") \o R(Outs[type][1], b1) \o R(Outs[type][2], b2) \o
  H(last, "e") \o (IF "s" \in {a1, a2, b1, b2} THEN H("stop", "s") ELSE <<>>)

Targets == {"a", "b", "e", "s"}
Graphs ==
  {CaseOf(Graph("a", "gate", a1, a2, b1, b2, "end"), Plain, None, Plain) :
     a1 \in Targets, a2 \in Targets, b1 \in {"a", "b", "e"}, b2 \in {"a", "b", "s"}}
  \cup
  {CaseOf(Graph(start, type, "b", a2, b1, "s", last), Plain, None, Changed) :
     start \in {"a", "b", "ghost"}, type \in {"review", "command"}, a2 \in {"a", "ghost", "s"},
     b1 \in {"a", "b", "e"}, last \in {"end", "stop"}}
  \cup
  {CaseOf(Graph("a", "gate", "b", "s", b1, "e", "end"), server, None, then) :
     b1 \in {"a", "constructor"}, server \in {Plain, Changed}, then \in {Plain, Changed}}
  \cup
  {CaseOf(H("flow", "main") \o R("start", "constructor"), Plain, None, Plain)}

(* The deviations: a line dropped, doubled, or replaced by another.           *)
Good ==
  H("flow", "main") \o R("start", "a") \o
  H("task", "a") \o A("output", "brief") \o A("tools", {"read"}) \o R("success", "b") \o R("fail", "s") \o
  H("review", "b") \o A("role", "boss") \o R("approve", "e") \o R("reject", "a") \o
  H("stop", "s") \o H("end", "e")

Replace(i, lines) == SubSeq(Good, 1, i - 1) \o lines \o SubSeq(Good, i + 1, Len(Good))

Others(line) ==
  {<<>>, <<line, line>>} \cup
  (IF line.is = "heading"
     THEN {<<[line EXCEPT !.depth = 3]>>, <<[line EXCEPT !.id = None]>>, <<[line EXCEPT !.id = "A"]>>,
           <<[line EXCEPT !.id = "constructor"]>>, H("unknown", "m") \o <<line>>,
           H("none", None) \o <<line>>} \cup {<<[line EXCEPT !.type = t]>> : t \in BlockTypes}
           \cup {<<line>> \o A("owner", "x"), <<line>> \o A("role", "clerk") \o A("role", "boss")}
   ELSE IF line.is = "route"
     THEN {R("Success", line.to), R("other", line.to), R(line.on, "m"), R(line.on, "A"),
           <<line>> \o R(line.on, "e"), <<line>> \o R("other", "e"), <<line>> \o A("required", 1)}
   ELSE {A("tools", {"shell"}), A("tools", {"?"}), A("tools", {"read", "url"}), A("output", "?"),
         A("output", "nothing"), A("role", "clerk"), A("role", "nobody"), A("required", 0)})

Deviations ==
  {CaseOf(Replace(i, lines), Server(Review(Both, "ANY", 1, FALSE), {"yes"}, {"read", "write"}, TRUE),
          Good, Plain) : <<i, lines>> \in UNION {{i} \X Others(Good[i]) : i \in DOMAIN Good}}
  \cup {CaseOf(Good, Changed, None, Plain), CaseOf(Good, Plain, H("none", None), Changed),
        CaseOf(H("none", None) \o R("yes", "a"), Plain, Good, Plain),
        CaseOf(H("unknown", "main") \o R("start", "a"), Plain, None, Plain)}

(* The attributes of a review.                                                *)
Written(role, strategy, count, exclude) ==
  LET attr(name, value) == IF value = None THEN <<>> ELSE A(name, value) IN
  H("flow", "main") \o R("start", "b") \o
  H("review", "b") \o attr("role", role) \o attr("strategy", strategy) \o
    attr("required", count) \o attr("exclude", exclude) \o
    R("approve", "e") \o R("reject", "s") \o H("end", "e") \o H("stop", "s")

Policies ==
  {Review({"boss"}, "ANY", 0, TRUE), Review(Both, "ANY", 2, FALSE), Review(Both, "ALL", 0, TRUE),
   Review({"clerk"}, "ALL", 2, FALSE)}

Reviews ==
  {CaseOf(Written(role, strategy, count, exclude), Server(policy, {"yes"}, {"read"}, FALSE), None,
          Server(Review(Both, "ALL", 3, TRUE), {"yes"}, {"read"}, FALSE)) :
     role \in {None, "boss", "clerk"}, strategy \in {None, "ANY", "ALL"}, count \in {None, 1, 2, 3},
     exclude \in {None, "initiator", "none"}, policy \in Policies}

MCCases == Graphs \cup Deviations \cup Reviews
===============================================================================
