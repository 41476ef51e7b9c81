------------------------------ MODULE FastPath ------------------------------
(***************************************************************************)
(* The regex engine of policy.yaml: how a file becomes a compiled policy   *)
(* (internal/config/policy.go) and how a policy decides a tool call        *)
(* (internal/policy).  These are pure operators; PreToolHook and the proxy *)
(* gates use them.                                                         *)
(*                                                                         *)
(* Abstraction.  Text (commands, paths, raw JSON) is a member of an opaque *)
(* set and regexp.MatchString is the constant relation Regexp.  Which text *)
(* a rule is matched against is modelled exactly.                          *)
(***************************************************************************)
EXTENDS Naturals, Sequences

CONSTANTS
  Regexp,       (* set of <<pattern, text>> pairs: the pattern finds the text   *)
  Compilable,   (* the patterns Go's RE2 accepts                                *)
  EmptyText,    (* the text of a field the input does not have                  *)
  NoPattern,    (* a rule without `pattern`                                     *)
  NoField       (* a rule without `field`                                       *)

(* A policy.yaml that yields no policy: missing, respectively refused. *)
CONSTANTS Absent, Broken

-----------------------------------------------------------------------------
(* Loading *)

(* compileList keeps a rule iff it names a tool and its pattern compiles. *)
CompiledRule(r) == r.tool # "" /\ (r.pattern = NoPattern \/ r.pattern \in Compilable)

compileList(rules) == SelectSeq(rules, CompiledRule)

(* LoadPolicy on a file that parsed as YAML. *)
validateAndCompile(file) ==
  IF file.version # 1 \/ file.default \notin {"", "agent", "approve", "deny"}
  THEN Broken
  ELSE [default  |-> IF file.default = "" THEN "agent" ELSE file.default,
        deny     |-> compileList(file.deny),
        allow    |-> compileList(file.allow),
        to_agent |-> compileList(file.to_agent)]

LoadPolicy(file) ==
  IF file \in {Absent, Broken} THEN file ELSE validateAndCompile(file)

-----------------------------------------------------------------------------
(* Matching *)

(* The field a rule of a known tool looks at when it names none. *)
defaultFieldFor(tool) ==
  CASE tool = "Bash"                      -> "command"
    [] tool \in {"Read", "Edit", "Write"} -> "file_path"
    [] tool \in {"Glob", "Grep"}          -> "pattern"
    [] tool = "Task"                      -> "description"
    [] OTHER                              -> "raw"

FieldOf(r, a) ==
  IF r.field # NoField THEN r.field
  ELSE IF r.tool = "*" THEN "raw"
  ELSE defaultFieldFor(a.tool)

(* An action's input is [raw |-> text, fields |-> field name -> text]; an    *)
(* input that is no JSON object has Broken fields, one that is empty Absent. *)
selectField(field, a) ==
  IF field = "raw" \/ a.input.fields = Broken THEN a.input.raw
  ELSE IF a.input.fields # Absent /\ field \in DOMAIN a.input.fields
  THEN a.input.fields[field]
  ELSE EmptyText

matches(r, a) ==
  /\ r.tool \in {"*", a.tool}
  /\ r.pattern # NoPattern => <<r.pattern, selectField(FieldOf(r, a), a)>> \in Regexp

-----------------------------------------------------------------------------
(* Evaluation *)

SomeRule(rules, a) == \E i \in DOMAIN rules : matches(rules[i], a)

FirstRule(rules, a) ==
  CHOOSE i \in DOMAIN rules :
    matches(rules[i], a) /\ \A j \in DOMAIN rules : matches(rules[j], a) => i <= j

Verdict(outcome, type, i) == [outcome |-> outcome, rule_type |-> type, rule_index |-> i]

defaultDecision(p) ==
  Verdict(CASE p.default = "approve" -> "allow"
            [] p.default = "deny"    -> "deny"
            [] OTHER                 -> "agent", "default", 0)

ByRule(outcome, type, rules, a) == Verdict(outcome, type, FirstRule(rules, a))

(* Eval with allow tried before deny: the swapped order.  A mutant of Eval. *)
AllowFirst(p, a) ==
  IF p = Absent THEN Verdict("agent", "no-policy", 0)
  ELSE IF SomeRule(p.allow, a) THEN ByRule("allow", "allow", p.allow, a)
  ELSE IF SomeRule(p.deny, a) THEN ByRule("deny", "deny", p.deny, a)
  ELSE IF SomeRule(p.to_agent, a) THEN ByRule("agent", "to_agent", p.to_agent, a)
  ELSE defaultDecision(p)

(* The code's RuleIndex counts from 0 and is -1 where there is no rule; here *)
(* it counts from 1 and is 0.                                                *)
Eval(p, a) ==
  IF p = Absent THEN Verdict("agent", "no-policy", 0)
  ELSE IF SomeRule(p.deny, a) THEN ByRule("deny", "deny", p.deny, a)
  ELSE IF SomeRule(p.allow, a) THEN ByRule("allow", "allow", p.allow, a)
  ELSE IF SomeRule(p.to_agent, a) THEN ByRule("agent", "to_agent", p.to_agent, a)
  ELSE defaultDecision(p)
=============================================================================
