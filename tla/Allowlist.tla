----------------------------- MODULE Allowlist -----------------------------
(***************************************************************************)
(* HttpToolConfig::allows (crates/tds-host/src/policy.rs:223-236): is a    *)
(* host covered by the rules of tools.http.allowed_hosts?  The answer is   *)
(* what puts a host into ToolBox's AllowedHosts.                           *)
(*                                                                         *)
(* The code compares characters; a name is a sequence of labels.  The      *)
(* question is whether the one amounts to the other, so names are          *)
(* sequences of characters here, over an alphabet of a few.                *)
(***************************************************************************)
EXTENDS Naturals, SequencesExt

CONSTANTS
  Chars,   \* the alphabet
  Rules,   \* entries that allowed_hosts may have, with blanks and capitals
  Hosts    \* hosts that a URL may name

ASSUME AllowAssumption == Rules \cup Hosts \subseteq Seq(Chars)

VARIABLES
  rules,    \* tools.http.allowed_hosts
  host,     \* the host that is asked for
  answer    \* "none", and then whether it is allowed

allowVars == <<rules, host, answer>>

Lower(name) == [i \in DOMAIN name |-> IF name[i] = "A" THEN "a" ELSE name[i]]

Trimmed(name) ==
  LET inner == {i \in DOMAIN name : name[i] # " "}
  IN  IF inner = {} THEN <<>> ELSE SubSeq(name, Min(inner), Max(inner))

Wildcard == <<"*", ".">>

\* Mutant: the dot before the suffix is not asked for.
MatchesSuffix(name, entry) ==
  LET rule == Lower(Trimmed(entry)) IN
    IF IsPrefix(Wildcard, rule)
    THEN IsSuffix(SubSeq(rule, 3, Len(rule)), Lower(name))
    ELSE Lower(name) = rule

Matches(name, entry) ==
  LET rule   == Lower(Trimmed(entry))
      suffix == SubSeq(rule, 3, Len(rule))
  IN  IF IsPrefix(Wildcard, rule)
      THEN Lower(name) = suffix \/ IsSuffix(<<".">> \o suffix, Lower(name))
      ELSE Lower(name) = rule

allows(name) == \E i \in DOMAIN rules : Matches(name, rules[i])

\* bound: at most two rules.
AllowInit ==
  /\ rules \in {<<>>} \cup {<<r>> : r \in Rules} \cup {<<r, <<"b">>>> : r \in Rules}
  /\ host \in Hosts
  /\ answer = "none"

AskAllowed ==
  /\ answer = "none"
  /\ answer' = IF allows(host) THEN "allowed" ELSE "denied"
  /\ UNCHANGED <<rules, host>>

AllowSpec == AllowInit /\ [][AskAllowed]_allowVars

-----------------------------------------------------------------------------
Labels(name) ==
  FoldLeft(LAMBDA labels, c : IF c = "." THEN Append(labels, <<>>)
                              ELSE [labels EXCEPT ![Len(labels)] = Append(@, c)],
           <<<<>>>>, name)

\* A name is under a rule with a star if its last labels are the rule's.
Covers(entry, name) ==
  LET rule == Labels(Lower(Trimmed(entry))) IN
    IF rule[1] = <<"*">> /\ Len(rule) > 1
    THEN IsSuffix(Tail(rule), Labels(Lower(name)))
    ELSE rule = Labels(Lower(name))

(***************************************************************************)
(* "Exact host match, or a *.example.com suffix match.  Never a substring  *)
(* match" (policy.rs:224-225, README.md:213-214): a host is allowed        *)
(* exactly if it is, or is a subdomain of, what a rule names, label by     *)
(* label, whatever the case and the blanks around a rule, and with dots    *)
(* doubled, leading or trailing.                                           *)
(***************************************************************************)
AllowsByLabels ==
  answer # "none" =>
    (answer = "allowed" <=> \E i \in DOMAIN rules : Covers(rules[i], host))

=============================================================================
