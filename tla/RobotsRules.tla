------------------------------ MODULE RobotsRules ------------------------------
(***************************************************************************)
(* robots.txt: which groups of a file apply to this crawler, and whether   *)
(* their rules allow a request.                                            *)
(*                                                                         *)
(* A file is the sequence of its lines [field, value] in lower case;       *)
(* comments and lines without colon are dropped by the parser and left     *)
(* out.  The value of a user-agent line is a name, that of a rule a        *)
(* pattern: a sequence of characters in which "*" and a final "$" are      *)
(* special.  A request target is a sequence of characters and escapes,     *)
(* path and query together.                                                *)
(***************************************************************************)
EXTENDS Integers, Sequences, SequencesExt

CONSTANTS
  CrawlerToken,  \* the product name of this crawler
  Unescaped      \* Unescaped[c]: what decoding makes of a character or an escape

-----------------------------------------------------------------------------
(* parse_robots_for                                                        *)

NewGroup == [agents |-> {}, rules |-> <<>>]

\* A user-agent line begins a group unless it follows another one; a rule before
\* the first group is dropped, and so is an empty Allow.
ReadLine(state, line) ==
  LET fresh == ~ state.in_agents
      group == IF fresh \/ state.current = <<>> THEN NewGroup ELSE state.current[1]
      ruled(rule) == IF state.current = <<>> THEN <<>>
                     ELSE <<[state.current[1] EXCEPT !.rules = Append(@, rule)]>>
  IN  CASE line.field = "user-agent" ->
             [groups    |-> IF fresh THEN state.groups \o state.current ELSE state.groups,
              current   |-> <<[group EXCEPT !.agents = @ \cup {line.value}]>>,
              in_agents |-> TRUE]
        [] line.field = "disallow" \/ (line.field = "allow" /\ line.value # <<>>) ->
             [state EXCEPT !.in_agents = FALSE,
                           !.current = ruled([pattern |-> line.value,
                                              allow |-> line.field = "allow"])]
        [] OTHER -> [state EXCEPT !.in_agents = FALSE]

Groups(file) ==
  LET read == FoldLeft(ReadLine, [groups |-> <<>>, current |-> <<>>, in_agents |-> TRUE], file)
  IN  read.groups \o read.current

RulesFor(groups, agent) ==
  LET named == SelectSeq(groups, LAMBDA g : agent \in g.agents)
  IN  FlattenSeq([i \in DOMAIN named |-> named[i].rules])

\* The rules of all groups that name the crawler, else of those for everyone.
ParseRobots(file) ==
  IF \E i \in DOMAIN Groups(file) : CrawlerToken \in Groups(file)[i].agents
  THEN RulesFor(Groups(file), CrawlerToken) ELSE RulesFor(Groups(file), "*")

-----------------------------------------------------------------------------
(* Matching.                                                               *)

\* glob_match: two pointers and the last star.  scan[<<pi, ti, sp, st>>] is what the
\* loop leaves: <<pi, ti>>, or <<0, 0>> when it gives up.
GlobScan(pat, tgt) ==
  LET scan[s \in Nat \X Nat \X Nat \X Nat] ==
        LET pi == s[1]  ti == s[2]  sp == s[3]  st == s[4]
        IN  IF ti > Len(tgt) \/ pi > Len(pat) THEN <<pi, ti>>
            ELSE IF pat[pi] = "*" THEN scan[<<pi + 1, ti, pi, ti>>]
            ELSE IF pat[pi] = tgt[ti] THEN scan[<<pi + 1, ti + 1, sp, st>>]
            ELSE IF sp # 0 THEN scan[<<sp + 1, st + 1, sp, st + 1>>]
            ELSE <<0, 0>>
  IN  scan[<<1, 1, 0, 0>>]

\* Trailing stars match nothing, and a final star everything that is left.  A
\* pattern that is used up before its target is not tried at a later place, even
\* when it is anchored at the end.
GlobMatch(pat, tgt, anchored_end) ==
  LET left == GlobScan(pat, tgt)
  IN  /\ left # <<0, 0>>
      /\ \A i \in left[1]..Len(pat) : pat[i] = "*"
      /\ \/ pat # <<>> /\ Last(pat) = "*"
         \/ ~ anchored_end
         \/ left[2] = Len(tgt) + 1

Special(pattern) == \E i \in DOMAIN pattern : pattern[i] \in {"*", "$"}

\* matches_robots_pattern
MatchesPattern(pattern, target) ==
  IF ~ Special(pattern) THEN IsPrefix(pattern, target)
  ELSE IF Last(pattern) = "$" THEN GlobMatch(Front(pattern), target, TRUE)
  ELSE GlobMatch(pattern, target, FALSE)

\* percent_decode_target
DecodeTarget(target) == [i \in DOMAIN target |-> Unescaped[target[i]]]

Hits(rules, target) ==
  {i \in DOMAIN rules : rules[i].pattern # <<>> /\ MatchesPattern(rules[i].pattern, target)}

\* Fault: of rules of the same length the last one wins.
IsAllowedByLast(rules, raw) ==
  LET hits == Hits(rules, DecodeTarget(raw))
  IN  hits # {} => \E i \in hits : /\ rules[i].allow
                                   /\ \A j \in hits \ {i} :
                                        \/ Len(rules[j].pattern) < Len(rules[i].pattern)
                                        \/ Len(rules[j].pattern) = Len(rules[i].pattern) /\ j < i

\* is_allowed: the longest pattern that matches decides, Allow if there are several.
IsAllowed(rules, raw) ==
  LET hits == Hits(rules, DecodeTarget(raw))
  IN  hits # {} => \E i \in hits : /\ rules[i].allow
                                   /\ \A j \in hits :
                                        Len(rules[j].pattern) <= Len(rules[i].pattern)

-----------------------------------------------------------------------------
(* The published rules, as the comments of the code describe them.         *)

\* Some choice of what each star stands for makes the pattern the target, or a
\* beginning of it when it is not anchored.
Fits(pat, tgt, anchored_end) ==
  LET fits[p \in 1..(Len(pat) + 1), t \in 1..(Len(tgt) + 1)] ==
        IF p > Len(pat) THEN anchored_end => t > Len(tgt)
        ELSE IF pat[p] = "*" THEN \E u \in t..(Len(tgt) + 1) : fits[p + 1, u]
        ELSE t <= Len(tgt) /\ pat[p] = tgt[t] /\ fits[p + 1, t + 1]
  IN  fits[1, 1]

FitsPattern(pattern, target) ==
  IF pattern # <<>> /\ Last(pattern) = "$" THEN Fits(Front(pattern), target, TRUE)
  ELSE Fits(pattern, target, FALSE)

\* The lines that begin the group of line i: the user-agent lines before the last
\* one before it that nothing but user-agent lines follow up to the first rule.
AgentsOf(file, i) ==
  LET agents == {j \in 1..(i - 1) : file[j].field = "user-agent"}
      last   == CHOOSE j \in agents : \A k \in agents : k <= j
  IN  IF agents = {} THEN {}
      ELSE {file[j].value : j \in {j \in agents : \A k \in j..last : k \in agents}}

\* Whether a file allows a target to this crawler.
PublishedAllows(file, raw) ==
  LET own == \E i \in DOMAIN file : file[i].field = "user-agent" /\ file[i].value = CrawlerToken
      rules == {i \in DOMAIN file :
                  /\ file[i].field \in {"allow", "disallow"} /\ file[i].value # <<>>
                  /\ (IF own THEN CrawlerToken ELSE "*") \in AgentsOf(file, i)
                  /\ FitsPattern(file[i].value, DecodeTarget(raw))}
      longest == {i \in rules : \A j \in rules : Len(file[j].value) <= Len(file[i].value)}
  IN  rules = {} \/ \E i \in longest : file[i].field = "allow"

=============================================================================
