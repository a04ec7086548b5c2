------------------------------- MODULE Robots -------------------------------
(***************************************************************************)
(* Admission by robots.txt (fpt/fetch/robots.py): the file is fetched once *)
(* per tick and retailer, searched line by line for groups that shut every *)
(* page out, and then given to the parser of the standard library.         *)
(*                                                                         *)
(* A text is a sequence of lines that have a key and a value; comments,    *)
(* blank lines and lines without a colon are left out of it.               *)
(***************************************************************************)
EXTENDS Integers, Sequences, FiniteSetsExt

(* The agents whose groups bind the crawler, and its own name.              *)
CONSTANTS NamedAgents, Identified

Whole == {"/", "/*"}

(* Faulty: a group is shut by a plain slash alone.                          *)
ShutsOutPlainly(line) == line.key = "disallow" /\ line.value = "/"

ShutsOutLine(line) == line.key = "disallow" /\ line.value \in Whole

(* _group_disallows_everything: a rule is of the agent that the last        *)
(* user-agent line before it names, whatever stood before that.             *)
GroupDisallowsEverything(text, agent) ==
    \E i, j \in DOMAIN text :
        /\ j < i /\ ShutsOutLine(text[i])
        /\ text[j].key = "user-agent" /\ text[j].value = agent
        /\ \A m \in j + 1..i - 1 : text[m].key # "user-agent"

-----------------------------------------------------------------------------
(* The standard library's parser: groups are lists of agents with rules,    *)
(* the first rule that is a prefix of the path decides, and a path no rule  *)
(* speaks of is open.                                                       *)

Opens(text, i) ==
    text[i].key = "user-agent" /\ (i = 1 \/ text[i - 1].key # "user-agent")

GroupOf(text, i) == Max({0} \cup {j \in 1..i : Opens(text, j)})

AgentsOf(text, g) ==
    {text[i].value : i \in {j \in DOMAIN text : text[j].key = "user-agent"
                                                /\ GroupOf(text, j) = g}}

(* Prefixes maps a path to the rule values that are prefixes of it.         *)
Allows(text, g, prefixes) ==
    LET rules == {i \in DOMAIN text : text[i].key \in {"allow", "disallow"}
                                      /\ GroupOf(text, i) = g /\ text[i].value \in prefixes}
    IN  rules = {} \/ text[Min(rules)].key = "allow"

GroupFor(text, agent) ==
    LET own == {g \in 1..Len(text) : Opens(text, g) /\ agent \in AgentsOf(text, g)}
        any == {g \in 1..Len(text) : Opens(text, g) /\ "*" \in AgentsOf(text, g)}
    IN  IF own # {} THEN Min(own) ELSE IF any # {} THEN Min(any) ELSE 0

CanFetch(text, agent, prefixes) ==
    GroupFor(text, agent) = 0 \/ Allows(text, GroupFor(text, agent), prefixes)

-----------------------------------------------------------------------------
(* What RobotsGate keeps for the rest of the tick: anything but a page that *)
(* came back is no text at all.                                             *)
RobotsText(fetch) == IF ~fetch.raised /\ fetch.status = 200 THEN {fetch.text} ELSE {}

(* check_admission, and RobotsGate.admits that asks it with what is kept.   *)
Admits(fetch, prefixes) ==
    \E text \in RobotsText(fetch) :
        /\ \A agent \in NamedAgents : ~GroupDisallowsEverything(text, agent)
        /\ \A agent \in {Identified, "*"} : CanFetch(text, agent, prefixes)

-----------------------------------------------------------------------------

(* Of the agents that share a group: the one that is named last.            *)
LastAgent(text, g) ==
    text[Max({j \in DOMAIN text : text[j].key = "user-agent" /\ GroupOf(text, j) = g})].value

(* The two readings of a text agree so far: a site is not crawled at all if *)
(* a group of the standard parser shuts every page out and the last of its  *)
(* agents is a named one, whatever its other groups allow and in whatever   *)
(* order they stand; nor is one that shuts a page out for everybody, that   *)
(* page, or one whose robots.txt cannot be had.  A named agent that is not  *)
(* the last of its group is not seen (robots.py:116 overwrites the flag),   *)
(* and a site that shuts it out is crawled.                                 *)
ClosedSitesAreLeftAlone(texts, paths) ==
    \A text \in texts, prefixes \in paths, raised \in BOOLEAN, status \in {200, 404, 503} :
        LET shut == \E g, i \in DOMAIN text :
                        /\ Opens(text, g) /\ LastAgent(text, g) \in NamedAgents
                        /\ GroupOf(text, i) = g
                        /\ text[i].key = "disallow" /\ text[i].value \in Whole
            refused == \E g \in {GroupFor(text, "*")} \ {0} : ~Allows(text, g, prefixes)
        IN  raised \/ status # 200 \/ shut \/ refused =>
                ~Admits([raised |-> raised, status |-> status, text |-> text], prefixes)
=============================================================================
