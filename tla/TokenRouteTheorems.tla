-------------------------- MODULE TokenRouteTheorems --------------------------
(* What both resolvers rest on: when an edge may be added to a graph without *)
(* a circle, and what the least fixpoint of conceivable prices contains.     *)
EXTENDS TokenRoutes, TLAPS

(* The market answers and the plans of a world are of their kinds.           *)
LEMMA WorldTyped ==
  ASSUME world \in Worlds, NEW k \in Key
  PROVE  /\ Market(k) \in {"price", "late", "missing"} \cup Reason
         /\ Plans(k) \in Seq(AdapterPlan)
BY WorldsAssumption DEF Market, Plans

(* The reasons and their ranks, spelled out.                                 *)
LEMMA ReasonsListed ==
  /\ DOMAIN Ranking = 1..6
  /\ /\ Ranking[1] = "retryable" /\ Ranking[2] = "budget" /\ Ranking[3] = "invalid"
     /\ Ranking[4] = "cycle" /\ Ranking[5] = "max-depth" /\ Ranking[6] = "unsupported"
  /\ Reason = {"retryable", "budget", "invalid", "cycle", "max-depth", "unsupported"}
<1>1. DOMAIN Ranking = 1..6
  BY DEF Ranking
<1>2. /\ Ranking[1] = "retryable" /\ Ranking[2] = "budget" /\ Ranking[3] = "invalid"
      /\ Ranking[4] = "cycle" /\ Ranking[5] = "max-depth" /\ Ranking[6] = "unsupported"
  BY DEF Ranking
<1>3. Reason = {"retryable", "budget", "invalid", "cycle", "max-depth", "unsupported"}
  <2>1. \A i : i \in 1..6 <=> i = 1 \/ i = 2 \/ i = 3 \/ i = 4 \/ i = 5 \/ i = 6
    OBVIOUS
  <2>2. \A x : x \in Reason <=> \E i \in DOMAIN Ranking : x = Ranking[i]
    BY DEF Reason
  <2> QED BY <1>1, <1>2, <2>1, <2>2
<1> QED BY <1>1, <1>2, <1>3

(* Among reasons that were tried one ranks first.                            *)
LEMMA FirstRanked ==
  ASSUME NEW reasons, \E i \in DOMAIN Ranking : Ranking[i] \in reasons
  PROVE  \E i \in DOMAIN Ranking :
           Ranking[i] \in reasons /\ \A j \in 1..(i - 1) : Ranking[j] \notin reasons
<1> DEFINE in(i) == Ranking[i] \in reasons
           first(i) == in(i) /\ \A j \in 1..(i - 1) : ~in(j)
<1>1. in(1) \/ in(2) \/ in(3) \/ in(4) \/ in(5) \/ in(6)
  <2>1. PICK i \in 1..6 : in(i)
    BY ReasonsListed
  <2>2. i = 1 \/ i = 2 \/ i = 3 \/ i = 4 \/ i = 5 \/ i = 6
    OBVIOUS
  <2> QED BY <2>1, <2>2
<1> HIDE DEF in
<1>2. \E i \in 1..6 : first(i)
  BY <1>1
<1> QED BY <1>2, ReasonsListed DEF in

(* The worst of any reasons is a reason.                                     *)
LEMMA WorstIsReason ==
  ASSUME NEW reasons
  PROVE  Worst(reasons) \in Reason
<1>1. CASE \E i \in DOMAIN Ranking : Ranking[i] \in reasons
  BY <1>1, FirstRanked DEF Worst, Reason
<1>2. CASE ~(\E i \in DOMAIN Ranking : Ranking[i] \in reasons)
  BY <1>2, ReasonsListed DEF Worst
<1> QED BY <1>1, <1>2

(* Only if nothing else was tried the worst failure is the absence of a      *)
(* price, which ranks last.                                                  *)
LEMMA WorstUnsupported ==
  ASSUME NEW reasons, reasons \subseteq Reason, Worst(reasons) = "unsupported"
  PROVE  reasons \subseteq {"unsupported"}
<1>1. CASE \E i \in DOMAIN Ranking : Ranking[i] \in reasons
  <2>1. PICK i \in DOMAIN Ranking :
          /\ Ranking[i] = "unsupported"
          /\ \A j \in 1..(i - 1) : Ranking[j] \notin reasons
    BY <1>1, FirstRanked DEF Worst
  <2>2. i = 6
    BY <2>1, ReasonsListed
  <2>3. \A j \in 1..5 : Ranking[j] \notin reasons
    BY <2>1, <2>2
  <2> QED BY <2>3, ReasonsListed
<1>2. CASE ~(\E i \in DOMAIN Ranking : Ranking[i] \in reasons)
  BY <1>2 DEF Reason
<1> QED BY <1>1, <1>2

-----------------------------------------------------------------------------
(* If there is no path from d to w, an edge from w to d closes no circle:    *)
(* what can be reached from d is a set without w that no edge leaves.        *)
LEMMA AcyclicAdd ==
  ASSUME NEW succ \in [Key -> SUBSET Key], Acyclic(succ),
         NEW w \in Key, NEW d \in Key, ~Reaches(succ, d, w)
  PROVE  Acyclic([succ EXCEPT ![w] = succ[w] \cup {d}])
<1> DEFINE more == [succ EXCEPT ![w] = succ[w] \cup {d}]
<1>1. PICK C \in SUBSET Key : d \in C /\ Closed(succ, C) /\ w \notin C
  BY DEF Reaches
<1> SUFFICES ASSUME NEW S \in SUBSET Key, S # {}
             PROVE  \E x \in S : more[x] \cap S = {}
  BY DEF Acyclic
<1>2. CASE S \cap C # {}
  <2>1. PICK x \in S \cap C : succ[x] \cap (S \cap C) = {}
    BY <1>2 DEF Acyclic
  <2>2. more[x] = succ[x] /\ succ[x] \subseteq C
    BY <1>1, <2>1 DEF Closed
  <2> QED BY <2>1, <2>2
<1>3. CASE S \cap C = {}
  <2>1. PICK x \in S : succ[x] \cap S = {}
    BY DEF Acyclic
  <2>2. more[x] \subseteq succ[x] \cup {d}
    OBVIOUS
  <2> QED BY <1>1, <1>3, <2>1, <2>2
<1> QED BY <1>2, <1>3

(* The same when w is given other successors, none of which reaches w: what *)
(* does not reach w cannot be left by an edge either.                       *)
LEMMA AcyclicReplace ==
  ASSUME NEW succ, NEW other, Acyclic(succ), NEW w \in Key,
         \A x \in Key \ {w} : other[x] = succ[x],
         \A d \in other[w] : ~Reaches(succ, d, w)
  PROVE  Acyclic(other)
<1> DEFINE C == {x \in Key : ~Reaches(succ, x, w)}
<1>1. w \notin C /\ other[w] \cap Key \subseteq C
  BY DEF Reaches
<1>2. \A x \in C : succ[x] \cap Key \subseteq C
  BY DEF Reaches, Closed
<1> HIDE DEF C
<1> SUFFICES ASSUME NEW S \in SUBSET Key, S # {}
             PROVE  \E x \in S : other[x] \cap S = {}
  BY DEF Acyclic
<1>3. CASE S \cap C # {}
  <2>1. PICK x \in S \cap C : succ[x] \cap (S \cap C) = {}
    BY <1>3 DEF Acyclic
  <2> QED BY <1>1, <1>2, <2>1
<1>4. CASE S \cap C = {}
  <2>1. PICK x \in S : succ[x] \cap S = {}
    BY DEF Acyclic
  <2> QED BY <1>1, <1>4, <2>1
<1> QED BY <1>3, <1>4

(* A graph with fewer edges has no more circles.                             *)
LEMMA AcyclicFewer ==
  ASSUME NEW succ, NEW fewer, Acyclic(succ), \A x \in Key : fewer[x] \subseteq succ[x]
  PROVE  Acyclic(fewer)
BY DEF Acyclic

-----------------------------------------------------------------------------
(* More prices make no other price less conceivable.                         *)
LEMMA ConceivableGrows ==
  ASSUME NEW k, NEW S, NEW T, S \subseteq T, ConceivableFrom(k, S)
  PROVE  ConceivableFrom(k, T)
BY DEF ConceivableFrom, Promising

(* What is conceivable is so because of what else is conceivable: through    *)
(* its market, or through one of its plans.                                  *)
LEMMA ConceivableUnfolds ==
  ASSUME NEW k \in Conceivable
  PROVE  ConceivableFrom(k, Conceivable)
<1> DEFINE prefixpoint(S) == \A j \in Key : ConceivableFrom(j, S) => j \in S
           once == {j \in Key : ConceivableFrom(j, Conceivable)}
<1>1. Conceivable = {j \in Key : \A S \in SUBSET Key : prefixpoint(S) => j \in S}
  BY DEF Conceivable, LeastFixpoint
<1>2. \A S \in SUBSET Key : prefixpoint(S) => Conceivable \subseteq S
  BY <1>1
<1>3. once \subseteq Conceivable
  <2> SUFFICES ASSUME NEW j \in once, NEW S \in SUBSET Key, prefixpoint(S)
               PROVE  j \in S
    BY <1>1
  <2>1. ConceivableFrom(j, S)
    BY <1>2, ConceivableGrows
  <2> QED BY <2>1
<1>4. prefixpoint(once)
  BY <1>3, ConceivableGrows
<1> QED BY <1>1, <1>4
=============================================================================
