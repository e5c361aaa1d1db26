---------------------------- MODULE SessionProofs ----------------------------
(***************************************************************************)
(* Proofs about the names of a session, for all programs whose inputs are  *)
(* trees.  The invariant says four things of a pass:                       *)
(*                                                                         *)
(*   Balanced    the tasks left to do use as many results, scopes and      *)
(*               functions as there are and will be, and end where the     *)
(*               pass began: a task stands for all the work it leads to;   *)
(*   InOrder     what is left is in the order of the program, and the      *)
(*               inputs to come are after it;                              *)
(*   BegunOnce   no function is generated that was begun already;          *)
(*   FunctionsSound  no function is bound that is under construction or    *)
(*               was deleted.                                              *)
(*                                                                         *)
(* Every action is shown to replace its task by tasks that lead to the     *)
(* same place (Works), and the four follow for all actions at once.        *)
(***************************************************************************)
EXTENDS Session, DataLemmas

-----------------------------------------------------------------------------
(* The work to be done.                                                    *)

Dos == {"check", "bind", "leave", "gen", "add", "store", "list", "branch", "else", "join",
        "arm", "test", "enter", "result", "matched", "end", "call"}

\* What a task takes for granted of its node.
Fits(p, t) ==
  LET parts == p.nodes[t.node].kids
  IN  /\ t.do \in {"branch", "else"} => Len(parts) >= 2
      /\ t.do \in {"arm", "enter"} => Len(parts) = 2
      /\ t.do = "end" => p.nodes[t.node].tag = "fn"

TasksOf(p) == {t \in [do : Dos, node : DOMAIN p.nodes] : Fits(p, t)}

\* How deep a pass is: in scopes, in results that are not used yet and in functions
\* under construction.
Depth(frames, results, stack) == [frames |-> frames, results |-> results, stack |-> stack]

Depths == [frames : Nat, results : Nat, stack : Seq(Nat)]

Now == Depth(IF phase = "check" THEN Len(checked) ELSE Len(table), Len(values), building)

\* Tasks that leave a scope.
Closing == {"leave", "else", "join", "result", "end"}

\* How many results a task uses, and how many there are of it.
Needs(p, t) ==
  CASE t.do \in {"list", "call"} -> Len(p.nodes[t.node].kids)
    [] t.do = "test" -> 2
    [] t.do \in {"arm", "add", "store", "branch", "else", "join", "result", "end", "matched"} -> 1
    [] OTHER -> 0

Makes(t) == IF t.do \in {"check", "bind", "leave", "enter", "result"} THEN 0 ELSE 1

\* The pass is where the task can be done, and where it is once the task is done with
\* all it leads to.
Ready(p, s, t) ==
  /\ Needs(p, t) <= s.results
  /\ t.do \in Closing => s.frames > 1
  /\ t.do = "end" => Len(s.stack) > 1 /\ Head(s.stack) = t.node

After(p, s, t) ==
  Depth(IF t.do \in Closing THEN s.frames - 1 ELSE s.frames,
        s.results - Needs(p, t) + Makes(t),
        IF t.do = "end" THEN Tail(s.stack) ELSE s.stack)

\* Tasks that lead from depth s to depth r.
Leads(p, s, tasks, r) ==
  \E plan :
    /\ plan[0] = s /\ plan[Len(tasks)] = r
    /\ \A i \in 1 .. Len(tasks) :
         Ready(p, plan[i - 1], tasks[i]) /\ plan[i] = After(p, plan[i - 1], tasks[i])

LEMMA NothingLeads == ASSUME NEW p, NEW s PROVE Leads(p, s, <<>>, s)
<1> DEFINE plan == [i \in {0} |-> s]
<1>1. /\ plan[0] = s /\ plan[Len(<<>>)] = s
      /\ \A i \in 1 .. Len(<<>>) :
           Ready(p, plan[i - 1], <<>>[i]) /\ plan[i] = After(p, plan[i - 1], <<>>[i])
  OBVIOUS
<1>2. QED
  BY <1>1 DEF Leads

LEMMA OneLeads ==
  ASSUME NEW p, NEW s, NEW t, Ready(p, s, t)
  PROVE  Leads(p, s, <<t>>, After(p, s, t))
<1> DEFINE plan == [i \in {0, 1} |-> IF i = 0 THEN s ELSE After(p, s, t)]
<1>1. plan[0] = s /\ plan[1] = After(p, s, t) /\ Len(<<t>>) = 1 /\ <<t>>[1] = t
  OBVIOUS
<1> HIDE DEF plan
<1>2. /\ plan[0] = s /\ plan[Len(<<t>>)] = After(p, s, t)
      /\ \A i \in 1 .. Len(<<t>>) :
           Ready(p, plan[i - 1], <<t>>[i]) /\ plan[i] = After(p, plan[i - 1], <<t>>[i])
  BY <1>1
<1>3. QED
  BY <1>2 DEF Leads

LEMMA BothLead ==
  ASSUME NEW p, NEW X, NEW a \in Seq(X), NEW b \in Seq(X), NEW s, NEW m, NEW r,
         Leads(p, s, a, m), Leads(p, m, b, r)
  PROVE  Leads(p, s, a \o b, r)
<1>1. PICK P : /\ P[0] = s /\ P[Len(a)] = m
               /\ \A i \in 1 .. Len(a) :
                    Ready(p, P[i - 1], a[i]) /\ P[i] = After(p, P[i - 1], a[i])
  BY DEF Leads
<1>2. PICK Q : /\ Q[0] = m /\ Q[Len(b)] = r
               /\ \A i \in 1 .. Len(b) :
                    Ready(p, Q[i - 1], b[i]) /\ Q[i] = After(p, Q[i - 1], b[i])
  BY DEF Leads
<1> DEFINE plan == [i \in 0 .. Len(a) + Len(b) |-> IF i <= Len(a) THEN P[i] ELSE Q[i - Len(a)]]
           ab == a \o b
<1>3. /\ Len(a) \in Nat /\ Len(b) \in Nat /\ Len(ab) = Len(a) + Len(b)
      /\ \A i \in 1 .. Len(a) : ab[i] = a[i]
      /\ \A i \in Len(a) + 1 .. Len(a) + Len(b) : ab[i] = b[i - Len(a)]
  OBVIOUS
<1>4. /\ \A i \in 0 .. Len(a) : plan[i] = P[i]
      /\ \A i \in Len(a) .. Len(a) + Len(b) : plan[i] = Q[i - Len(a)]
  BY <1>1, <1>2, <1>3
<1> HIDE DEF plan, ab
<1>5. plan[0] = s /\ plan[Len(ab)] = r
  BY <1>1, <1>2, <1>3, <1>4
<1>6. ASSUME NEW i \in 1 .. Len(ab)
      PROVE  Ready(p, plan[i - 1], ab[i]) /\ plan[i] = After(p, plan[i - 1], ab[i])
  <2>1. CASE i <= Len(a)
    BY <1>1, <1>3, <1>4, <2>1
  <2>2. CASE i > Len(a)
    <3>1. /\ i - Len(a) \in 1 .. Len(b) /\ ab[i] = b[i - Len(a)]
          /\ plan[i] = Q[i - Len(a)] /\ plan[i - 1] = Q[(i - Len(a)) - 1]
      BY <1>3, <1>4, <2>2
    <3>2. QED
      BY <1>2, <3>1
  <2>3. QED
    BY <1>3, <2>1, <2>2
<1>7. Leads(p, s, ab, r)
  BY <1>5, <1>6 DEF Leads
<1>8. QED
  BY <1>7 DEF ab

LEMMA RestLeads ==
  ASSUME NEW p, NEW X, NEW tasks \in Seq(X), tasks # <<>>, NEW s, NEW r, Leads(p, s, tasks, r)
  PROVE  Ready(p, s, Head(tasks)) /\ Leads(p, After(p, s, Head(tasks)), Tail(tasks), r)
<1>1. PICK P : /\ P[0] = s /\ P[Len(tasks)] = r
               /\ \A i \in 1 .. Len(tasks) :
                    Ready(p, P[i - 1], tasks[i]) /\ P[i] = After(p, P[i - 1], tasks[i])
  BY DEF Leads
<1> DEFINE rest == Tail(tasks)
           plan == [i \in 0 .. Len(tasks) - 1 |-> P[i + 1]]
<1>2. /\ Len(tasks) \in Nat /\ Len(tasks) > 0 /\ Len(rest) = Len(tasks) - 1
      /\ Head(tasks) = tasks[1] /\ \A i \in 1 .. Len(rest) : rest[i] = tasks[i + 1]
  BY HeadTailProperties
<1>3. \A i \in 0 .. Len(rest) : plan[i] = P[i + 1]
  BY <1>2
<1> HIDE DEF plan, rest
<1>4. Ready(p, s, Head(tasks)) /\ P[1] = After(p, s, Head(tasks))
  BY <1>1, <1>2
<1>5. plan[0] = P[1] /\ plan[Len(rest)] = r
  BY <1>1, <1>2, <1>3
<1>6. ASSUME NEW i \in 1 .. Len(rest)
      PROVE  Ready(p, plan[i - 1], rest[i]) /\ plan[i] = After(p, plan[i - 1], rest[i])
  <2>1. i + 1 \in 1 .. Len(tasks) /\ plan[i - 1] = P[(i + 1) - 1] /\ plan[i] = P[i + 1]
    BY <1>2, <1>3
  <2>2. QED
    BY <1>1, <1>2, <2>1
<1>7. Leads(p, P[1], rest, r)
  BY <1>5, <1>6 DEF Leads
<1>8. QED
  BY <1>4, <1>7 DEF rest

\* A pass that comes to a task after another.
LEMMA TwoLead ==
  ASSUME NEW p, NEW s, NEW t, NEW u, Ready(p, s, t), Ready(p, After(p, s, t), u)
  PROVE  Leads(p, s, <<t, u>>, After(p, After(p, s, t), u))
<1> DEFINE X == {t, u}
           a == <<t>>
           b == <<u>>
<1>1. a \in Seq(X) /\ b \in Seq(X) /\ a \o b = <<t, u>>
  <2> DEFINE c == <<t, u>>
  <2>1. /\ a \in Seq(X) /\ Len(a) = 1 /\ a[1] = t
        /\ b \in Seq(X) /\ Len(b) = 1 /\ b[1] = u
        /\ c \in Seq(X) /\ Len(c) = 2 /\ c[1] = t /\ c[2] = u
    OBVIOUS
  <2> HIDE DEF a, b, c, X
  <2>2. /\ a \o b \in Seq(X) /\ Len(a \o b) = 2
        /\ (a \o b)[1] = t /\ (a \o b)[1 + 1] = u
    BY <2>1, Joined
  <2>3. a \o b = c
    BY <2>1, <2>2, SeqEqual
  <2>4. QED
    BY <2>1, <2>3 DEF c
<1>2. Leads(p, s, a, After(p, s, t)) /\ Leads(p, After(p, s, t), b, After(p, After(p, s, t), u))
  BY OneLeads
<1> HIDE DEF X, a, b
<1> DEFINE m == After(p, s, t)
           r == After(p, After(p, s, t), u)
<1> HIDE DEF m, r
<1>3. Leads(p, s, a, m) /\ Leads(p, m, b, r)
  BY <1>2 DEF m, r
<1>4. Leads(p, s, a \o b, r)
  BY <1>1, <1>3, BothLead
<1>5. QED
  BY <1>1, <1>4 DEF r

\* Tasks that need nothing, one result of each or of none.
LEMMA EachLeads ==
  ASSUME NEW p, NEW X, NEW tasks \in Seq(X), NEW s \in Depths, NEW each \in {0, 1},
         \A i \in DOMAIN tasks :
           Needs(p, tasks[i]) = 0 /\ Makes(tasks[i]) = each /\ tasks[i].do \notin Closing
  PROVE  Leads(p, s, tasks, Depth(s.frames,
                                  s.results + (IF each = 1 THEN Len(tasks) ELSE 0), s.stack))
<1> DEFINE plan == [i \in 0 .. Len(tasks) |->
                     Depth(s.frames, s.results + (IF each = 1 THEN i ELSE 0), s.stack)]
<1>1. /\ s.frames \in Nat /\ s.results \in Nat
      /\ s = Depth(s.frames, s.results, s.stack)
  BY DEF Depths, Depth
<1>2. Len(tasks) \in Nat /\ DOMAIN tasks = 1 .. Len(tasks)
  OBVIOUS
<1>3. plan[0] = s
  BY <1>1, <1>2 DEF Depth
<1>4. ASSUME NEW i \in 1 .. Len(tasks)
      PROVE  Ready(p, plan[i - 1], tasks[i]) /\ plan[i] = After(p, plan[i - 1], tasks[i])
  <2>1. /\ plan[i - 1].frames = s.frames /\ plan[i - 1].stack = s.stack
        /\ plan[i - 1].results = s.results + (IF each = 1 THEN i - 1 ELSE 0)
        /\ plan[i] = Depth(s.frames, s.results + (IF each = 1 THEN i ELSE 0), s.stack)
    BY <1>2 DEF Depth
  <2>2. /\ Needs(p, tasks[i]) = 0 /\ Makes(tasks[i]) = each
        /\ tasks[i].do \notin Closing /\ tasks[i].do # "end"
    BY <1>2 DEF Closing
  <2> HIDE DEF plan
  <2>3. Ready(p, plan[i - 1], tasks[i])
    BY <1>1, <2>1, <2>2 DEF Ready
  <2>4. /\ After(p, plan[i - 1], tasks[i])
             = Depth(s.frames, plan[i - 1].results - 0 + each, s.stack)
        /\ plan[i - 1].results - 0 + each = s.results + (IF each = 1 THEN i ELSE 0)
    BY <1>1, <2>1, <2>2 DEF After
  <2>5. QED
    BY <2>1, <2>3, <2>4
<1>5. plan[Len(tasks)] = Depth(s.frames, s.results + (IF each = 1 THEN Len(tasks) ELSE 0), s.stack)
  BY <1>2
<1> HIDE DEF plan
<1>6. QED
  BY <1>3, <1>4, <1>5 DEF Leads

LEMMA NoneOfEach ==
  ASSUME NEW p, NEW X, NEW tasks \in Seq(X), NEW s \in Depths,
         \A i \in DOMAIN tasks :
           Needs(p, tasks[i]) = 0 /\ Makes(tasks[i]) = 0 /\ tasks[i].do \notin Closing
  PROVE  Leads(p, s, tasks, s)
<1> DEFINE each == 0
           r == Depth(s.frames, s.results + (IF each = 1 THEN Len(tasks) ELSE 0), s.stack)
<1>1. each \in {0, 1} /\ \A i \in DOMAIN tasks : Makes(tasks[i]) = each
  OBVIOUS
<1>2. r = s
  BY DEF Depth, Depths
<1> HIDE DEF each
<1>3. Leads(p, s, tasks, r)
  BY <1>1, EachLeads
<1>4. QED
  BY <1>2, <1>3

LEMMA OneOfEach ==
  ASSUME NEW p, NEW X, NEW tasks \in Seq(X), NEW s \in Depths,
         \A i \in DOMAIN tasks :
           Needs(p, tasks[i]) = 0 /\ Makes(tasks[i]) = 1 /\ tasks[i].do \notin Closing
  PROVE  Leads(p, s, tasks, Depth(s.frames, s.results + Len(tasks), s.stack))
<1> DEFINE each == 1
           r == Depth(s.frames, s.results + (IF each = 1 THEN Len(tasks) ELSE 0), s.stack)
<1>1. each \in {0, 1} /\ \A i \in DOMAIN tasks : Makes(tasks[i]) = each
  OBVIOUS
<1>2. r = Depth(s.frames, s.results + Len(tasks), s.stack)
  OBVIOUS
<1> HIDE DEF each
<1>3. Leads(p, s, tasks, r)
  BY <1>1, EachLeads
<1>4. QED
  BY <1>2, <1>3

-----------------------------------------------------------------------------
(* The order of the work: every node is begun once.                        *)

\* Tasks that code is generated in.
Covering == {"gen", "branch", "else", "arm", "enter", "end"}

\* The node of the task from which code is generated next, if there is one.
Starts(p, t) ==
  LET parts == p.nodes[t.node].kids
  IN  {m \in DOMAIN p.nodes :
         \/ t.do \in {"gen", "arm"} /\ m = t.node
         \/ t.do \in {"branch", "enter"} /\ m = parts[2]
         \/ t.do = "else" /\ Len(parts) = 3 /\ m = parts[3]}

\* A task is done with its tree before a later one starts.
Ordered(p, tasks) ==
  \A i, j \in DOMAIN tasks :
    i < j /\ tasks[i].do \in Covering =>
      \A m \in Starts(p, tasks[j]) : TreeEnds(p)[tasks[i].node] < m

\* The tasks stay in the tree of task t, and do not start before it.
Within(p, t, tasks) ==
  /\ Ordered(p, tasks)
  /\ \A i \in DOMAIN tasks :
       /\ tasks[i].do \in Covering =>
            t.do \in Covering /\ TreeEnds(p)[tasks[i].node] <= TreeEnds(p)[t.node]
       /\ \A m \in Starts(p, tasks[i]) : t.do \in Covering /\ \E l \in Starts(p, t) : l <= m

IsProgram(p) == InPreorder(p) /\ HasParts(p)

Names(p) == {p.nodes[n].name : n \in DOMAIN p.nodes}

LEMMA NodeFacts ==
  ASSUME NEW p, IsProgram(p), NEW n \in DOMAIN p.nodes
  PROVE  /\ n \in Nat /\ n >= 1 /\ Len(p.nodes) \in Nat /\ DOMAIN p.nodes = 1 .. Len(p.nodes)
         /\ p.nodes[n].kids \in Seq(DOMAIN p.nodes)
         /\ Len(p.nodes[n].kids) \in Nat
         /\ DOMAIN p.nodes[n].kids = 1 .. Len(p.nodes[n].kids)
         /\ p.nodes[n].name \in Names(p)
         /\ TreeEnds(p)[n] \in DOMAIN p.nodes /\ n <= TreeEnds(p)[n] /\ TreeEnds(p)[n] \in Nat
<1> DEFINE R == [tag : STRING, op : STRING, name : STRING, kids : Seq(DOMAIN p.nodes)]
           s == p.nodes
<1>1. s \in Seq(R) /\ TreeEnds(p)[n] \in n .. Len(s) /\ n \in DOMAIN s
  BY DEF IsProgram, InPreorder
<1>2. s[n] \in R
  <2> HIDE DEF R, s
  <2>1. QED
    BY <1>1
<1>3. Len(p.nodes) \in Nat /\ DOMAIN p.nodes = 1 .. Len(p.nodes)
  BY <1>1
<1>4. p.nodes[n].kids \in Seq(DOMAIN p.nodes)
  BY <1>2
<1>5. /\ Len(p.nodes[n].kids) \in Nat
      /\ DOMAIN p.nodes[n].kids = 1 .. Len(p.nodes[n].kids)
  BY <1>4
<1>6. QED
  BY <1>1, <1>3, <1>4, <1>5 DEF Names

LEMMA KidFacts ==
  ASSUME NEW p, IsProgram(p), NEW n \in DOMAIN p.nodes, NEW i \in DOMAIN p.nodes[n].kids
  PROVE  /\ p.nodes[n].kids[i] \in DOMAIN p.nodes /\ n < p.nodes[n].kids[i]
         /\ TreeEnds(p)[p.nodes[n].kids[i]] <= TreeEnds(p)[n]
         /\ \A j \in DOMAIN p.nodes[n].kids :
              i < j => TreeEnds(p)[p.nodes[n].kids[i]] < p.nodes[n].kids[j]
<1>1. /\ \A m \in Range(p.nodes[n].kids) : n < m /\ TreeEnds(p)[m] <= TreeEnds(p)[n]
      /\ \A k, j \in DOMAIN p.nodes[n].kids :
           k < j => TreeEnds(p)[p.nodes[n].kids[k]] < p.nodes[n].kids[j]
  BY DEF IsProgram, InPreorder
<1>2. p.nodes[n].kids \in Seq(DOMAIN p.nodes)
  BY NodeFacts
<1>3. p.nodes[n].kids[i] \in Range(p.nodes[n].kids)
  BY DEF Range
<1>4. QED
  BY <1>1, <1>2, <1>3

LEMMA StartsAreNodes ==
  ASSUME NEW p, IsProgram(p), NEW t
  PROVE  Starts(p, t) \subseteq DOMAIN p.nodes /\ Starts(p, t) \subseteq Nat
<1>1. DOMAIN p.nodes \subseteq Nat
  BY NodeFacts
<1>2. QED
  BY <1>1 DEF Starts

\* The work that takes the place of a task keeps the order.
LEMMA StaysOrdered ==
  ASSUME NEW p, IsProgram(p), NEW all \in Seq(TasksOf(p)), all # <<>>, Ordered(p, all),
         NEW tasks \in Seq(TasksOf(p)), Within(p, Head(all), tasks)
  PROVE  LET next == tasks \o Tail(all)
         IN  /\ next \in Seq(TasksOf(p)) /\ Ordered(p, next)
             /\ \A i \in DOMAIN next :
                  /\ \A m \in Starts(p, next[i]) :
                       \E k \in DOMAIN all : \E l \in Starts(p, all[k]) : l <= m
                  /\ next[i].do \in Covering =>
                       \E k \in DOMAIN all :
                         /\ all[k].do \in Covering
                         /\ TreeEnds(p)[next[i].node] <= TreeEnds(p)[all[k].node]
<1> DEFINE next == tasks \o Tail(all)
           n == Len(tasks)
<1>1. /\ Tail(all) \in Seq(TasksOf(p)) /\ Len(Tail(all)) = Len(all) - 1
      /\ \A i \in 1 .. Len(Tail(all)) : Tail(all)[i] = all[i + 1]
      /\ Len(all) \in Nat /\ Len(all) > 0 /\ DOMAIN all = 1 .. Len(all) /\ Head(all) = all[1]
  BY HeadTailProperties
<1>2. /\ next \in Seq(TasksOf(p)) /\ n \in Nat /\ DOMAIN tasks = 1 .. n
      /\ DOMAIN next = 1 .. n + (Len(all) - 1)
      /\ \A i \in 1 .. n : next[i] = tasks[i]
      /\ \A i \in n + 1 .. n + (Len(all) - 1) : next[i] = all[(i - n) + 1]
  BY <1>1
<1>11. /\ DOMAIN next \subseteq Nat
       /\ \A i \in DOMAIN next : i <= n => i \in DOMAIN tasks /\ next[i] = tasks[i]
       /\ \A i \in DOMAIN next :
            i > n => /\ (i - n) + 1 \in DOMAIN all /\ next[i] = all[(i - n) + 1]
                     /\ (i - n) + 1 > 1
  <2> DEFINE m == Len(all)
  <2>1. m \in Nat /\ m > 0 /\ n \in Nat
    BY <1>1, <1>2
  <2>2. /\ DOMAIN all = 1 .. m /\ DOMAIN next = 1 .. n + (m - 1) /\ DOMAIN tasks = 1 .. n
        /\ \A i \in 1 .. n : next[i] = tasks[i]
        /\ \A i \in n + 1 .. n + (m - 1) : next[i] = all[(i - n) + 1]
    BY <1>1, <1>2
  <2> HIDE DEF m, n, next
  <2>3. QED
    BY <2>1, <2>2
<1>3. \A t \in TasksOf(p) :
        /\ t.node \in DOMAIN p.nodes /\ TreeEnds(p)[t.node] \in Nat
        /\ Starts(p, t) \subseteq Nat
  BY NodeFacts, StartsAreNodes DEF TasksOf
<1> HIDE DEF next, n
<1>4. \A i \in DOMAIN all : all[i] \in TasksOf(p)
  BY <1>1
<1>5. \A i \in DOMAIN tasks : tasks[i] \in TasksOf(p)
  BY <1>2
<1>6. ASSUME NEW i \in DOMAIN next, NEW m \in Starts(p, next[i])
      PROVE  \E k \in DOMAIN all : \E l \in Starts(p, all[k]) : l <= m
  <2>1. CASE i <= n
    <3>1. i \in DOMAIN tasks /\ next[i] = tasks[i]
      BY <1>11, <2>1
    <3>2. QED
      BY <1>1, <1>6, <3>1 DEF Within
  <2>2. CASE i > n
    <3>1. (i - n) + 1 \in DOMAIN all /\ next[i] = all[(i - n) + 1]
      BY <1>11, <2>2
    <3>2. m <= m
      BY <1>3, <1>4, <1>6, <3>1
    <3>3. QED
      BY <1>6, <3>1, <3>2
  <2>3. QED
    BY <1>2, <1>11, <2>1, <2>2
<1>7. ASSUME NEW i \in DOMAIN next, next[i].do \in Covering
      PROVE  \E k \in DOMAIN all :
               all[k].do \in Covering /\ TreeEnds(p)[next[i].node] <= TreeEnds(p)[all[k].node]
  <2>1. CASE i <= n
    <3>1. i \in DOMAIN tasks /\ next[i] = tasks[i]
      BY <1>11, <2>1
    <3>2. QED
      BY <1>1, <1>7, <3>1 DEF Within
  <2>2. CASE i > n
    <3>1. (i - n) + 1 \in DOMAIN all /\ next[i] = all[(i - n) + 1]
      BY <1>11, <2>2
    <3>2. TreeEnds(p)[next[i].node] <= TreeEnds(p)[next[i].node]
      BY <1>3, <1>4, <3>1
    <3>3. QED
      BY <1>7, <3>1, <3>2
  <2>3. QED
    BY <1>2, <1>11, <2>1, <2>2
<1>8. ASSUME NEW i \in DOMAIN next, NEW j \in DOMAIN next, i < j, next[i].do \in Covering,
             NEW m \in Starts(p, next[j])
      PROVE  TreeEnds(p)[next[i].node] < m
  <2>1. CASE j <= n
    <3>1. i \in DOMAIN tasks /\ j \in DOMAIN tasks /\ next[i] = tasks[i] /\ next[j] = tasks[j]
      BY <1>8, <1>11, <2>1, <1>2
    <3>2. QED
      BY <1>8, <3>1 DEF Within, Ordered
  <2>2. CASE i > n
    <3>1. i \in Nat /\ j \in Nat /\ n \in Nat /\ j > n
      BY <1>2, <1>8, <1>11, <2>2
    <3>2. /\ (i - n) + 1 \in DOMAIN all /\ next[i] = all[(i - n) + 1]
          /\ (j - n) + 1 \in DOMAIN all /\ next[j] = all[(j - n) + 1]
      BY <1>11, <2>2, <3>1
    <3>3. (i - n) + 1 < (j - n) + 1
      BY <1>8, <3>1
    <3>4. QED
      BY <1>8, <3>2, <3>3 DEF Ordered
  <2>3. CASE i <= n /\ j > n
    <3>1. i \in DOMAIN tasks /\ next[i] = tasks[i]
      BY <1>11, <2>3
    <3>2. /\ (j - n) + 1 \in DOMAIN all /\ next[j] = all[(j - n) + 1]
          /\ 1 < (j - n) + 1 /\ 1 \in DOMAIN all
      BY <1>1, <1>11, <2>3
    <3>3. /\ all[1].do \in Covering
          /\ TreeEnds(p)[next[i].node] <= TreeEnds(p)[all[1].node]
      BY <1>1, <1>8, <3>1 DEF Within
    <3>4. TreeEnds(p)[all[1].node] < m
      BY <1>8, <3>2, <3>3 DEF Ordered
    <3>5. TreeEnds(p)[next[i].node] \in Nat /\ TreeEnds(p)[all[1].node] \in Nat /\ m \in Nat
      BY <1>3, <1>4, <1>5, <1>8, <3>1, <3>2
    <3>6. QED
      BY <3>3, <3>4, <3>5
  <2>4. QED
    BY <1>2, <1>11, <2>1, <2>2, <2>3
<1>9. Ordered(p, next)
  BY <1>8 DEF Ordered
<1>10. QED
  BY <1>2, <1>6, <1>7, <1>9 DEF next

-----------------------------------------------------------------------------
(* The invariant.                                                          *)

CheckedScopes(p) ==
  {f \in UNION {[bound -> DOMAIN p.nodes] : bound \in SUBSET Names(p)} :
     \A name \in DOMAIN f : p.nodes[f[name]].name = name}

SymbolsOf(p) == [kind : Kinds, node : DOMAIN p.nodes, index : Nat, owner : DOMAIN p.nodes]

TableScopes(p) ==
  {f \in UNION {[bound -> SymbolsOf(p)] : bound \in SUBSET Names(p)} :
     \A name \in DOMAIN f :
       /\ p.nodes[f[name].node].name = name
       /\ f[name].kind = "param" => p.nodes[f[name].owner].kids[f[name].index] = f[name].node}

SessionTypes ==
  /\ program \in Programs /\ input \in 0 .. Len(program.inputs)
  /\ phase \in {"idle", "check", "generate", "exited", "undefined"}
  /\ agenda \in Seq(TasksOf(program))
  /\ checked \in Seq(CheckedScopes(program)) /\ table \in Seq(TableScopes(program))
  /\ \A name \in DOMAIN holders : holders[name] \in AllNodes
  /\ building \in Seq(AllNodes) /\ values \in Seq(BOOLEAN) /\ invalid \subseteq AllNodes

\* Where a pass is before, between and after its inputs.
Between ==
  /\ phase \in {"idle", "check", "exited"} => building = <<>> /\ values = <<>> /\ Len(table) <= 1
  /\ phase \in {"idle", "generate", "exited"} => Len(checked) = 1
  /\ phase \in {"check", "generate"} => input \in DOMAIN program.inputs /\ checked # <<>>
  /\ phase = "generate" => building # <<>> /\ table # <<>>

\* Where a pass must be when its work is done.
AtEnd(r) ==
  IF phase = "check" THEN r = Depth(1, 0, <<>>)
  ELSE r.frames \in {1, 2} /\ r.results = 1 /\ r.stack = <<Root>>

\* What is left to do leads there.
Balanced ==
  phase \in {"check", "generate"} => \E r : Leads(program, Now, agenda, r) /\ AtEnd(r)

\* The inputs that code generation has not come to.
Later == {j \in DOMAIN program.inputs : j > input \/ (phase = "check" /\ j = input)}

InOrder ==
  /\ Ordered(program, agenda)
  /\ \A i \in DOMAIN agenda, j \in Later :
       agenda[i].do \in Covering => TreeEnds(program)[agenda[i].node] < program.inputs[j]

\* Functions that are bound, and those code generation has begun.
IsFunction(name, i, n) == table[i][name].kind = "function" /\ table[i][name].node = n
FunctionsBound ==
  {n \in AllNodes : \E i \in DOMAIN table : \E name \in DOMAIN table[i] : IsFunction(name, i, n)}

Begun == FunctionsBound \cup {n \in Range(building) : Nodes[n].tag = "fn"}

\* A function is begun once: what was begun comes before what is left.
BegunOnce ==
  /\ \A n \in Begun :
       /\ \A i \in DOMAIN agenda : \A m \in Starts(program, agenda[i]) : n < m
       /\ \A j \in Later : n < program.inputs[j]
  /\ \A i, j \in DOMAIN building : i # j => building[i] # building[j]

\* No function is bound that is under construction or was deleted.
FunctionsSound ==
  /\ \A n \in FunctionsBound :
       Nodes[n].tag \in {"fn", "extern"} /\ n \notin invalid \cup Range(building)
  /\ \A n \in invalid \cup Range(building) : Nodes[n].tag \in {"fn", "list"}
  /\ \A name \in DOMAIN holders : holders[name] \in invalid => holders[name] \in Range(building)

SessionInv ==
  SessionTypes /\ Between /\ Balanced /\ InOrder /\ BegunOnce /\ FunctionsSound

LEMMA InvImpliesTypes == SessionInv => TypeOK
<1> SUFFICES ASSUME SessionInv PROVE TypeOK
  OBVIOUS
<1>1. SessionTypes /\ Between
  BY DEF SessionInv
<1>2. ASSUME NEW i \in DOMAIN checked, NEW name \in DOMAIN checked[i]
      PROVE  Nodes[checked[i][name]].name = name
  <2>1. checked[i] \in CheckedScopes(program)
    BY <1>1 DEF SessionTypes
  <2>2. QED
    BY <2>1 DEF CheckedScopes, Nodes
<1>3. ASSUME NEW i \in DOMAIN table, NEW name \in DOMAIN table[i]
      PROVE  LET s == table[i][name]
             IN  /\ s \in [kind : Kinds, node : AllNodes, index : Nat, owner : AllNodes]
                 /\ Nodes[s.node].name = name
                 /\ s.kind = "param" => kid(s.owner, s.index) = s.node
  <2>1. table[i] \in TableScopes(program)
    BY <1>1 DEF SessionTypes
  <2>2. table[i][name] \in SymbolsOf(program)
    BY <2>1 DEF TableScopes
  <2>3. QED
    BY <2>1, <2>2 DEF TableScopes, SymbolsOf, Nodes, AllNodes, kid
<1>4. building # <<>> => phase \in {"generate", "undefined"}
  BY <1>1 DEF SessionTypes, Between
<1>5. QED
  BY <1>1, <1>2, <1>3, <1>4 DEF TypeOK, SessionTypes

LEMMA InvImpliesScopes == SessionInv => ScopesAreLeft
BY DEF SessionInv, Between, ScopesAreLeft

LEMMA InvImpliesFunctions == SessionInv => NoDanglingFunctions
<1> SUFFICES ASSUME SessionInv PROVE NoDanglingFunctions
  OBVIOUS
<1>1. ASSUME NEW i \in DOMAIN table, NEW name \in DOMAIN table[i], table[i][name].kind = "function"
      PROVE  table[i][name].node \notin invalid
  <2>1. table[i] \in TableScopes(program)
    BY DEF SessionInv, SessionTypes
  <2>2. table[i][name] \in SymbolsOf(program)
    BY <2>1 DEF TableScopes
  <2>3. table[i][name].node \in FunctionsBound
    BY <1>1, <2>2 DEF SymbolsOf, FunctionsBound, IsFunction, Nodes, AllNodes
  <2>4. QED
    BY <2>3 DEF SessionInv, FunctionsSound
<1>2. QED
  BY <1>1 DEF NoDanglingFunctions, SessionInv, FunctionsSound

-----------------------------------------------------------------------------
(* Scopes.                                                                 *)

LEMMA ProgramIsProgram == SessionInv => IsProgram(program)
BY ProgramsAreTrees DEF SessionInv, SessionTypes, IsProgram

\* Scopes of the table whose functions are of the set S.
FramesOf(p, S) ==
  {f \in TableScopes(p) : \A name \in DOMAIN f : f[name].kind = "function" => f[name].node \in S}

LEMMA EmptyIsFrame ==
  ASSUME NEW p, NEW S
  PROVE  Table!Empty \in FramesOf(p, S) /\ Table!Empty \in CheckedScopes(p)
<1> DEFINE e == Table!Empty
<1>1. DOMAIN e = {} /\ e = [k \in {} |-> e[k]]
  BY DEF Table!Empty
<1>2. {} \in SUBSET Names(p) /\ e \in [{} -> SymbolsOf(p)] /\ e \in [{} -> DOMAIN p.nodes]
  BY DEF Table!Empty
<1> HIDE DEF e
<1>3. /\ e \in UNION {[bound -> SymbolsOf(p)] : bound \in SUBSET Names(p)}
      /\ e \in UNION {[bound -> DOMAIN p.nodes] : bound \in SUBSET Names(p)}
  BY <1>2
<1>4. e \in FramesOf(p, S) /\ e \in CheckedScopes(p)
  BY <1>1, <1>3 DEF FramesOf, TableScopes, CheckedScopes
<1>5. QED
  BY <1>4 DEF e

\* What can be bound to its name.
Binds(p, S, s) ==
  /\ s \in SymbolsOf(p)
  /\ s.kind = "param" => p.nodes[s.owner].kids[s.index] = s.node
  /\ s.kind = "function" => s.node \in S

LEMMA BoundIsFrame ==
  ASSUME NEW p, NEW S, NEW f \in FramesOf(p, S), NEW s, Binds(p, S, s)
  PROVE  Table!Bound(f, p.nodes[s.node].name, s) \in FramesOf(p, S)
<1> DEFINE name == p.nodes[s.node].name
           g == Table!Bound(f, name, s)
<1>1. PICK bound \in SUBSET Names(p) : f \in [bound -> SymbolsOf(p)]
  BY DEF FramesOf, TableScopes
<1>2. name \in Names(p) /\ s \in SymbolsOf(p)
  BY DEF Binds, SymbolsOf, Names
<1>3. CASE name \in DOMAIN f
  BY <1>3 DEF Table!Bound
<1>4. CASE name \notin DOMAIN f
  <2>1. /\ DOMAIN g = bound \cup {name} /\ g[name] = s
        /\ \A x \in bound : g[x] = f[x]
        /\ g \in [bound \cup {name} -> SymbolsOf(p)]
    BY <1>1, <1>2, <1>4 DEF Table!Bound
  <2>2. g \in UNION {[b -> SymbolsOf(p)] : b \in SUBSET Names(p)}
    <3>1. bound \cup {name} \in SUBSET Names(p)
      BY <1>1, <1>2
    <3> HIDE DEF g, name
    <3>2. QED
      BY <2>1, <3>1
  <2>3. ASSUME NEW x \in DOMAIN g
        PROVE  /\ p.nodes[g[x].node].name = x
               /\ g[x].kind = "param" => p.nodes[g[x].owner].kids[g[x].index] = g[x].node
               /\ g[x].kind = "function" => g[x].node \in S
    <3>1. CASE x = name
      BY <2>1, <3>1 DEF Binds
    <3>2. CASE x # name
      <4>1. x \in DOMAIN f /\ g[x] = f[x]
        BY <1>1, <2>1, <3>2
      <4>2. QED
        BY <4>1 DEF FramesOf, TableScopes
    <3>3. QED
      BY <3>1, <3>2
  <2> HIDE DEF g, name
  <2>4. g \in FramesOf(p, S)
    BY <2>2, <2>3 DEF FramesOf, TableScopes
  <2>5. QED
    BY <2>4 DEF g, name
<1>5. QED
  BY <1>3, <1>4

LEMMA EnterFrames ==
  ASSUME NEW X, Table!Empty \in X, NEW t \in Seq(X)
  PROVE  EnterScope(t) \in Seq(X) /\ Len(EnterScope(t)) = Len(t) + 1 /\ EnterScope(t) # <<>>
BY AppendProperties DEF EnterScope

LEMMA ExitFrames ==
  ASSUME NEW X, NEW t \in Seq(X), t # <<>>
  PROVE  /\ ExitScope(t) \in Seq(X) /\ ExitScope(t) # <<>>
         /\ Len(ExitScope(t)) = IF Len(t) > 1 THEN Len(t) - 1 ELSE 1
<1>1. Len(t) \in Nat /\ Len(t) > 0
  OBVIOUS
<1>2. CASE Len(t) > 1
  <2> DEFINE u == SubSeq(t, 1, Len(t) - 1)
  <2>1. /\ 1 \in Int /\ Len(t) - 1 \in Int /\ 1 <= Len(t) - 1
        /\ \A i \in 1 .. Len(t) - 1 : t[i] \in X
    BY <1>1, <1>2
  <2>2. u \in Seq(X) /\ Len(u) = Len(t) - 1
    BY <1>1, <2>1, SubSeqProperties
  <2>3. ExitScope(t) = u
    BY <1>2 DEF ExitScope, Front
  <2> HIDE DEF u
  <2>4. u # <<>>
    BY <1>1, <1>2, <2>2
  <2>5. QED
    BY <1>2, <2>2, <2>3, <2>4
<1>3. CASE Len(t) = 1
  <2>1. ExitScope(t) = t
    BY <1>3 DEF ExitScope
  <2>2. QED
    BY <1>3, <2>1
<1>4. Len(t) = 1 \/ Len(t) > 1
  <2> DEFINE n == Len(t)
  <2>1. n \in Nat /\ n > 0
    BY <1>1
  <2> HIDE DEF n
  <2>2. n = 1 \/ n > 1
    BY <2>1
  <2>3. QED
    BY <2>2 DEF n
<1>5. QED
  BY <1>2, <1>3, <1>4

LEMMA InsertFrames ==
  ASSUME NEW p, NEW S, NEW t \in Seq(FramesOf(p, S)), t # <<>>, NEW s, Binds(p, S, s)
  PROVE  LET next == InsertInto(t, p.nodes[s.node].name, s)
         IN  next \in Seq(FramesOf(p, S)) /\ Len(next) = Len(t) /\ next # <<>>
<1> DEFINE X == FramesOf(p, S)
           f == Table!Bound(t[Len(t)], p.nodes[s.node].name, s)
<1>1. Len(t) \in 1 .. Len(t) /\ t[Len(t)] \in X
  OBVIOUS
<1>2. f \in X
  BY <1>1, BoundIsFrame
<1>3. InsertInto(t, p.nodes[s.node].name, s) = [t EXCEPT ![Len(t)] = f]
  BY DEF InsertInto
<1> HIDE DEF X, f
<1>4. [t EXCEPT ![Len(t)] = f] \in Seq(X) /\ Len([t EXCEPT ![Len(t)] = f]) = Len(t)
  BY <1>1, <1>2, ExceptSeq DEF X
<1>5. QED
  BY <1>3, <1>4 DEF X

\* The scopes of a new function.
LEMMA ParametersFrames ==
  ASSUME NEW f \in AllNodes, IsProgram(program), Parameters(f) >= 0,
         NEW S, NEW t \in Seq(FramesOf(program, S))
  PROVE  /\ WithParameters(t, f) \in Seq(FramesOf(program, S))
         /\ Len(WithParameters(t, f)) = Len(t) + 1
<1> DEFINE p == program
           n == Parameters(f)
           g == ParameterScope(f)
<1>1. /\ f \in DOMAIN p.nodes /\ n \in Nat /\ n = Len(p.nodes[f].kids) - 1
      /\ DOMAIN p.nodes[f].kids = 1 .. Len(p.nodes[f].kids)
      /\ Len(p.nodes[f].kids) \in Nat
  <2>1. f \in DOMAIN p.nodes
    BY DEF AllNodes, Nodes
  <2>2. /\ DOMAIN p.nodes[f].kids = 1 .. Len(p.nodes[f].kids)
        /\ Len(p.nodes[f].kids) \in Nat
    BY <2>1, NodeFacts
  <2>3. n = Len(p.nodes[f].kids) - 1
    BY DEF Parameters, Nodes
  <2>4. QED
    BY <2>1, <2>2, <2>3
<1>2. \A i \in 1 .. n : kid(f, i) = p.nodes[f].kids[i] /\ kid(f, i) \in DOMAIN p.nodes
  BY <1>1, KidFacts DEF kid, Nodes
<1>3. ASSUME NEW name \in ParameterNames(f)
      PROVE  /\ ParameterNamed(f, name) \in 1 .. n
             /\ Nodes[kid(f, ParameterNamed(f, name))].name = name
  <2> DEFINE T == {i \in 1 .. n : Nodes[kid(f, i)].name = name}
  <2>1. PICK k \in 1 .. n : k \in T
    BY DEF ParameterNames
  <2>2. \E j \in 1 .. n : j \in T /\ \A m \in 1 .. j - 1 : m \notin T
    <3>1. n \in Int /\ 1 \in Int
      BY <1>1
    <3> HIDE DEF T, n
    <3>2. QED
      BY <2>1, <3>1, FirstPlace
  <2>3. \E i \in 1 .. n : /\ Nodes[kid(f, i)].name = name
                          /\ \A j \in 1 .. i - 1 : Nodes[kid(f, j)].name # name
    <3>1. PICK i \in 1 .. n : i \in T /\ \A m \in 1 .. i - 1 : m \notin T
      BY <2>2
    <3>2. \A j \in 1 .. i - 1 : j \in 1 .. n
      BY <1>1
    <3>3. QED
      BY <3>1, <3>2
  <2>4. QED
    BY <2>3 DEF ParameterNamed
<1>4. ASSUME NEW name \in ParameterNames(f)
      PROVE  /\ Binds(p, S, g[name]) /\ p.nodes[g[name].node].name = name
             /\ g[name].kind # "function"
  <2> DEFINE i == ParameterNamed(f, name)
  <2>1. i \in 1 .. n /\ Nodes[kid(f, i)].name = name
    BY <1>3
  <2>2. g[name] = Symbol("param", kid(f, i), i, f)
    BY DEF ParameterScope
  <2> HIDE DEF i, g
  <2>3. g[name] = [kind |-> "param", node |-> kid(f, i), index |-> i, owner |-> f]
    BY <2>2 DEF Symbol
  <2>4. i \in Nat /\ kid(f, i) \in DOMAIN p.nodes /\ kid(f, i) = p.nodes[f].kids[i]
    BY <1>1, <1>2, <2>1
  <2>5. g[name] \in SymbolsOf(p)
    BY <1>1, <2>3, <2>4 DEF SymbolsOf, Kinds
  <2>6. QED
    BY <2>1, <2>3, <2>4, <2>5 DEF Binds, Nodes
<1>5. DOMAIN g = ParameterNames(f)
  BY DEF ParameterScope
<1>6. ParameterNames(f) \in SUBSET Names(p)
  BY <1>2 DEF ParameterNames, Names, Nodes
<1>7. g \in FramesOf(p, S)
  <2>1. g = [name \in ParameterNames(f) |-> g[name]]
    BY DEF ParameterScope
  <2> HIDE DEF g
  <2>2. g \in [ParameterNames(f) -> SymbolsOf(p)]
    BY <1>4, <2>1 DEF Binds
  <2>3. g \in UNION {[bound -> SymbolsOf(p)] : bound \in SUBSET Names(p)}
    BY <1>6, <2>2
  <2>4. QED
    BY <1>4, <1>5, <2>3 DEF FramesOf, TableScopes, Binds
<1>8. Binds(p, S, Self(f)) /\ Self(f).node = f
  BY <1>1 DEF Binds, Self, Symbol, SymbolsOf, Kinds
<1> HIDE DEF g
<1>9. Table!Bound(g, p.nodes[f].name, Self(f)) \in FramesOf(p, S)
  BY <1>7, <1>8, BoundIsFrame
<1>10. QED
  BY <1>9, AppendProperties DEF WithParameters, Nodes, g

-----------------------------------------------------------------------------
(* What a task makes of the work.                                          *)

\* A step replaces the task at hand by others that lead where the task leads.
Works ==
  \E tasks \in Seq(TasksOf(program)) :
    /\ agenda' = tasks \o Tail(agenda)
    /\ Within(program, Task, tasks)
    /\ Ready(program, Now, Task) => Leads(program, Now', tasks, After(program, Now, Task))

LEMMA TaskMeanings ==
  ASSUME NEW p, NEW t
  PROVE  /\ t.do \in {"check", "bind", "leave", "gen", "enter"} => Needs(p, t) = 0
         /\ t.do \in {"list", "call"} => Needs(p, t) = Len(p.nodes[t.node].kids)
         /\ t.do = "test" => Needs(p, t) = 2
         /\ t.do \in {"arm", "add", "store", "branch", "else", "join", "result", "end",
                      "matched"} => Needs(p, t) = 1
         /\ t.do \in {"check", "bind", "leave", "enter", "result"} => Makes(t) = 0
         /\ t.do \in {"gen", "arm", "add", "store", "list", "branch", "else", "join", "test",
                      "matched", "end", "call"} => Makes(t) = 1
BY DEF Needs, Makes

LEMMA TaskAtHand ==
  ASSUME SessionInv, agenda # <<>>
  PROVE  /\ Task \in TasksOf(program) /\ This \in AllNodes /\ Task.do \in Dos
         /\ Fits(program, Task) /\ Task = DoTask(Task.do, This)
         /\ Task = agenda[1] /\ 1 \in DOMAIN agenda
         /\ Tail(agenda) \in Seq(TasksOf(program))
<1>1. agenda \in Seq(TasksOf(program))
  BY DEF SessionInv, SessionTypes
<1>2. Task \in TasksOf(program) /\ Tail(agenda) \in Seq(TasksOf(program))
  BY <1>1, HeadTailProperties DEF Task
<1>3. Task = agenda[1] /\ 1 \in DOMAIN agenda
  BY <1>1 DEF Task
<1>4. Task \in [do : Dos, node : DOMAIN program.nodes] /\ Fits(program, Task)
  BY <1>2 DEF TasksOf
<1>5. QED
  BY <1>2, <1>3, <1>4 DEF This, DoTask, AllNodes, Nodes

LEMMA NowIsDepth ==
  ASSUME SessionInv
  PROVE  /\ Now \in Depths /\ Len(table) \in Nat /\ Len(checked) \in Nat /\ Len(values) \in Nat
         /\ Now.frames = IF phase = "check" THEN Len(checked) ELSE Len(table)
         /\ Now.results = Len(values) /\ Now.stack = building
<1>1. /\ checked \in Seq(CheckedScopes(program)) /\ table \in Seq(TableScopes(program))
      /\ building \in Seq(AllNodes) /\ values \in Seq(BOOLEAN)
  BY DEF SessionInv, SessionTypes
<1>2. AllNodes \subseteq Nat
  BY ProgramIsProgram, NodeFacts DEF AllNodes, Nodes
<1>3. building \in Seq(Nat)
  BY <1>1, <1>2, SeqMonotonic
<1>4. Len(table) \in Nat /\ Len(checked) \in Nat /\ Len(values) \in Nat
  BY <1>1
<1>5. QED
  BY <1>3, <1>4 DEF Now, Depths, Depth

\* The work stays balanced and in order.
LEMMA WorkStays ==
  ASSUME SessionInv, agenda # <<>>, phase \in {"check", "generate"}, Works,
         UNCHANGED <<session, phase>>
  PROVE  /\ agenda' \in Seq(TasksOf(program)) /\ Balanced' /\ InOrder'
         /\ \A i \in DOMAIN agenda' : \A m \in Starts(program, agenda'[i]) :
              \E k \in DOMAIN agenda : \E l \in Starts(program, agenda[k]) : l <= m
<1>1. PICK tasks \in Seq(TasksOf(program)) :
        /\ agenda' = tasks \o Tail(agenda)
        /\ Within(program, Task, tasks)
        /\ Ready(program, Now, Task) => Leads(program, Now', tasks, After(program, Now, Task))
  BY DEF Works
<1>2. agenda \in Seq(TasksOf(program)) /\ Ordered(program, agenda) /\ IsProgram(program)
  BY ProgramIsProgram DEF SessionInv, SessionTypes, InOrder
<1>3. /\ agenda' \in Seq(TasksOf(program)) /\ Ordered(program, agenda')
      /\ \A i \in DOMAIN agenda' :
           /\ \A m \in Starts(program, agenda'[i]) :
                \E k \in DOMAIN agenda : \E l \in Starts(program, agenda[k]) : l <= m
           /\ agenda'[i].do \in Covering =>
                \E k \in DOMAIN agenda :
                  /\ agenda[k].do \in Covering
                  /\ TreeEnds(program)[agenda'[i].node] <= TreeEnds(program)[agenda[k].node]
  BY <1>1, <1>2, StaysOrdered DEF Task
<1>4. /\ program' = program /\ input' = input /\ phase' = phase
      /\ Later' = Later /\ Root' = Root
  BY DEF session, Later, Root
<1>5. Balanced'
  <2>1. PICK r : Leads(program, Now, agenda, r) /\ AtEnd(r)
    BY DEF SessionInv, Balanced
  <2>2. Ready(program, Now, Task) /\ Leads(program, After(program, Now, Task), Tail(agenda), r)
    BY <1>2, <2>1, RestLeads DEF Task
  <2>3. Leads(program, Now', tasks, After(program, Now, Task))
    BY <1>1, <2>2
  <2>4. Tail(agenda) \in Seq(TasksOf(program))
    BY TaskAtHand
  <2>5. Leads(program, Now', agenda', r)
    BY <1>1, <2>2, <2>3, <2>4, BothLead
  <2>6. AtEnd(r)'
    BY <1>4, <2>1 DEF AtEnd
  <2>7. QED
    BY <1>4, <2>5, <2>6 DEF Balanced
<1>6. ASSUME NEW i \in DOMAIN agenda', NEW j \in Later', agenda'[i].do \in Covering
      PROVE  TreeEnds(program)[agenda'[i].node] < program.inputs[j]
  <2>1. PICK k \in DOMAIN agenda :
          /\ agenda[k].do \in Covering
          /\ TreeEnds(program)[agenda'[i].node] <= TreeEnds(program)[agenda[k].node]
    BY <1>3, <1>6
  <2>2. TreeEnds(program)[agenda[k].node] < program.inputs[j]
    BY <1>4, <1>6, <2>1 DEF SessionInv, InOrder
  <2>3. agenda'[i].node \in DOMAIN program.nodes /\ agenda[k].node \in DOMAIN program.nodes
    <3>1. agenda'[i] \in TasksOf(program) /\ agenda[k] \in TasksOf(program)
      BY <1>2, <1>3, ElementOfSeq
    <3>2. QED
      BY <3>1 DEF TasksOf
  <2>4. /\ TreeEnds(program)[agenda'[i].node] \in Nat /\ TreeEnds(program)[agenda[k].node] \in Nat
    BY <1>2, <2>3, NodeFacts
  <2>5. program.inputs[j] \in Nat
    <3>1. program.inputs \in Seq(DOMAIN program.nodes) /\ j \in DOMAIN program.inputs
      BY <1>2, <1>4 DEF IsProgram, InPreorder, Later
    <3>2. program.inputs[j] \in DOMAIN program.nodes
      BY <3>1
    <3>3. QED
      BY <1>2, <3>2, NodeFacts
  <2>6. QED
    BY <2>1, <2>2, <2>4, <2>5
<1>7. InOrder'
  BY <1>3, <1>4, <1>6 DEF InOrder
<1>8. QED
  BY <1>3, <1>5, <1>7

\* A step of type checking.
LEMMA CheckStep ==
  ASSUME SessionInv, phase = "check", agenda # <<>>, Works,
         UNCHANGED <<session, phase, table, holders, work>>,
         checked' \in Seq(CheckedScopes(program)), checked' # <<>>
  PROVE  SessionInv'
<1>1. /\ agenda' \in Seq(TasksOf(program)) /\ Balanced' /\ InOrder'
      /\ \A i \in DOMAIN agenda' : \A m \in Starts(program, agenda'[i]) :
           \E k \in DOMAIN agenda : \E l \in Starts(program, agenda[k]) : l <= m
  BY WorkStays
<1>2. /\ program' = program /\ input' = input /\ phase' = phase /\ Later' = Later
      /\ table' = table /\ holders' = holders /\ building' = building /\ values' = values
      /\ invalid' = invalid /\ AllNodes' = AllNodes /\ Nodes' = Nodes
  BY DEF session, work, Later, AllNodes, Nodes
<1>3. SessionTypes'
  BY <1>1, <1>2 DEF SessionInv, SessionTypes
<1>4. Between'
  BY <1>2 DEF SessionInv, Between
<1>5. FunctionsBound' = FunctionsBound
  BY <1>2 DEF FunctionsBound, IsFunction
<1>6. FunctionsSound'
  BY <1>2, <1>5 DEF SessionInv, FunctionsSound
<1>7. BegunOnce'
  <2>1. Begun' = Begun
    BY <1>2, <1>5 DEF Begun
  <2>2. ASSUME NEW n \in Begun, NEW i \in DOMAIN agenda', NEW m \in Starts(program, agenda'[i])
        PROVE  n < m
    <3>1. PICK k \in DOMAIN agenda : \E l \in Starts(program, agenda[k]) : l <= m
      BY <1>1
    <3>2. PICK l \in Starts(program, agenda[k]) : l <= m
      BY <3>1
    <3>3. n < l
      BY DEF SessionInv, BegunOnce
    <3>4. n \in Nat /\ l \in Nat /\ m \in Nat
      <4>1. n \in AllNodes
        BY DEF Begun, FunctionsBound, SessionInv, SessionTypes, Range
      <4>2. QED
        BY <4>1, ProgramIsProgram, StartsAreNodes, NodeFacts DEF AllNodes, Nodes
    <3>5. QED
      BY <3>2, <3>3, <3>4
  <2>3. QED
    BY <1>2, <2>1, <2>2 DEF SessionInv, BegunOnce
<1>8. QED
  BY <1>1, <1>3, <1>4, <1>6, <1>7 DEF SessionInv

LEMMA BuildingFacts ==
  ASSUME SessionInv, phase = "generate"
  PROVE  /\ building \in Seq(AllNodes) /\ building # <<>> /\ Function \in Range(building)
         /\ Range(building) \subseteq AllNodes /\ table # <<>>
<1>1. building \in Seq(AllNodes) /\ building # <<>> /\ table # <<>>
  BY DEF SessionInv, SessionTypes, Between
<1>2. Function = building[1] /\ 1 \in DOMAIN building
  BY <1>1 DEF Function
<1>3. Range(building) \subseteq AllNodes
  BY <1>1, RangeOfSeq
<1>4. QED
  BY <1>1, <1>2, <1>3 DEF Range

LEMMA FramesGive ==
  ASSUME SessionInv, program' = program, NEW S, table' \in Seq(FramesOf(program, S))
  PROVE  table' \in Seq(TableScopes(program)) /\ FunctionsBound' \subseteq S
<1>1. FramesOf(program, S) \subseteq TableScopes(program)
  BY DEF FramesOf
<1>2. table' \in Seq(TableScopes(program))
  BY <1>1, SeqMonotonic
<1>3. ASSUME NEW n \in FunctionsBound' PROVE n \in S
  <2>1. PICK i \in DOMAIN table' : \E name \in DOMAIN table'[i] : IsFunction(name, i, n)'
    BY DEF FunctionsBound
  <2>2. PICK name \in DOMAIN table'[i] :
          table'[i][name].kind = "function" /\ table'[i][name].node = n
    BY <2>1 DEF IsFunction
  <2>3. table'[i] \in FramesOf(program, S)
    BY <2>1
  <2>4. QED
    BY <2>2, <2>3 DEF FramesOf
<1>4. QED
  BY <1>2, <1>3

LEMMA TableFrames ==
  ASSUME SessionInv
  PROVE  table \in Seq(FramesOf(program, FunctionsBound))
<1> DEFINE X == FramesOf(program, FunctionsBound)
<1>1. table \in Seq(TableScopes(program))
  BY DEF SessionInv, SessionTypes
<1>2. ASSUME NEW i \in 1 .. Len(table) PROVE table[i] \in X
  <2>1. i \in DOMAIN table /\ table[i] \in TableScopes(program)
    BY <1>1
  <2>2. ASSUME NEW name \in DOMAIN table[i], table[i][name].kind = "function"
        PROVE  table[i][name].node \in FunctionsBound
    <3>1. table[i][name] \in SymbolsOf(program)
      BY <2>1 DEF TableScopes
    <3>2. QED
      BY <2>1, <2>2, <3>1 DEF SymbolsOf, FunctionsBound, IsFunction, Nodes, AllNodes
  <2>3. QED
    BY <2>1, <2>2 DEF FramesOf
<1> HIDE DEF X
<1>3. table \in Seq(X)
  BY <1>1, <1>2
<1>4. QED
  BY <1>3 DEF X

\* A step of code generation, after which the functions bound are of the set S and
\* those begun were begun before or are the node at hand.
LEMMA GenerateStep ==
  ASSUME SessionInv, phase = "generate", agenda # <<>>, Works,
         UNCHANGED <<session, phase, checked>>,
         NEW S, table' \in Seq(FramesOf(program, S)), table' # <<>>,
         values' \in Seq(BOOLEAN), building' \in Seq(AllNodes), building' # <<>>,
         invalid' \subseteq AllNodes,
         \A name \in DOMAIN holders' : holders'[name] \in AllNodes,
         Begun' \subseteq Begun \cup {This},
         This \in Begun' \ Begun =>
           /\ \A i \in DOMAIN agenda' : \A m \in Starts(program, agenda'[i]) : This < m
           /\ \A j \in Later : This < program.inputs[j],
         \A i, j \in DOMAIN building' : i # j => building'[i] # building'[j],
         FunctionsSound'
  PROVE  SessionInv'
<1>1. /\ agenda' \in Seq(TasksOf(program)) /\ Balanced' /\ InOrder'
      /\ \A i \in DOMAIN agenda' : \A m \in Starts(program, agenda'[i]) :
           \E k \in DOMAIN agenda : \E l \in Starts(program, agenda[k]) : l <= m
  BY WorkStays
<1>2. /\ program' = program /\ input' = input /\ phase' = phase /\ Later' = Later
      /\ checked' = checked /\ AllNodes' = AllNodes /\ Nodes' = Nodes
  BY DEF session, Later, AllNodes, Nodes
<1>3. SessionTypes'
  BY <1>1, <1>2, FramesGive DEF SessionInv, SessionTypes
<1>4. Between'
  BY <1>2 DEF SessionInv, Between
<1>5. BegunOnce'
  <2>1. ASSUME NEW n \in Begun, NEW i \in DOMAIN agenda', NEW m \in Starts(program, agenda'[i])
        PROVE  n < m
    <3>1. PICK k \in DOMAIN agenda : \E l \in Starts(program, agenda[k]) : l <= m
      BY <1>1
    <3>2. PICK l \in Starts(program, agenda[k]) : l <= m
      BY <3>1
    <3>3. n < l
      BY DEF SessionInv, BegunOnce
    <3>4. n \in Nat /\ l \in Nat /\ m \in Nat
      <4>1. n \in AllNodes
        BY BuildingFacts DEF Begun, FunctionsBound
      <4>2. QED
        BY <4>1, ProgramIsProgram, StartsAreNodes, NodeFacts DEF AllNodes, Nodes
    <3>5. QED
      BY <3>2, <3>3, <3>4
  <2>2. ASSUME NEW n \in Begun'
        PROVE  /\ \A i \in DOMAIN agenda' : \A m \in Starts(program, agenda'[i]) : n < m
               /\ \A j \in Later : n < program.inputs[j]
    <3>1. CASE n \in Begun
      BY <2>1, <3>1 DEF SessionInv, BegunOnce
    <3>2. CASE n \notin Begun
      <4>1. n = This /\ This \in Begun' \ Begun
        BY <3>2
      <4>2. QED
        BY <4>1
    <3>3. QED
      BY <3>1, <3>2
  <2>3. QED
    BY <1>2, <2>2 DEF BegunOnce
<1>6. QED
  BY <1>1, <1>3, <1>4, <1>5 DEF SessionInv

\* A step that binds no function and begins none.
LEMMA QuietStep ==
  ASSUME SessionInv, phase = "generate", agenda # <<>>, Works,
         UNCHANGED <<session, phase, checked, building>>,
         table' \in Seq(FramesOf(program, FunctionsBound)), table' # <<>>,
         values' \in Seq(BOOLEAN), invalid' \subseteq invalid \cup {Function},
         \A name \in DOMAIN holders' :
           \/ name \in DOMAIN holders /\ holders'[name] = holders[name]
           \/ holders'[name] \in AllNodes /\ Nodes[holders'[name]].tag \notin {"fn", "list"}
  PROVE  SessionInv'
<1>1. building' = building /\ program' = program /\ AllNodes' = AllNodes /\ Nodes' = Nodes
  BY DEF session, AllNodes, Nodes
<1>2. FunctionsBound' \subseteq FunctionsBound
  BY <1>1, FramesGive
<1>3. Begun' \subseteq Begun
  BY <1>1, <1>2 DEF Begun
<1>4. invalid' \subseteq invalid \cup Range(building) /\ invalid' \subseteq AllNodes
  BY BuildingFacts DEF SessionInv, SessionTypes
<1>5. \A name \in DOMAIN holders' : holders'[name] \in AllNodes
  BY DEF SessionInv, SessionTypes
<1>6. FunctionsSound'
  <2>1. FunctionsSound
    BY DEF SessionInv
  <2>2. \A n \in FunctionsBound' :
          Nodes[n].tag \in {"fn", "extern"} /\ n \notin invalid' \cup Range(building)
    BY <1>2, <1>4, <2>1 DEF FunctionsSound
  <2>3. \A n \in invalid' \cup Range(building) : Nodes[n].tag \in {"fn", "list"}
    BY <1>4, <2>1 DEF FunctionsSound
  <2>4. ASSUME NEW name \in DOMAIN holders', holders'[name] \in invalid'
        PROVE  holders'[name] \in Range(building)
    <3>1. CASE name \in DOMAIN holders /\ holders'[name] = holders[name]
      BY <1>4, <2>1, <2>4, <3>1 DEF FunctionsSound
    <3>2. CASE Nodes[holders'[name]].tag \notin {"fn", "list"}
      BY <2>3, <2>4, <3>2
    <3>3. QED
      BY <3>1, <3>2
  <2>5. QED
    BY <1>1, <2>2, <2>3, <2>4 DEF FunctionsSound
<1>7. QED
  BY <1>1, <1>3, <1>4, <1>5, <1>6, BuildingFacts, GenerateStep DEF SessionInv, BegunOnce

-----------------------------------------------------------------------------
(* The work that steps give.                                               *)

LEMMA ThenNothing ==
  ASSUME SessionInv, agenda # <<>>, Then(<<>>),
         Ready(program, Now, Task) => Now' = After(program, Now, Task)
  PROVE  Works
<1>1. <<>> \in Seq(TasksOf(program)) /\ Within(program, Task, <<>>)
  BY DEF Within, Ordered
<1>2. QED
  BY <1>1, NothingLeads DEF Works, Then

\* Tasks of type checking are in no order.
LEMMA ChecksWithin ==
  ASSUME NEW p, NEW t, NEW tasks,
         \A i \in DOMAIN tasks : tasks[i].do \in {"check", "bind", "leave"}
  PROVE  Within(p, t, tasks)
<1>1. \A i \in DOMAIN tasks : tasks[i].do \notin Covering /\ Starts(p, tasks[i]) = {}
  BY DEF Covering, Starts
<1>2. QED
  BY <1>1 DEF Within, Ordered

LEMMA KidTasks ==
  ASSUME SessionInv, NEW n \in AllNodes, NEW do \in {"check", "gen"}
  PROVE  /\ OnKids(do, n) \in Seq(TasksOf(program))
         /\ Len(OnKids(do, n)) = Len(Nodes[n].kids) /\ Len(Nodes[n].kids) \in Nat
         /\ DOMAIN OnKids(do, n) = DOMAIN Nodes[n].kids
         /\ \A i \in DOMAIN OnKids(do, n) :
              OnKids(do, n)[i] = DoTask(do, program.nodes[n].kids[i])
<1> DEFINE kids == program.nodes[n].kids
<1>1. /\ IsProgram(program) /\ n \in DOMAIN program.nodes
      /\ kids = Nodes[n].kids /\ Len(kids) \in Nat /\ DOMAIN kids = 1 .. Len(kids)
  BY ProgramIsProgram, NodeFacts DEF AllNodes, Nodes
<1>2. ASSUME NEW i \in DOMAIN kids
      PROVE  DoTask(do, kids[i]) \in TasksOf(program)
  <2>1. kids[i] \in DOMAIN program.nodes
    BY <1>1, KidFacts
  <2> HIDE DEF kids
  <2>2. /\ DoTask(do, kids[i]) \in [do : Dos, node : DOMAIN program.nodes]
        /\ DoTask(do, kids[i]).do = do
    BY <2>1 DEF DoTask, Dos
  <2>3. QED
    BY <2>2 DEF TasksOf, Fits
<1>3. OnKids(do, n) = [i \in 1 .. Len(kids) |-> DoTask(do, kids[i])]
  BY <1>1 DEF OnKids, kid, Nodes
<1> HIDE DEF kids
<1>4. OnKids(do, n) \in Seq(TasksOf(program)) /\ Len(OnKids(do, n)) = Len(kids)
  BY <1>1, <1>2, <1>3
<1>5. QED
  BY <1>1, <1>3, <1>4 DEF kids

-----------------------------------------------------------------------------
(* Type checking.                                                          *)

LEMMA BoundIsChecked ==
  ASSUME NEW p, NEW f \in CheckedScopes(p), NEW n \in DOMAIN p.nodes
  PROVE  Checked!Bound(f, p.nodes[n].name, n) \in CheckedScopes(p)
<1> DEFINE name == p.nodes[n].name
           g == Checked!Bound(f, name, n)
<1>1. PICK bound \in SUBSET Names(p) : f \in [bound -> DOMAIN p.nodes]
  BY DEF CheckedScopes
<1>2. name \in Names(p)
  BY DEF Names
<1>3. /\ DOMAIN g = bound \cup {name} /\ g[name] = n
      /\ \A x \in bound : x # name => g[x] = f[x]
      /\ g \in [bound \cup {name} -> DOMAIN p.nodes]
  BY <1>1, <1>2 DEF Checked!Bound
<1>4. bound \cup {name} \in SUBSET Names(p)
  BY <1>1, <1>2
<1>5. \A x \in DOMAIN g : p.nodes[g[x]].name = x
  BY <1>1, <1>3 DEF CheckedScopes
<1> HIDE DEF g, name
<1>6. g \in CheckedScopes(p)
  BY <1>3, <1>4, <1>5 DEF CheckedScopes
<1>7. QED
  BY <1>6 DEF g, name

LEMMA BindChecked ==
  ASSUME NEW p, NEW t \in Seq(CheckedScopes(p)), t # <<>>, NEW n \in DOMAIN p.nodes
  PROVE  LET next == [t EXCEPT ![Len(t)] = Checked!Bound(@, p.nodes[n].name, n)]
         IN  next \in Seq(CheckedScopes(p)) /\ Len(next) = Len(t) /\ next # <<>>
<1> DEFINE X == CheckedScopes(p)
           f == Checked!Bound(t[Len(t)], p.nodes[n].name, n)
<1>1. Len(t) \in 1 .. Len(t) /\ t[Len(t)] \in X
  OBVIOUS
<1>2. f \in X
  BY <1>1, BoundIsChecked
<1>3. [t EXCEPT ![Len(t)] = Checked!Bound(@, p.nodes[n].name, n)] = [t EXCEPT ![Len(t)] = f]
  OBVIOUS
<1> HIDE DEF X, f
<1>4. [t EXCEPT ![Len(t)] = f] \in Seq(X) /\ Len([t EXCEPT ![Len(t)] = f]) = Len(t)
  BY <1>1, <1>2, ExceptSeq DEF X
<1>5. QED
  BY <1>3, <1>4 DEF X

\* A step of type checking on a task of a kind.
Checks(do) ==
  /\ SessionInv /\ phase = "check" /\ agenda # <<>> /\ Task.do = do
  /\ UNCHANGED <<session, phase, table, holders, work>>

LEMMA CheckedFacts ==
  ASSUME NEW do, Checks(do)
  PROVE  /\ checked \in Seq(CheckedScopes(program)) /\ checked # <<>>
         /\ This \in DOMAIN program.nodes /\ This_name = program.nodes[This].name
         /\ Now = Depth(Len(checked), Len(values), building) /\ Now \in Depths
         /\ Now' = Depth(Len(checked'), Len(values), building)
         /\ Len(checked) \in Nat /\ Len(values) \in Nat
BY TaskAtHand, NowIsDepth
   DEF Checks, SessionInv, SessionTypes, Between, This_name, Now, Nodes, AllNodes, work

\* Nothing more to do, in the scope the task was done in.
LEMMA NoMoreChecks ==
  ASSUME NEW do \in {"check", "bind"}, Checks(do), Then(<<>>), Len(checked') = Len(checked)
  PROVE  Works
<1>1. Needs(program, Task) = 0 /\ Makes(Task) = 0 /\ Task.do \notin Closing /\ Task.do # "end"
  BY TaskMeanings DEF Checks, Closing
<1>2. Now' = After(program, Now, Task)
  BY <1>1, CheckedFacts DEF After, Depth
<1>3. QED
  BY <1>2, ThenNothing DEF Checks

LEMMA KidChecks ==
  ASSUME Checks("check"), Then(OnKids("check", This)), checked' = checked
  PROVE  Works
<1> DEFINE tasks == OnKids("check", This)
<1>1. SessionInv /\ This \in AllNodes
  BY TaskAtHand DEF Checks
<1>2. /\ tasks \in Seq(TasksOf(program))
      /\ \A i \in DOMAIN tasks : tasks[i] = DoTask("check", program.nodes[This].kids[i])
  BY <1>1, KidTasks
<1>3. \A i \in DOMAIN tasks : tasks[i].do = "check"
  BY <1>2 DEF DoTask
<1>4. \A i \in DOMAIN tasks :
        Needs(program, tasks[i]) = 0 /\ Makes(tasks[i]) = 0 /\ tasks[i].do \notin Closing
  BY <1>3, TaskMeanings DEF Closing
<1> HIDE DEF tasks
<1>5. Within(program, Task, tasks)
  BY <1>3, ChecksWithin
<1>6. Now' = Now /\ Now \in Depths
  BY CheckedFacts
<1>7. Leads(program, Now, tasks, Now)
  BY <1>2, <1>4, <1>6, NoneOfEach
<1>8. Now = After(program, Now, Task)
  <2>1. Needs(program, Task) = 0 /\ Makes(Task) = 0 /\ Task.do \notin Closing /\ Task.do # "end"
    BY TaskMeanings DEF Checks, Closing
  <2>2. QED
    BY <1>6, <2>1 DEF After, Depth, Depths
<1>9. agenda' = tasks \o Tail(agenda)
  BY DEF Then, tasks
<1>10. QED
  BY <1>2, <1>5, <1>6, <1>7, <1>8, <1>9 DEF Works

\* The parts of a function, in a scope that is left after them.
LEMMA ScopedChecks ==
  ASSUME Checks("check"), NEW kids \in Seq(TasksOf(program)),
         \A i \in DOMAIN kids : kids[i].do = "check",
         Then(kids \o <<DoTask("leave", This)>>), Len(checked') = Len(checked) + 1
  PROVE  Works
<1> DEFINE leave == <<DoTask("leave", This)>>
           tasks == kids \o leave
           deeper == Depth(Len(checked) + 1, Len(values), building)
<1>1. DoTask("leave", This) \in TasksOf(program) /\ DoTask("leave", This).do = "leave"
  BY CheckedFacts DEF TasksOf, Fits, DoTask, Dos
<1>2. leave \in Seq(TasksOf(program)) /\ Len(leave) = 1 /\ leave[1] = DoTask("leave", This)
  BY <1>1
<1> HIDE DEF leave
<1>3. /\ tasks \in Seq(TasksOf(program))
      /\ \A i \in DOMAIN tasks : tasks[i].do \in {"check", "leave"}
  <2> DEFINE n == Len(kids)
  <2>1. n \in Nat /\ DOMAIN kids = 1 .. n
    OBVIOUS
  <2>2. leave \in Seq(TasksOf(program))
    BY <1>2
  <2>3. /\ tasks \in Seq(TasksOf(program)) /\ Len(tasks) = n + Len(leave)
        /\ \A i \in 1 .. n : tasks[i] = kids[i]
        /\ \A i \in 1 .. Len(leave) : tasks[n + i] = leave[i]
    BY <2>2, Joined
  <2>4. DOMAIN tasks = 1 .. Len(tasks)
    BY <2>3
  <2> HIDE DEF tasks, n
  <2>5. DOMAIN tasks = 1 .. n + 1 /\ tasks[n + 1] = leave[1]
    BY <1>2, <2>1, <2>3, <2>4
  <2>6. ASSUME NEW i \in DOMAIN tasks PROVE tasks[i].do \in {"check", "leave"}
    <3>1. CASE i = n + 1
      BY <1>1, <1>2, <2>5, <3>1
    <3>2. CASE i # n + 1
      <4>1. i \in 1 .. n
        BY <2>1, <2>5, <3>2
      <4>2. QED
        BY <2>1, <2>3, <4>1
    <3>3. QED
      BY <3>1, <3>2
  <2>7. QED
    BY <2>3, <2>6
<1> HIDE DEF tasks
<1>4. Within(program, Task, tasks)
  BY <1>3, ChecksWithin
<1>5. /\ Now' = deeper /\ Now = Depth(Len(checked), Len(values), building)
      /\ Now \in Depths /\ Len(checked) \in Nat /\ Len(values) \in Nat /\ Len(checked) > 0
  BY CheckedFacts
<1>6. deeper \in Depths /\ deeper.frames = Len(checked) + 1
      /\ deeper.results = Len(values) /\ deeper.stack = building
  BY <1>5 DEF Depths, Depth
<1>7. \A i \in DOMAIN kids :
        Needs(program, kids[i]) = 0 /\ Makes(kids[i]) = 0 /\ kids[i].do \notin Closing
  BY TaskMeanings DEF Closing
<1>8. Leads(program, deeper, kids, deeper)
  <2> HIDE DEF deeper
  <2>1. QED
    BY <1>6, <1>7, NoneOfEach
<1>9. /\ Ready(program, deeper, DoTask("leave", This))
      /\ After(program, deeper, DoTask("leave", This)) = Now
  <2>1. /\ Needs(program, DoTask("leave", This)) = 0 /\ Makes(DoTask("leave", This)) = 0
    BY <1>1, TaskMeanings
  <2> HIDE DEF deeper
  <2>2. QED
    BY <1>1, <1>5, <1>6, <2>1 DEF Ready, After, Closing, Depth
<1>10. Leads(program, deeper, leave, Now)
  BY <1>9, OneLeads DEF leave
<1>11. Leads(program, deeper, tasks, Now)
  BY <1>2, <1>8, <1>10, BothLead DEF tasks
<1>12. Now = After(program, Now, Task)
  <2>1. Needs(program, Task) = 0 /\ Makes(Task) = 0 /\ Task.do \notin Closing /\ Task.do # "end"
    BY TaskMeanings DEF Checks, Closing
  <2>2. QED
    BY <1>5, <2>1 DEF After, Depth
<1>13. agenda' = tasks \o Tail(agenda)
  BY DEF Then, tasks, leave
<1>14. QED
  BY <1>3, <1>4, <1>5, <1>11, <1>12, <1>13 DEF Works

LEMMA ChecksKeep ==
  ASSUME NEW do, Checks(do), Works, checked' \in Seq(CheckedScopes(program)), checked' # <<>>
  PROVE  SessionInv'
BY CheckStep DEF Checks

LEMMA ThisFits ==
  ASSUME SessionInv, agenda # <<>>
  PROVE  /\ IsProgram(program) /\ This \in DOMAIN program.nodes
         /\ program.nodes[This].tag \in {"plus", "assignment", "match", "fn", "extern"} =>
              Len(program.nodes[This].kids) >= 1
         /\ program.nodes[This].tag = "if" => Len(program.nodes[This].kids) >= 2
         /\ program.nodes[This].tag = "match" =>
              \A i \in 2 .. Len(program.nodes[This].kids) :
                Len(program.nodes[program.nodes[This].kids[i]].kids) = 2
<1>1. IsProgram(program) /\ This \in DOMAIN program.nodes
  BY ProgramIsProgram, TaskAtHand DEF AllNodes, Nodes
<1>2. QED
  BY <1>1 DEF IsProgram, HasParts

LEMMA KidAt ==
  ASSUME NEW p, IsProgram(p), NEW n \in DOMAIN p.nodes, NEW i \in Nat \ {0},
         Len(p.nodes[n].kids) >= i
  PROVE  /\ i \in DOMAIN p.nodes[n].kids /\ p.nodes[n].kids[i] \in DOMAIN p.nodes
         /\ n < p.nodes[n].kids[i] /\ TreeEnds(p)[p.nodes[n].kids[i]] <= TreeEnds(p)[n]
<1> DEFINE m == Len(p.nodes[n].kids)
<1>1. m \in Nat /\ DOMAIN p.nodes[n].kids = 1 .. m /\ m >= i
  BY NodeFacts
<1> HIDE DEF m
<1>2. i \in DOMAIN p.nodes[n].kids
  BY <1>1
<1>3. QED
  BY <1>2, KidFacts

LEMMA CheckInnerInv == ASSUME SessionInv, CheckInner PROVE SessionInv'
<1>1. Checks("check") /\ Then(OnKids("check", This)) /\ checked' = checked
  BY DEF CheckInner, Doing, Checks, OnlyChecks
<1>2. QED
  BY <1>1, KidChecks, ChecksKeep, CheckedFacts

LEMMA CheckIdentifierInv == ASSUME SessionInv, CheckIdentifier PROVE SessionInv'
<1>1. Checks("check") /\ Then(<<>>) /\ checked' = checked
  BY DEF CheckIdentifier, At, Doing, Checks, OnlyChecks
<1>2. QED
  BY <1>1, NoMoreChecks, ChecksKeep, CheckedFacts

LEMMA CheckCallInv == ASSUME SessionInv, CheckCall PROVE SessionInv'
<1>1. Checks("check") /\ checked' = checked /\ (Then(OnKids("check", This)) \/ Then(<<>>))
  BY DEF CheckCall, At, Doing, Checks, OnlyChecks
<1>2. CASE Then(<<>>)
  BY <1>1, <1>2, NoMoreChecks, ChecksKeep, CheckedFacts
<1>3. CASE Then(OnKids("check", This))
  BY <1>1, <1>3, KidChecks, ChecksKeep, CheckedFacts
<1>4. QED
  BY <1>1, <1>2, <1>3

\* The name of the node at hand is bound to it.
LEMMA BindThis ==
  ASSUME NEW do, Checks(do), Checked!Bind(This_name, This)
  PROVE  checked' \in Seq(CheckedScopes(program)) /\ Len(checked') = Len(checked)
         /\ checked' # <<>>
<1>1. /\ checked' = [checked EXCEPT ![Len(checked)] =
                                       Checked!Bound(@, program.nodes[This].name, This)]
      /\ checked \in Seq(CheckedScopes(program)) /\ checked # <<>>
      /\ This \in DOMAIN program.nodes
  BY CheckedFacts DEF Checked!Bind
<1>2. QED
  BY <1>1, BindChecked

LEMMA CheckDeclarationInv == ASSUME SessionInv, CheckDeclaration PROVE SessionInv'
<1>1. Checks("check") /\ Then(<<>>) /\ Checked!Bind(This_name, This)
  BY DEF CheckDeclaration, At, Doing, Checks, OnlyChecks
<1>2. /\ checked' \in Seq(CheckedScopes(program)) /\ Len(checked') = Len(checked)
      /\ checked' # <<>>
  BY <1>1, BindThis
<1>3. Works
  BY <1>1, <1>2, NoMoreChecks
<1>4. QED
  BY <1>1, <1>2, <1>3, ChecksKeep

LEMMA BindAssignedInv == ASSUME SessionInv, BindAssigned PROVE SessionInv'
<1>1. Checks("bind") /\ Then(<<>>) /\ (Checked!Bind(This_name, This) \/ checked' = checked)
  BY DEF BindAssigned, Doing, Checks, OnlyChecks
<1>2. /\ checked' \in Seq(CheckedScopes(program)) /\ Len(checked') = Len(checked)
      /\ checked' # <<>>
  BY <1>1, BindThis, CheckedFacts
<1>3. Works
  BY <1>1, <1>2, NoMoreChecks
<1>4. QED
  BY <1>1, <1>2, <1>3, ChecksKeep

LEMMA CheckAssignmentInv == ASSUME SessionInv, CheckAssignment PROVE SessionInv'
<1> DEFINE a == Check(kid(This, 1))
           b == DoTask("bind", This)
<1>1. Checks("check") /\ Then(<<a, b>>) /\ checked' = checked
  BY DEF CheckAssignment, At, Doing, Checks, OnlyChecks
<1>2. program.nodes[This].tag = "assignment" /\ agenda # <<>>
  BY DEF CheckAssignment, At, Doing, Nodes
<1>3. /\ a \in TasksOf(program) /\ b \in TasksOf(program) /\ a.do = "check" /\ b.do = "bind"
  <2>1. This \in DOMAIN program.nodes /\ kid(This, 1) \in DOMAIN program.nodes
    <3>1. /\ IsProgram(program) /\ This \in DOMAIN program.nodes
          /\ Len(program.nodes[This].kids) >= 1
      BY <1>2, ThisFits
    <3>2. program.nodes[This].kids[1] \in DOMAIN program.nodes
      BY <3>1, KidAt
    <3>3. QED
      BY <3>1, <3>2 DEF kid, Nodes
  <2>2. QED
    BY <2>1 DEF Check, DoTask, TasksOf, Fits, Dos
<1> HIDE DEF a, b
<1>4. /\ Ready(program, Now, a) /\ After(program, Now, a) = Now
      /\ Ready(program, Now, b) /\ After(program, Now, b) = Now
      /\ After(program, Now, Task) = Now /\ Now' = Now
  <2>1. /\ Needs(program, a) = 0 /\ Makes(a) = 0 /\ Needs(program, b) = 0 /\ Makes(b) = 0
        /\ Needs(program, Task) = 0 /\ Makes(Task) = 0 /\ Task.do = "check"
    BY <1>1, <1>3, TaskMeanings DEF Checks
  <2>2. /\ Now = Depth(Len(checked), Len(values), building) /\ Now' = Now
        /\ Len(values) \in Nat
    BY <1>1, CheckedFacts
  <2>3. QED
    BY <1>3, <2>1, <2>2 DEF Ready, After, Closing, Depth
<1>5. Leads(program, Now, <<a, b>>, Now)
  BY <1>4, TwoLead
<1>6. Within(program, Task, <<a, b>>)
  <2>1. \A i \in DOMAIN <<a, b>> : <<a, b>>[i].do \in {"check", "bind", "leave"}
    BY <1>3
  <2>2. QED
    BY <2>1, ChecksWithin
<1>7. <<a, b>> \in Seq(TasksOf(program))
  BY <1>3
<1>8. Works
  BY <1>1, <1>4, <1>5, <1>6, <1>7 DEF Works, Then
<1>9. QED
  BY <1>1, <1>8, ChecksKeep, CheckedFacts

LEMMA EnterChecked ==
  ASSUME NEW t \in Seq(CheckedScopes(program))
  PROVE  /\ EnterScope(t) \in Seq(CheckedScopes(program))
         /\ Len(EnterScope(t)) = Len(t) + 1 /\ EnterScope(t) # <<>>
BY EnterFrames, EmptyIsFrame

LEMMA CheckFunctionInv == ASSUME SessionInv, CheckFunction PROVE SessionInv'
<1> DEFINE bound == IF This_name = Anonymous THEN checked
                    ELSE [checked EXCEPT ![Len(checked)] = Checked!Bound(@, This_name, This)]
<1>1. /\ Checks("check") /\ checked' = EnterScope(bound)
      /\ Then(OnKids("check", This) \o <<DoTask("leave", This)>>)
  BY DEF CheckFunction, At, Doing, Checks, OnlyChecks
<1>2. bound \in Seq(CheckedScopes(program)) /\ Len(bound) = Len(checked)
  <2>1. /\ checked \in Seq(CheckedScopes(program)) /\ checked # <<>>
        /\ This \in DOMAIN program.nodes /\ This_name = program.nodes[This].name
    BY <1>1, CheckedFacts
  <2>2. QED
    BY <2>1, BindChecked
<1> HIDE DEF bound
<1>3. /\ checked' \in Seq(CheckedScopes(program)) /\ Len(checked') = Len(checked) + 1
      /\ checked' # <<>>
  BY <1>1, <1>2, EnterChecked
<1>4. /\ OnKids("check", This) \in Seq(TasksOf(program))
      /\ \A i \in DOMAIN OnKids("check", This) : OnKids("check", This)[i].do = "check"
  BY <1>1, TaskAtHand, KidTasks DEF Checks, DoTask
<1>5. Works
  BY <1>1, <1>3, <1>4, ScopedChecks
<1>6. QED
  BY <1>1, <1>3, <1>5, ChecksKeep

LEMMA CheckExternInv == ASSUME SessionInv, CheckExtern PROVE SessionInv'
<1> DEFINE bound == [checked EXCEPT ![Len(checked)] = Checked!Bound(@, This_name, This)]
           all == OnKids("check", This)
           kids == Front(all)
<1>1. /\ Checks("check") /\ checked' = EnterScope(bound)
      /\ Then(kids \o <<DoTask("leave", This)>>)
  BY DEF CheckExtern, At, Doing, Checks, OnlyChecks
<1>2. bound \in Seq(CheckedScopes(program)) /\ Len(bound) = Len(checked)
  <2>1. /\ checked \in Seq(CheckedScopes(program)) /\ checked # <<>>
        /\ This \in DOMAIN program.nodes /\ This_name = program.nodes[This].name
    BY <1>1, CheckedFacts
  <2>2. QED
    BY <2>1, BindChecked
<1> HIDE DEF bound
<1>3. /\ checked' \in Seq(CheckedScopes(program)) /\ Len(checked') = Len(checked) + 1
      /\ checked' # <<>>
  BY <1>1, <1>2, EnterChecked
<1>4. /\ kids \in Seq(TasksOf(program))
      /\ \A i \in DOMAIN kids : kids[i].do = "check"
  <2>1. /\ all \in Seq(TasksOf(program)) /\ Len(all) \in Nat
        /\ \A i \in DOMAIN all : all[i].do = "check"
    BY <1>1, TaskAtHand, KidTasks DEF Checks, DoTask
  <2> HIDE DEF all
  <2>2. \A i \in 1 .. Len(all) - 1 : all[i] \in TasksOf(program) /\ all[i].do = "check"
    BY <2>1
  <2>3. /\ kids \in Seq(TasksOf(program))
        /\ DOMAIN kids \subseteq 1 .. Len(all) - 1
        /\ \A i \in 1 .. Len(all) - 1 : kids[i] = all[i]
    <3> DEFINE n == Len(all) - 1
    <3>1. n \in Int /\ 1 \in Int /\ \A i \in 1 .. n : all[i] \in TasksOf(program)
      BY <2>1, <2>2
    <3>2. /\ SubSeq(all, 1, n) \in Seq(TasksOf(program))
          /\ Len(SubSeq(all, 1, n)) = IF 1 <= n THEN n - 1 + 1 ELSE 0
          /\ \A i \in 1 .. n - 1 + 1 : SubSeq(all, 1, n)[i] = all[1 + i - 1]
      <4> HIDE DEF n
      <4>1. QED
        BY <3>1, SubSeqProperties
    <3>3. kids = SubSeq(all, 1, n)
      BY DEF Front
    <3> HIDE DEF kids, n
    <3>4. n - 1 + 1 = n /\ \A i \in 1 .. n : 1 + i - 1 = i
      BY <3>1
    <3>5. DOMAIN kids = 1 .. Len(kids) /\ Len(kids) \in Nat
      BY <3>2, <3>3
    <3>6. DOMAIN kids \subseteq 1 .. n
      BY <3>1, <3>2, <3>3, <3>5
    <3>7. QED
      BY <3>2, <3>3, <3>4, <3>6 DEF n
  <2> HIDE DEF kids
  <2>4. QED
    BY <2>2, <2>3
<1> HIDE DEF kids
<1>5. Works
  BY <1>1, <1>3, <1>4, ScopedChecks
<1>6. QED
  BY <1>1, <1>3, <1>5, ChecksKeep

LEMMA LeaveFunctionInv == ASSUME SessionInv, LeaveFunction PROVE SessionInv'
<1>1. Checks("leave") /\ Then(<<>>) /\ checked' = ExitScope(checked)
  BY DEF LeaveFunction, Doing, Checks, OnlyChecks
<1>2. /\ checked \in Seq(CheckedScopes(program)) /\ checked # <<>>
      /\ Now = Depth(Len(checked), Len(values), building)
      /\ Now' = Depth(Len(checked'), Len(values), building)
      /\ Len(checked) \in Nat /\ Len(values) \in Nat
  BY <1>1, CheckedFacts
<1>3. /\ checked' \in Seq(CheckedScopes(program)) /\ checked' # <<>>
      /\ Len(checked') = IF Len(checked) > 1 THEN Len(checked) - 1 ELSE 1
  BY <1>1, <1>2, ExitFrames
<1>4. Ready(program, Now, Task) => Now' = After(program, Now, Task)
  <2>1. Needs(program, Task) = 0 /\ Makes(Task) = 0 /\ Task.do = "leave"
    BY <1>1, TaskMeanings DEF Checks
  <2>2. QED
    BY <1>2, <1>3, <2>1 DEF Ready, After, Closing, Depth
<1>5. Works
  BY <1>1, <1>4, ThenNothing DEF Checks
<1>6. QED
  BY <1>1, <1>3, <1>5, ChecksKeep

LEMMA TypeCheckInv == ASSUME SessionInv, TypeCheck PROVE SessionInv'
BY CheckInnerInv, CheckIdentifierInv, CheckCallInv, CheckDeclarationInv, CheckAssignmentInv,
   BindAssignedInv, CheckFunctionInv, CheckExternInv, LeaveFunctionInv DEF TypeCheck

-----------------------------------------------------------------------------
(* Code generation.                                                        *)

\* A step of code generation on a task of a kind.
Generates(do) ==
  /\ SessionInv /\ phase = "generate" /\ agenda # <<>> /\ Task.do = do
  /\ UNCHANGED <<session, phase, checked>>

LEMMA ReadyNow ==
  ASSUME SessionInv, phase \in {"check", "generate"}, agenda # <<>>
  PROVE  Ready(program, Now, Task)
<1>1. PICK r : Leads(program, Now, agenda, r)
  BY DEF SessionInv, Balanced
<1>2. agenda \in Seq(TasksOf(program))
  BY DEF SessionInv, SessionTypes
<1>3. QED
  BY <1>1, <1>2, RestLeads DEF Task

LEMMA GenerateFacts ==
  ASSUME NEW do, Generates(do)
  PROVE  /\ IsProgram(program) /\ This \in DOMAIN program.nodes /\ This \in AllNodes
         /\ Task = DoTask(do, This) /\ Task.node = This
         /\ This_name = program.nodes[This].name
         /\ table \in Seq(FramesOf(program, FunctionsBound)) /\ table # <<>>
         /\ values \in Seq(BOOLEAN) /\ building \in Seq(AllNodes)
         /\ Len(table) \in Nat /\ Len(values) \in Nat /\ Len(table) > 0
         /\ Now = Depth(Len(table), Len(values), building) /\ Now \in Depths
         /\ Now' = Depth(Len(table'), Len(values'), building')
         /\ Ready(program, Now, Task)
<1>1. /\ SessionInv /\ phase = "generate" /\ phase' = "generate" /\ agenda # <<>> /\ Task.do = do
      /\ phase \in {"check", "generate"}
  BY DEF Generates
<1>2. /\ IsProgram(program) /\ This \in AllNodes /\ Task = DoTask(do, This)
      /\ Ready(program, Now, Task)
  BY <1>1, ProgramIsProgram, TaskAtHand, ReadyNow
<1>3. /\ table # <<>> /\ table \in Seq(FramesOf(program, FunctionsBound))
      /\ values \in Seq(BOOLEAN) /\ building \in Seq(AllNodes)
  BY <1>1, TableFrames, BuildingFacts DEF SessionInv, SessionTypes
<1>4. Len(table) \in Nat /\ Len(values) \in Nat /\ Len(table) > 0
  BY <1>3
<1>5. Now \in Depths
  BY <1>1, NowIsDepth
<1>6. QED
  BY <1>1, <1>2, <1>3, <1>4, <1>5 DEF Now, This, This_name, Nodes, AllNodes

\* Where the pass is once the task at hand is done.
LEMMA AfterTask ==
  ASSUME NEW do, Generates(do)
  PROVE  /\ Needs(program, Task) <= Len(values)
         /\ do \in Closing => Len(table) > 1
         /\ do = "end" => Len(building) > 1 /\ Head(building) = This
         /\ After(program, Now, Task) =
              Depth(IF do \in Closing THEN Len(table) - 1 ELSE Len(table),
                    Len(values) - Needs(program, Task) + Makes(Task),
                    IF do = "end" THEN Tail(building) ELSE building)
<1>1. /\ Ready(program, Now, Task) /\ Task.do = do /\ Task.node = This
      /\ Now.frames = Len(table) /\ Now.results = Len(values) /\ Now.stack = building
  BY GenerateFacts DEF Generates, Depth
<1>2. QED
  BY <1>1 DEF Ready, After

\* A step that is not undefined, binds no function and begins none.
Quiet(do) ==
  /\ Generates(do) /\ building' = building
  /\ invalid' \subseteq invalid \cup {Function}
  /\ \A name \in DOMAIN holders' :
       \/ name \in DOMAIN holders /\ holders'[name] = holders[name]
       \/ holders'[name] \in AllNodes /\ Nodes[holders'[name]].tag \notin {"fn", "list"}

LEMMA QuietKeeps ==
  ASSUME NEW do, Quiet(do), Works,
         table' \in Seq(FramesOf(program, FunctionsBound)), table' # <<>>,
         values' \in Seq(BOOLEAN)
  PROVE  SessionInv'
<1>1. /\ SessionInv /\ phase = "generate" /\ agenda # <<>>
      /\ UNCHANGED <<session, phase, checked, building>>
      /\ invalid' \subseteq invalid \cup {Function}
      /\ \A name \in DOMAIN holders' :
           \/ name \in DOMAIN holders /\ holders'[name] = holders[name]
           \/ holders'[name] \in AllNodes /\ Nodes[holders'[name]].tag \notin {"fn", "list"}
  BY DEF Quiet, Generates
<1>2. QED
  BY <1>1, QuietStep

LEMMA UndefinedInv ==
  ASSUME SessionInv, phase = "generate", Undefined
  PROVE  SessionInv'
<1>1. /\ phase' = "undefined" /\ program' = program /\ input' = input /\ agenda' = agenda
      /\ checked' = checked /\ table' = table /\ holders' = holders /\ building' = building
      /\ invalid' = invalid /\ values' = values /\ Later' = Later
      /\ AllNodes' = AllNodes /\ Nodes' = Nodes
  BY DEF Undefined, session, tables, work, Later, AllNodes, Nodes
<1>2. SessionTypes'
  BY <1>1 DEF SessionInv, SessionTypes
<1>3. Between' /\ Balanced'
  BY <1>1 DEF Between, Balanced
<1>4. InOrder'
  BY <1>1 DEF SessionInv, InOrder
<1>5. FunctionsBound' = FunctionsBound /\ Begun' = Begun
  BY <1>1 DEF FunctionsBound, IsFunction, Begun
<1>6. BegunOnce' /\ FunctionsSound'
  BY <1>1, <1>5 DEF SessionInv, BegunOnce, FunctionsSound
<1>7. QED
  BY <1>2, <1>3, <1>4, <1>6 DEF SessionInv

-----------------------------------------------------------------------------
(* Results.                                                                *)

LEMMA ReturnResults ==
  ASSUME values \in Seq(BOOLEAN), NEW v \in BOOLEAN, Return(v)
  PROVE  values' \in Seq(BOOLEAN) /\ Len(values') = Len(values) + 1
<1>1. <<v>> \in Seq(BOOLEAN) /\ Len(<<v>>) = 1
  OBVIOUS
<1>2. values' = <<v>> \o values
  BY DEF Return
<1> DEFINE one == <<v>>
<1> HIDE DEF one
<1>3. one \o values \in Seq(BOOLEAN) /\ Len(one \o values) = Len(one) + Len(values)
  BY <1>1, Joined DEF one
<1>4. QED
  BY <1>1, <1>2, <1>3 DEF one

LEMMA ReplaceResults ==
  ASSUME values \in Seq(BOOLEAN), NEW n \in Nat, n <= Len(values), NEW v \in BOOLEAN,
         Replace(n, v)
  PROVE  values' \in Seq(BOOLEAN) /\ Len(values') = Len(values) - n + 1
<1> DEFINE m == Len(values)
           rest == SubSeq(values, n + 1, m)
           one == <<v>>
<1>1. m \in Nat /\ n <= m /\ \A i \in n + 1 .. m : values[i] \in BOOLEAN
  OBVIOUS
<1>2. rest \in Seq(BOOLEAN) /\ Len(rest) = m - n
  <2>1. n + 1 \in Int /\ m \in Int
    BY <1>1
  <2>2. /\ SubSeq(values, n + 1, m) \in Seq(BOOLEAN)
        /\ Len(SubSeq(values, n + 1, m)) = IF n + 1 <= m THEN m - (n + 1) + 1 ELSE 0
    <3> HIDE DEF m
    <3>1. QED
      BY <1>1, <2>1, SubSeqProperties
  <2> HIDE DEF m
  <2>3. QED
    BY <1>1, <2>2
<1>3. one \in Seq(BOOLEAN) /\ Len(one) = 1
  OBVIOUS
<1>4. values' = one \o rest
  BY DEF Replace
<1> HIDE DEF m, rest, one
<1>5. one \o rest \in Seq(BOOLEAN) /\ Len(one \o rest) = Len(one) + Len(rest)
  BY <1>2, <1>3, Joined
<1>6. values' \in Seq(BOOLEAN) /\ Len(values') = m - n + 1
  BY <1>1, <1>2, <1>3, <1>4, <1>5
<1>7. QED
  BY <1>6 DEF m

LEMMA DropResult ==
  ASSUME values \in Seq(BOOLEAN), 1 <= Len(values), values' = Tail(values)
  PROVE  values' \in Seq(BOOLEAN) /\ Len(values') = Len(values) - 1
<1>1. values # <<>>
  OBVIOUS
<1>2. QED
  BY <1>1, HeadTailProperties

-----------------------------------------------------------------------------
(* The work that steps of code generation give.                            *)

LEMMA QuietTasks ==
  ASSUME NEW p, NEW t, t.do \in Dos \ Covering
  PROVE  Starts(p, t) = {}
BY DEF Dos, Covering, Starts

\* Nothing more to do.
LEMMA NoMore ==
  ASSUME NEW do, Generates(do), Then(<<>>),
         Depth(Len(table'), Len(values'), building')
           = Depth(IF do \in Closing THEN Len(table) - 1 ELSE Len(table),
                   Len(values) - Needs(program, Task) + Makes(Task),
                   IF do = "end" THEN Tail(building) ELSE building)
  PROVE  Works
<1>1. Now' = After(program, Now, Task)
  BY GenerateFacts, AfterTask
<1>2. QED
  BY <1>1, ThenNothing DEF Generates

\* A child is generated, then a task is done on its result.
LEMMA KidThen ==
  ASSUME NEW do, Generates(do), NEW i \in Nat \ {0}, Len(program.nodes[This].kids) >= i,
         do \in Covering, \E l \in Starts(program, Task) : l <= program.nodes[This].kids[i],
         NEW next \in Dos \ {"gen", "arm", "enter"}, Fits(program, DoTask(next, This)),
         \A m \in Starts(program, DoTask(next, This)) :
           TreeEnds(program)[program.nodes[This].kids[i]] < m,
         Then(<<Gen(kid(This, i)), DoTask(next, This)>>),
         Now' \in Depths,
         LET s == Depth(Len(table'), Len(values') + 1, building')
         IN  /\ Ready(program, s, DoTask(next, This))
             /\ After(program, s, DoTask(next, This)) = After(program, Now, Task)
  PROVE  Works
<1> DEFINE k == program.nodes[This].kids[i]
           a == Gen(kid(This, i))
           b == DoTask(next, This)
           s == Depth(Len(table'), Len(values') + 1, building')
           tasks == <<a, b>>
<1>1. /\ IsProgram(program) /\ This \in DOMAIN program.nodes /\ Task.node = This /\ Task.do = do
      /\ Now' = Depth(Len(table'), Len(values'), building')
  BY GenerateFacts DEF Generates
<1>2. /\ k \in DOMAIN program.nodes /\ TreeEnds(program)[k] <= TreeEnds(program)[This]
      /\ k <= TreeEnds(program)[k] /\ k \in Nat /\ TreeEnds(program)[k] \in Nat
      /\ TreeEnds(program)[This] \in Nat /\ This \in Nat
  BY <1>1, KidAt, NodeFacts
<1>3. a.do = "gen" /\ a.node = k /\ b.do = next /\ b.node = This
  BY DEF Gen, DoTask, kid, Nodes
<1>4. a \in TasksOf(program) /\ b \in TasksOf(program)
  BY <1>1, <1>2 DEF TasksOf, Fits, Gen, DoTask, Dos, kid, Nodes
<1>5. Starts(program, a) = {k}
  BY <1>2, <1>3 DEF Starts
<1>6. PICK l \in Starts(program, Task) : l <= k
  OBVIOUS
<1>7. /\ l \in Nat /\ \A m \in Starts(program, b) : m \in Nat /\ TreeEnds(program)[k] < m
      /\ Ready(program, s, b) /\ After(program, s, b) = After(program, Now, Task)
  BY <1>1, StartsAreNodes
<1> HIDE DEF k, a, b
<1>8. tasks \in Seq(TasksOf(program)) /\ DOMAIN tasks = {1, 2} /\ tasks[1] = a /\ tasks[2] = b
  BY <1>4
<1>9. Then(tasks)
  BY DEF a, b
<1> HIDE DEF tasks
<1>10. Ordered(program, tasks)
  BY <1>3, <1>7, <1>8 DEF Ordered
<1>11. Within(program, Task, tasks)
  <2>1. /\ Task.do \in Covering /\ TreeEnds(program)[a.node] <= TreeEnds(program)[Task.node]
        /\ TreeEnds(program)[b.node] <= TreeEnds(program)[Task.node]
    BY <1>1, <1>2, <1>3
  <2>2. \A m \in Starts(program, a) \cup Starts(program, b) : l <= m
    BY <1>2, <1>5, <1>6, <1>7
  <2>3. QED
    BY <1>8, <1>10, <2>1, <2>2 DEF Within
<1>12. /\ Ready(program, Now', a) /\ After(program, Now', a) = s
  <2>1. Needs(program, a) = 0 /\ Makes(a) = 1
    BY <1>3, TaskMeanings
  <2>2. /\ Now'.frames = Len(table') /\ Now'.results = Len(values') /\ Now'.stack = building'
        /\ Len(values') \in Nat
    BY <1>1 DEF Depth, Depths
  <2>3. Ready(program, Now', a)
    BY <1>3, <2>1, <2>2 DEF Ready, Closing
  <2>4. After(program, Now', a) = Depth(Len(table'), Len(values') - 0 + 1, building')
    BY <1>3, <2>1, <2>2 DEF After, Closing
  <2>5. Len(values') - 0 + 1 = Len(values') + 1
    BY <2>2
  <2>6. QED
    BY <2>3, <2>4, <2>5
<1> HIDE DEF s
<1>13. Leads(program, Now', <<a, b>>, After(program, Now, Task))
  BY <1>7, <1>12, TwoLead
<1>14. Leads(program, Now', tasks, After(program, Now, Task))
  BY <1>13 DEF tasks
<1>15. agenda' = tasks \o Tail(agenda)
  BY <1>9 DEF Then
<1>16. QED
  BY <1>8, <1>11, <1>14, <1>15 DEF Works

\* The children of a node are walked in order.
LEMMA KidsInOrder ==
  ASSUME NEW do \in {"gen"}, Generates(do), NEW tasks \in Seq(TasksOf(program)),
         \A i \in DOMAIN tasks :
           \/ /\ i \in DOMAIN program.nodes[This].kids
              /\ tasks[i].node = program.nodes[This].kids[i]
              /\ tasks[i].do \in {"gen", "arm", "enter"}
           \/ tasks[i].do \in {"list", "call", "matched"}
  PROVE  Within(program, Task, tasks)
<1> DEFINE kids == program.nodes[This].kids
           end == TreeEnds(program)
<1>1. /\ IsProgram(program) /\ This \in DOMAIN program.nodes /\ Task.node = This
      /\ Task.do = "gen"
  BY GenerateFacts DEF Generates
<1>2. This \in Starts(program, Task) /\ Task.do \in Covering /\ This \in Nat
  BY <1>1, NodeFacts DEF Starts, Covering
<1>3. \A i \in DOMAIN kids :
        /\ kids[i] \in DOMAIN program.nodes /\ This < kids[i] /\ end[kids[i]] <= end[This]
        /\ \A j \in DOMAIN kids : i < j => end[kids[i]] < kids[j]
  BY <1>1, KidFacts
<1>4. \A n \in DOMAIN program.nodes : n \in Nat /\ end[n] \in Nat
  BY <1>1, NodeFacts
<1>5. ASSUME NEW i \in DOMAIN tasks, tasks[i].do \in Covering \/ Starts(program, tasks[i]) # {}
      PROVE  /\ i \in DOMAIN kids /\ tasks[i].node = kids[i]
             /\ \A m \in Starts(program, tasks[i]) : m \in Nat /\ kids[i] <= m
  <2>1. tasks[i].do \notin {"list", "call", "matched"}
    BY <1>5 DEF Covering, Starts
  <2>2. /\ i \in DOMAIN kids /\ tasks[i].node = kids[i] /\ kids[i] \in DOMAIN program.nodes
        /\ tasks[i].do \in {"gen", "arm", "enter"}
    BY <1>3, <2>1
  <2> HIDE DEF kids
  <2>3. CASE tasks[i].do \in {"gen", "arm"}
    <3>1. \A m \in Starts(program, tasks[i]) : m = kids[i]
      BY <2>2, <2>3 DEF Starts
    <3>2. QED
      BY <1>4, <2>2, <3>1
  <2>4. CASE tasks[i].do = "enter"
    <3>1. \A m \in Starts(program, tasks[i]) : m = program.nodes[kids[i]].kids[2]
      BY <2>2, <2>4 DEF Starts
    <3>2. Len(program.nodes[kids[i]].kids) = 2
      <4>1. tasks[i] \in TasksOf(program)
        OBVIOUS
      <4>2. QED
        BY <2>2, <2>4, <4>1 DEF TasksOf, Fits
    <3>3. /\ program.nodes[kids[i]].kids[2] \in DOMAIN program.nodes
          /\ kids[i] < program.nodes[kids[i]].kids[2]
      BY <1>1, <2>2, <3>2, KidAt
    <3>4. QED
      BY <1>4, <2>2, <3>1, <3>3
  <2>5. QED
    BY <2>2, <2>3, <2>4
<1> HIDE DEF kids, end
<1>6. ASSUME NEW i \in DOMAIN tasks, NEW j \in DOMAIN tasks, i < j, tasks[i].do \in Covering,
             NEW m \in Starts(program, tasks[j])
      PROVE  end[tasks[i].node] < m
  <2>1. /\ i \in DOMAIN kids /\ tasks[i].node = kids[i] /\ j \in DOMAIN kids
        /\ m \in Nat /\ kids[j] <= m
    BY <1>5, <1>6
  <2>2. end[kids[i]] < kids[j] /\ end[kids[i]] \in Nat /\ kids[j] \in Nat
    BY <1>3, <1>4, <1>6, <2>1
  <2>3. QED
    BY <2>1, <2>2
<1>7. Ordered(program, tasks)
  BY <1>6 DEF Ordered, end
<1>8. \A i \in DOMAIN tasks :
        tasks[i].do \in Covering => end[tasks[i].node] <= end[Task.node]
  BY <1>1, <1>3, <1>5
<1>9. \A i \in DOMAIN tasks : \A m \in Starts(program, tasks[i]) : This <= m
  <2> SUFFICES ASSUME NEW i \in DOMAIN tasks, NEW m \in Starts(program, tasks[i])
               PROVE  This <= m
    OBVIOUS
  <2>1. i \in DOMAIN kids /\ m \in Nat /\ kids[i] <= m
    BY <1>5
  <2>2. This < kids[i] /\ kids[i] \in Nat
    BY <1>3, <1>4, <2>1
  <2>3. QED
    BY <1>2, <2>1, <2>2
<1>10. QED
  BY <1>2, <1>7, <1>8, <1>9 DEF Within, end

\* All children are generated, then a task is done that uses their results.
LEMMA KidsThen ==
  ASSUME Generates("gen"), NEW next \in {"list", "call"},
         Then(OnKids("gen", This) \o <<DoTask(next, This)>>),
         table' = table, values' = values, building' = building
  PROVE  Works
<1> DEFINE kids == OnKids("gen", This)
           t == DoTask(next, This)
           one == <<t>>
           tasks == kids \o one
           n == Len(program.nodes[This].kids)
           s == Depth(Now.frames, Now.results + Len(kids), Now.stack)
           r == After(program, Now, Task)
<1>1. /\ IsProgram(program) /\ This \in DOMAIN program.nodes /\ SessionInv /\ This \in AllNodes
      /\ Now \in Depths /\ Now' = Now /\ Task.do = "gen"
      /\ Now = Depth(Len(table), Len(values), building) /\ Len(values) \in Nat
  BY GenerateFacts DEF Generates
<1>2. /\ t \in TasksOf(program) /\ t.do = next /\ t.node = This
  BY <1>1 DEF TasksOf, Fits, DoTask, Dos
<1>3. /\ kids \in Seq(TasksOf(program)) /\ Len(kids) = n /\ n \in Nat
      /\ DOMAIN kids = DOMAIN program.nodes[This].kids
      /\ \A i \in DOMAIN kids :
           kids[i].do = "gen" /\ kids[i].node = program.nodes[This].kids[i]
  BY <1>1, KidTasks DEF DoTask, Nodes
<1> HIDE DEF t
<1>4. one \in Seq(TasksOf(program)) /\ Len(one) = 1 /\ one[1] = t
  BY <1>2
<1> HIDE DEF kids, one, n
<1>5. /\ tasks \in Seq(TasksOf(program)) /\ DOMAIN tasks = 1 .. n + 1
      /\ \A i \in 1 .. n : i \in DOMAIN kids /\ tasks[i] = kids[i]
      /\ \A i \in 1 .. Len(one) : tasks[Len(kids) + i] = one[i]
  <2>1. kids \in Seq(TasksOf(program)) /\ one \in Seq(TasksOf(program))
    BY <1>3, <1>4
  <2>2. /\ tasks \in Seq(TasksOf(program)) /\ Len(tasks) = Len(kids) + Len(one)
        /\ \A i \in 1 .. Len(kids) : tasks[i] = kids[i]
        /\ \A i \in 1 .. Len(one) : tasks[Len(kids) + i] = one[i]
    BY <2>1, Joined
  <2> HIDE DEF tasks
  <2>3. DOMAIN tasks = 1 .. n + 1 /\ DOMAIN kids = 1 .. n
    BY <1>3, <1>4, <2>2
  <2>4. QED
    BY <1>3, <2>2, <2>3
<1>6. tasks[n + 1] = t
  <2>1. 1 \in 1 .. Len(one)
    BY <1>4
  <2>2. tasks[Len(kids) + 1] = one[1]
    BY <1>5, <2>1
  <2>3. QED
    BY <1>3, <1>4, <2>2
<1>7. ASSUME NEW i \in DOMAIN tasks
      PROVE  \/ /\ i \in DOMAIN program.nodes[This].kids
                /\ tasks[i].node = program.nodes[This].kids[i]
                /\ tasks[i].do \in {"gen", "arm", "enter"}
             \/ tasks[i].do \in {"list", "call", "matched"}
  <2>1. i \in 1 .. n \/ i = n + 1
    BY <1>3, <1>5
  <2>2. CASE i \in 1 .. n
    BY <1>3, <1>5, <2>2
  <2>3. CASE i = n + 1
    BY <1>2, <1>6, <2>3
  <2>4. QED
    BY <2>1, <2>2, <2>3
<1> HIDE DEF tasks
<1>8. Within(program, Task, tasks)
  BY <1>5, <1>7, KidsInOrder
<1>9. \A i \in DOMAIN kids :
        Needs(program, kids[i]) = 0 /\ Makes(kids[i]) = 1 /\ kids[i].do \notin Closing
  BY <1>3, TaskMeanings DEF Closing
<1>10. Leads(program, Now, kids, s)
  BY <1>1, <1>3, <1>9, OneOfEach
<1>11. Ready(program, s, t) /\ After(program, s, t) = r
  <2>1. Needs(program, t) = n /\ Makes(t) = 1
    BY <1>2, TaskMeanings DEF n
  <2>2. r = Depth(Len(table), Len(values) + 1, building)
    <3>1. Needs(program, Task) = 0 /\ Makes(Task) = 1
      BY <1>1, TaskMeanings
    <3>2. r = Depth(Len(table), Len(values) - 0 + 1, building)
      BY <1>1, <3>1 DEF After, Closing, Depth
    <3>3. Len(values) - 0 + 1 = Len(values) + 1
      BY <1>1
    <3>4. QED
      BY <3>2, <3>3
  <2>3. s = Depth(Len(table), Len(values) + n, building)
    BY <1>1, <1>3 DEF Depth
  <2> HIDE DEF s, r
  <2>4. s.frames = Len(table) /\ s.results = Len(values) + n /\ s.stack = building
    BY <2>3 DEF Depth
  <2>5. Ready(program, s, t)
    BY <1>1, <1>2, <1>3, <2>1, <2>4 DEF Ready, Closing
  <2>6. After(program, s, t) = Depth(Len(table), (Len(values) + n) - n + 1, building)
    BY <1>2, <2>1, <2>4 DEF After, Closing
  <2>7. (Len(values) + n) - n + 1 = Len(values) + 1
    BY <1>1, <1>3
  <2>8. QED
    BY <2>2, <2>5, <2>6, <2>7
<1> HIDE DEF s, r
<1>12. Leads(program, s, one, r)
  BY <1>11, OneLeads DEF one
<1>13. Leads(program, Now, tasks, r)
  BY <1>3, <1>4, <1>10, <1>12, BothLead DEF tasks
<1>14. agenda' = tasks \o Tail(agenda)
  BY DEF Then, tasks, one, kids, t
<1>15. QED
  BY <1>1, <1>5, <1>8, <1>13, <1>14 DEF Works, r

\* A pass that comes to a task after two others.
LEMMA ThreeLead ==
  ASSUME NEW p, NEW s, NEW t, NEW u, NEW v,
         Ready(p, s, t), Ready(p, After(p, s, t), u), Ready(p, After(p, After(p, s, t), u), v)
  PROVE  Leads(p, s, <<t, u, v>>, After(p, After(p, After(p, s, t), u), v))
<1> DEFINE a == After(p, s, t)
           b == After(p, a, u)
           c == After(p, b, v)
           plan == [i \in {0, 1, 2, 3} |->
                     IF i = 0 THEN s ELSE IF i = 1 THEN a ELSE IF i = 2 THEN b ELSE c]
           tasks == <<t, u, v>>
<1> HIDE DEF a, b, c
<1>1. /\ plan[0] = s /\ plan[1] = a /\ plan[2] = b /\ plan[3] = c
      /\ Len(tasks) = 3 /\ tasks[1] = t /\ tasks[2] = u /\ tasks[3] = v
  OBVIOUS
<1>2. /\ Ready(p, s, t) /\ a = After(p, s, t) /\ Ready(p, a, u) /\ b = After(p, a, u)
      /\ Ready(p, b, v) /\ c = After(p, b, v)
  BY DEF a, b, c
<1> HIDE DEF plan, tasks
<1>3. \A i \in 1 .. Len(tasks) :
        Ready(p, plan[i - 1], tasks[i]) /\ plan[i] = After(p, plan[i - 1], tasks[i])
  <2>1. \A i \in 1 .. Len(tasks) : i = 1 \/ i = 2 \/ i = 3
    BY <1>1
  <2>2. 1 - 1 = 0 /\ 2 - 1 = 1 /\ 3 - 1 = 2
    OBVIOUS
  <2>3. QED
    BY <1>1, <1>2, <2>1, <2>2
<1>4. Leads(p, s, tasks, c)
  BY <1>1, <1>3 DEF Leads
<1>5. QED
  BY <1>4 DEF tasks, a, b, c

\* A pattern is generated and tested, and the result of its arm entered.
LEMMA PatternWorks ==
  ASSUME Generates("arm"),
         Then(<<Gen(kid(This, 1)), DoTask("test", This), DoTask("enter", This)>>),
         table' = table, values' = values, building' = building
  PROVE  Works
<1> DEFINE a == Gen(kid(This, 1))
           b == DoTask("test", This)
           c == DoTask("enter", This)
           k == program.nodes[This].kids[1]
           l == program.nodes[This].kids[2]
           tasks == <<a, b, c>>
           end == TreeEnds(program)
           n == Len(values)
<1>1. /\ IsProgram(program) /\ This \in DOMAIN program.nodes /\ Task.node = This /\ Task.do = "arm"
      /\ Len(program.nodes[This].kids) = 2
      /\ Now = Depth(Len(table), n, building) /\ Now' = Now /\ n \in Nat /\ 1 <= n
  <2>1. Fits(program, Task) /\ Task.do = "arm" /\ Task.node = This
    BY TaskAtHand, GenerateFacts DEF Generates
  <2>2. Needs(program, Task) = 1
    BY <2>1, TaskMeanings
  <2>3. Len(program.nodes[This].kids) = 2
    BY <2>1 DEF Fits
  <2>4. QED
    BY <2>1, <2>2, <2>3, GenerateFacts, AfterTask
<1>2. /\ k \in DOMAIN program.nodes /\ l \in DOMAIN program.nodes /\ This < k /\ end[k] < l
      /\ end[k] <= end[This]
  <2>1. 1 \in DOMAIN program.nodes[This].kids /\ 2 \in DOMAIN program.nodes[This].kids
    BY <1>1, KidAt
  <2>2. QED
    BY <1>1, <2>1, KidFacts
<1>3. /\ a.do = "gen" /\ a.node = k /\ b.do = "test" /\ b.node = This
      /\ c.do = "enter" /\ c.node = This
  BY DEF Gen, DoTask, kid, Nodes
<1>4. a \in TasksOf(program) /\ b \in TasksOf(program) /\ c \in TasksOf(program)
  BY <1>1, <1>2 DEF TasksOf, Fits, Gen, DoTask, Dos, kid, Nodes
<1>5. /\ Starts(program, a) = {k} /\ Starts(program, b) = {} /\ Starts(program, c) = {l}
      /\ This \in Starts(program, Task) /\ Task.do \in Covering
  BY <1>1, <1>2, <1>3 DEF Starts, Covering
<1>6. /\ k \in Nat /\ l \in Nat /\ This \in Nat /\ end[k] \in Nat /\ end[This] \in Nat
      /\ k <= end[k]
  BY <1>1, <1>2, NodeFacts
<1>7. Then(tasks)
  OBVIOUS
<1> HIDE DEF a, b, c
<1>8. /\ tasks \in Seq(TasksOf(program)) /\ DOMAIN tasks = {1, 2, 3}
      /\ tasks[1] = a /\ tasks[2] = b /\ tasks[3] = c
  BY <1>4
<1> HIDE DEF tasks, k, l, end
<1>9. Within(program, Task, tasks)
  <2>1. \A i, j \in DOMAIN tasks :
          i < j /\ tasks[i].do \in Covering =>
            \A m \in Starts(program, tasks[j]) : end[tasks[i].node] < m
    BY <1>2, <1>3, <1>5, <1>8 DEF Covering
  <2>2. \A i \in DOMAIN tasks : end[tasks[i].node] <= end[Task.node]
    BY <1>1, <1>2, <1>3, <1>6, <1>8
  <2>3. \A i \in DOMAIN tasks : \A m \in Starts(program, tasks[i]) : This <= m
    BY <1>2, <1>5, <1>6, <1>8
  <2>4. QED
    BY <1>5, <2>1, <2>2, <2>3 DEF Within, Ordered, end
<1>10. /\ Needs(program, a) = 0 /\ Makes(a) = 1 /\ Needs(program, b) = 2 /\ Makes(b) = 1
       /\ Needs(program, c) = 0 /\ Makes(c) = 0 /\ Needs(program, Task) = 1 /\ Makes(Task) = 1
  BY <1>1, <1>3, TaskMeanings
<1> DEFINE s == Depth(Len(table), n + 1, building)
<1>11. /\ s.frames = Len(table) /\ s.results = n + 1 /\ s.stack = building
       /\ Now.frames = Len(table) /\ Now.results = n /\ Now.stack = building
  BY <1>1 DEF Depth
<1> HIDE DEF s, n
<1>12. Ready(program, Now, a) /\ After(program, Now, a) = s
  <2>1. n - 0 + 1 = n + 1
    BY <1>1
  <2>2. QED
    BY <1>1, <1>3, <1>10, <1>11, <2>1 DEF Ready, After, Closing, s
<1>13. Ready(program, s, b) /\ After(program, s, b) = Now
  <2>1. (n + 1) - 2 + 1 = n /\ 2 <= n + 1
    BY <1>1
  <2>2. QED
    BY <1>1, <1>3, <1>10, <1>11, <2>1 DEF Ready, After, Closing
<1>14. Ready(program, Now, c) /\ After(program, Now, c) = Now
  <2>1. n - 0 + 0 = n /\ 0 <= n
    BY <1>1
  <2>2. QED
    BY <1>1, <1>3, <1>10, <1>11, <2>1 DEF Ready, After, Closing
<1>15. After(program, Now, Task) = Now
  <2>1. n - 1 + 1 = n
    BY <1>1
  <2>2. QED
    BY <1>1, <1>10, <1>11, <2>1 DEF After, Closing
<1>16. Leads(program, Now, <<a, b, c>>, Now)
  BY <1>12, <1>13, <1>14, ThreeLead
<1>17. agenda' = tasks \o Tail(agenda)
  BY <1>7 DEF Then
<1>18. QED
  BY <1>1, <1>8, <1>9, <1>15, <1>16, <1>17 DEF Works, tasks

\* Arms leave the depth as it is, where there is a candidate.
LEMMA ArmsLead ==
  ASSUME NEW p, NEW X, NEW tasks \in Seq(X), NEW s \in Depths, s.results >= 1,
         \A i \in DOMAIN tasks : tasks[i].do \in {"arm", "enter"}
  PROVE  Leads(p, s, tasks, s)
<1> DEFINE plan == [i \in 0 .. Len(tasks) |-> s]
<1>1. Len(tasks) \in Nat /\ DOMAIN tasks = 1 .. Len(tasks)
  OBVIOUS
<1>2. s.results \in Nat /\ s.frames \in Nat /\ s = Depth(s.frames, s.results, s.stack)
  BY DEF Depths, Depth
<1>3. \A i \in 0 .. Len(tasks) : plan[i] = s
  OBVIOUS
<1>4. ASSUME NEW i \in 1 .. Len(tasks)
      PROVE  Ready(p, s, tasks[i]) /\ s = After(p, s, tasks[i])
  <2> DEFINE t == tasks[i]
  <2>1. t.do \in {"arm", "enter"}
    BY <1>1
  <2> HIDE DEF t
  <2>2. \/ Needs(p, t) = 1 /\ Makes(t) = 1
        \/ Needs(p, t) = 0 /\ Makes(t) = 0
    BY <2>1, TaskMeanings
  <2>3. /\ Needs(p, t) <= s.results /\ s.results - Needs(p, t) + Makes(t) = s.results
    BY <1>2, <2>2
  <2>4. Ready(p, s, t) /\ s = After(p, s, t)
    BY <1>2, <2>1, <2>3 DEF Ready, After, Closing
  <2>5. QED
    BY <2>4 DEF t
<1> HIDE DEF plan
<1>5. \A i \in 1 .. Len(tasks) : i \in 0 .. Len(tasks) /\ i - 1 \in 0 .. Len(tasks)
  BY <1>1
<1>6. 0 \in 0 .. Len(tasks) /\ Len(tasks) \in 0 .. Len(tasks)
  BY <1>1
<1>7. QED
  BY <1>3, <1>4, <1>5, <1>6 DEF Leads

LEMMA MatchWorks ==
  ASSUME Generates("gen"), program.nodes[This].tag = "match",
         NEW arms, arms = Tail(Nodes[This].kids),
         Then(<<Gen(kid(This, 1))>>
              \o [i \in DOMAIN arms |-> DoTask(IF i < Len(arms) THEN "arm" ELSE "enter", arms[i])]
              \o <<DoTask("matched", This)>>),
         table' = table, values' = values, building' = building
  PROVE  Works
<1> DEFINE g == Gen(kid(This, 1))
           e == DoTask("matched", This)
           first == <<g>>
           rest == [i \in DOMAIN arms |->
                     DoTask(IF i < Len(arms) THEN "arm" ELSE "enter", arms[i])]
           last == <<e>>
           kids == program.nodes[This].kids
           n == Len(kids)
           v == Len(values)
           X == TasksOf(program)
           tasks == first \o rest \o last
<1>1. /\ IsProgram(program) /\ This \in DOMAIN program.nodes /\ Task.node = This /\ Task.do = "gen"
      /\ SessionInv /\ agenda # <<>>
      /\ Now = Depth(Len(table), v, building) /\ Now' = Now /\ v \in Nat /\ Now \in Depths
  BY GenerateFacts DEF Generates
<1>2. /\ n \in Nat /\ n >= 1 /\ kids \in Seq(DOMAIN program.nodes) /\ kids # <<>>
      /\ \A i \in 2 .. n : Len(program.nodes[kids[i]].kids) = 2
      /\ DOMAIN kids = 1 .. n
  <2>1. /\ n >= 1 /\ \A i \in 2 .. n : Len(program.nodes[kids[i]].kids) = 2
    BY <1>1, ThisFits
  <2>2. /\ n \in Nat /\ kids \in Seq(DOMAIN program.nodes) /\ DOMAIN kids = 1 .. n
    BY <1>1, NodeFacts
  <2>3. kids # <<>>
    BY <2>1
  <2>4. QED
    BY <2>1, <2>2, <2>3
<1>3. arms = Tail(kids)
  BY DEF Nodes
<1>4. /\ arms \in Seq(DOMAIN program.nodes) /\ Len(arms) = n - 1 /\ DOMAIN arms = 1 .. n - 1
      /\ \A i \in 1 .. n - 1 : arms[i] = kids[i + 1]
  <2> HIDE DEF kids, n
  <2>1. kids \in Seq(DOMAIN program.nodes) /\ kids # <<>>
    BY <1>2
  <2>2. /\ arms \in Seq(DOMAIN program.nodes) /\ Len(arms) = Len(kids) - 1
        /\ \A i \in 1 .. Len(arms) : arms[i] = kids[i + 1]
    BY <1>3, <2>1, HeadTailProperties
  <2>3. DOMAIN arms = 1 .. Len(arms)
    BY <2>2
  <2>4. QED
    BY <2>2, <2>3 DEF n
<1>5. /\ g.do = "gen" /\ g.node = kids[1] /\ g \in X /\ e \in X /\ e.do = "matched" /\ e.node = This
  <2>1. kids[1] \in DOMAIN program.nodes
    BY <1>2
  <2>2. QED
    BY <1>1, <2>1 DEF TasksOf, Fits, Gen, DoTask, Dos, kid, Nodes
<1>6. ASSUME NEW i \in 1 .. n - 1
      PROVE  /\ rest[i] \in X /\ rest[i].do \in {"arm", "enter"} /\ rest[i].node = kids[i + 1]
  <2>1. /\ kids[i + 1] \in DOMAIN program.nodes /\ Len(program.nodes[kids[i + 1]].kids) = 2
        /\ arms[i] = kids[i + 1] /\ i \in DOMAIN arms
    <3> HIDE DEF kids, n
    <3>1. i + 1 \in 2 .. n /\ i + 1 \in 1 .. n
      BY <1>2
    <3>2. kids[i + 1] \in DOMAIN program.nodes
      BY <1>2, <3>1
    <3>3. Len(program.nodes[kids[i + 1]].kids) = 2
      BY <1>2, <3>1
    <3>4. QED
      BY <1>4, <3>2, <3>3
  <2>2. rest[i] = DoTask("arm", kids[i + 1]) \/ rest[i] = DoTask("enter", kids[i + 1])
    BY <2>1
  <2> HIDE DEF rest, kids
  <2>3. QED
    BY <2>1, <2>2 DEF TasksOf, Fits, DoTask, Dos
<1>7. /\ first \in Seq(X) /\ Len(first) = 1 /\ first[1] = g
      /\ last \in Seq(X) /\ Len(last) = 1 /\ last[1] = e
  <2> HIDE DEF g, e
  <2>1. QED
    BY <1>5
<1>8. rest \in Seq(X) /\ Len(rest) = n - 1 /\ DOMAIN rest = 1 .. n - 1
  <2>1. rest = [i \in 1 .. n - 1 |-> rest[i]] /\ n - 1 \in Nat
    BY <1>2, <1>4
  <2> HIDE DEF rest, n
  <2>2. QED
    BY <1>6, <2>1
<1>9. Then(tasks)
  OBVIOUS
<1> HIDE DEF g, e, first, rest, last, X
<1>10. /\ tasks \in Seq(X) /\ Len(tasks) = n + 1
       /\ tasks[1] = g /\ tasks[n + 1] = e
       /\ \A i \in 1 .. n - 1 : tasks[1 + i] = rest[i]
  <2>1. /\ tasks \in Seq(X) /\ Len(tasks) = Len(first) + Len(rest) + Len(last)
        /\ \A i \in 1 .. Len(first) : tasks[i] = first[i]
        /\ \A i \in 1 .. Len(rest) : tasks[Len(first) + i] = rest[i]
        /\ \A i \in 1 .. Len(last) : tasks[Len(first) + Len(rest) + i] = last[i]
    <3>1. first \in Seq(X) /\ rest \in Seq(X) /\ last \in Seq(X)
      BY <1>7, <1>8
    <3>2. QED
      BY <3>1, JoinedThree
  <2> HIDE DEF tasks, n
  <2>2. 1 \in 1 .. Len(first) /\ 1 \in 1 .. Len(last) /\ 1 + (n - 1) + 1 = n + 1
    BY <1>2, <1>7
  <2>3. tasks[1] = first[1] /\ tasks[Len(first) + Len(rest) + 1] = last[1]
    BY <2>1, <2>2
  <2>4. QED
    BY <1>2, <1>7, <1>8, <2>1, <2>2, <2>3
<1> HIDE DEF n
<1>11. ASSUME NEW i \in DOMAIN tasks
       PROVE  \/ /\ i \in DOMAIN program.nodes[This].kids
                 /\ tasks[i].node = program.nodes[This].kids[i]
                 /\ tasks[i].do \in {"gen", "arm", "enter"}
              \/ tasks[i].do \in {"list", "call", "matched"}
  <2> HIDE DEF tasks
  <2>1. i \in 1 .. n + 1
    BY <1>10
  <2>2. CASE i = 1
    BY <1>2, <1>5, <1>10, <2>2
  <2>3. CASE i = n + 1
    BY <1>5, <1>10, <2>3
  <2>4. CASE i \in 2 .. n
    <3>1. i - 1 \in 1 .. n - 1 /\ 1 + (i - 1) = i /\ (i - 1) + 1 = i
      BY <1>2, <2>4
    <3>2. tasks[1 + (i - 1)] = rest[i - 1] /\ rest[i - 1].node = kids[(i - 1) + 1]
          /\ rest[i - 1].do \in {"arm", "enter"}
      BY <1>6, <1>10, <3>1
    <3>3. tasks[i].node = kids[i] /\ tasks[i].do \in {"arm", "enter"} /\ i \in DOMAIN kids
      BY <1>2, <2>4, <3>1, <3>2
    <3>4. QED
      BY <3>3
  <2>5. QED
    BY <1>2, <2>1, <2>2, <2>3, <2>4
<1>12. Within(program, Task, tasks)
  <2>1. tasks \in Seq(TasksOf(program))
    BY <1>10 DEF X
  <2> HIDE DEF tasks
  <2>2. QED
    BY <1>11, <2>1, KidsInOrder
<1> DEFINE s == Depth(Len(table), v + 1, building)
<1>13. /\ s \in Depths /\ s.frames = Len(table) /\ s.results = v + 1 /\ s.stack = building
       /\ Now.frames = Len(table) /\ Now.results = v /\ Now.stack = building
  BY <1>1 DEF Depths, Depth
<1>14. /\ Needs(program, g) = 0 /\ Makes(g) = 1 /\ Needs(program, e) = 1 /\ Makes(e) = 1
       /\ Needs(program, Task) = 0 /\ Makes(Task) = 1
  BY <1>1, <1>5, TaskMeanings
<1> HIDE DEF s, v
<1>15. Ready(program, Now, g) /\ After(program, Now, g) = s
  <2>1. v - 0 + 1 = v + 1 /\ 0 <= v
    BY <1>1
  <2>2. QED
    BY <1>5, <1>13, <1>14, <2>1 DEF Ready, After, Closing, s
<1>16. Ready(program, s, e) /\ After(program, s, e) = s
  <2>1. (v + 1) - 1 + 1 = v + 1 /\ 1 <= v + 1
    BY <1>1
  <2>2. QED
    BY <1>5, <1>13, <1>14, <2>1 DEF Ready, After, Closing, s
<1>17. After(program, Now, Task) = s
  <2>1. v - 0 + 1 = v + 1
    BY <1>1
  <2>2. QED
    BY <1>1, <1>13, <1>14, <2>1 DEF After, Closing, s
<1>18. Leads(program, Now, first, s) /\ Leads(program, s, last, s)
  BY <1>15, <1>16, OneLeads DEF first, last
<1>19. Leads(program, s, rest, s)
  <2>1. s.results >= 1
    BY <1>1, <1>13
  <2>2. rest \in Seq(X) /\ \A i \in DOMAIN rest : rest[i].do \in {"arm", "enter"}
    BY <1>6, <1>8
  <2>3. QED
    BY <1>13, <2>1, <2>2, ArmsLead
<1>20. Leads(program, Now, tasks, s)
  <2>1. first \in Seq(X) /\ rest \in Seq(X) /\ last \in Seq(X)
    BY <1>7, <1>8
  <2>2. Leads(program, Now, first \o rest, s) /\ first \o rest \in Seq(X)
    BY <1>18, <1>19, <2>1, BothLead, Joined
  <2>3. QED
    BY <1>18, <2>1, <2>2, BothLead
<1>21. agenda' = tasks \o Tail(agenda) /\ tasks \in Seq(TasksOf(program))
  BY <1>9, <1>10 DEF Then, X
<1>22. QED
  BY <1>1, <1>12, <1>17, <1>20, <1>21 DEF Works

-----------------------------------------------------------------------------
(* The steps of code generation.                                           *)

LEMMA ReturnWorks ==
  ASSUME Generates("gen"), NEW v \in BOOLEAN, Return(v), Then(<<>>), building' = building,
         Len(table') = Len(table)
  PROVE  Works /\ values' \in Seq(BOOLEAN)
<1>1. Task.do = "gen" /\ values \in Seq(BOOLEAN) /\ Len(values) \in Nat
  BY GenerateFacts DEF Generates
<1>2. values' \in Seq(BOOLEAN) /\ Len(values') = Len(values) + 1
  BY <1>1, ReturnResults
<1>3. Needs(program, Task) = 0 /\ Makes(Task) = 1
  BY <1>1, TaskMeanings
<1>4. Len(values) - Needs(program, Task) + Makes(Task) = Len(values) + 1
  BY <1>1, <1>3
<1>5. Works
  BY <1>2, <1>4, NoMore DEF Closing
<1>6. QED
  BY <1>2, <1>5

LEMMA ReturnInv ==
  ASSUME Quiet("gen"), NEW v \in BOOLEAN, Return(v), Then(<<>>),
         table' \in Seq(FramesOf(program, FunctionsBound)), Len(table') = Len(table), table' # <<>>
  PROVE  SessionInv'
<1>1. Generates("gen") /\ building' = building
  BY DEF Quiet
<1>2. QED
  BY <1>1, ReturnWorks, QuietKeeps

LEMMA ReplaceWorks ==
  ASSUME NEW do \in {"list", "call", "matched", "end"}, Generates(do), NEW v \in BOOLEAN,
         NEW n, n = Needs(program, Task), Replace(n, v), Then(<<>>),
         building' = IF do = "end" THEN Tail(building) ELSE building,
         Len(table') = IF do \in Closing THEN Len(table) - 1 ELSE Len(table)
  PROVE  Works /\ values' \in Seq(BOOLEAN)
<1>1. /\ Task.do = do /\ Task.node = This /\ values \in Seq(BOOLEAN) /\ Len(values) \in Nat
      /\ n <= Len(values)
  BY GenerateFacts, AfterTask DEF Generates
<1>2. n \in Nat
  <2>1. n = Len(program.nodes[This].kids) \/ n = 1
    BY <1>1, TaskMeanings
  <2>2. Len(program.nodes[This].kids) \in Nat
    BY GenerateFacts, NodeFacts
  <2>3. QED
    BY <2>1, <2>2
<1>3. values' \in Seq(BOOLEAN) /\ Len(values') = Len(values) - n + 1
  BY <1>1, <1>2, ReplaceResults
<1>4. Makes(Task) = 1
  BY <1>1, TaskMeanings
<1>5. Works
  BY <1>3, <1>4, NoMore
<1>6. QED
  BY <1>3, <1>5

\* A child is generated, in a scope of its own or not, then a task is done on its result.
LEMMA KidWorks ==
  ASSUME NEW do \in {"gen", "branch", "else", "enter"}, Generates(do),
         NEW i \in Nat \ {0}, Len(program.nodes[This].kids) >= i,
         \E l \in Starts(program, Task) : l <= program.nodes[This].kids[i],
         NEW next \in {"add", "store", "branch", "else", "join", "result"},
         next = "result" <=> do = "enter", Fits(program, DoTask(next, This)),
         \A m \in Starts(program, DoTask(next, This)) :
           TreeEnds(program)[program.nodes[This].kids[i]] < m,
         Then(<<Gen(kid(This, i)), DoTask(next, This)>>), building' = building,
         values' \in Seq(BOOLEAN),
         Len(values') = IF do \in {"branch", "else"} THEN Len(values) - 1 ELSE Len(values),
         Len(table') = IF next \in {"else", "result"} THEN Len(table) + 1 ELSE Len(table),
         next = "join" <=> do = "else"
  PROVE  Works
<1> DEFINE t == DoTask(next, This)
           f == Len(table')
           v == Len(values') + 1
           s == Depth(f, v, building')
<1>1. /\ Task.do = do /\ Task.node = This /\ Len(table) \in Nat /\ Len(table) > 0
      /\ Len(values) \in Nat /\ Now' = Depth(Len(table'), Len(values'), building')
      /\ building \in Seq(AllNodes) /\ IsProgram(program)
      /\ Needs(program, Task) <= Len(values) /\ (do \in Closing => Len(table) > 1)
      /\ do # "end"
      /\ After(program, Now, Task) =
           Depth(IF do \in Closing THEN Len(table) - 1 ELSE Len(table),
                 Len(values) - Needs(program, Task) + Makes(Task), building)
  BY GenerateFacts, AfterTask DEF Generates
<1>2. t.do = next /\ t.node = This
  BY DEF DoTask
<1>3. /\ Needs(program, Task) = IF do \in {"branch", "else"} THEN 1 ELSE 0
      /\ Makes(Task) = IF do = "enter" THEN 0 ELSE 1
      /\ Needs(program, t) = 1 /\ Makes(t) = IF next = "result" THEN 0 ELSE 1
  BY <1>1, <1>2, TaskMeanings
<1> HIDE DEF t
<1>4. f \in Nat /\ Len(values') \in Nat /\ v \in Nat /\ v >= 1
  BY <1>1, <1>3
<1>5. Now' \in Depths
  <2>1. building \in Seq(Nat)
    <3>1. AllNodes \subseteq Nat
      BY <1>1, NodeFacts DEF AllNodes, Nodes
    <3>2. QED
      BY <1>1, <3>1, SeqMonotonic
  <2>2. QED
    BY <1>1, <1>4, <2>1 DEF Depths, Depth
<1>6. /\ next \in Closing => f > 1
      /\ (IF next \in Closing THEN f - 1 ELSE f)
           = (IF do \in Closing THEN Len(table) - 1 ELSE Len(table))
  BY <1>1 DEF Closing
<1>7. v - 1 + Makes(t) = Len(values) - Needs(program, Task) + Makes(Task)
  <2>1. Makes(t) = Makes(Task)
    BY <1>3
  <2>2. v - 1 = Len(values) - Needs(program, Task)
    BY <1>1, <1>3, <1>4
  <2>3. QED
    BY <2>1, <2>2
<1>8. Ready(program, s, t) /\ After(program, s, t) = After(program, Now, Task)
  <2>1. s.frames = f /\ s.results = v /\ s.stack = building
    BY DEF Depth
  <2> HIDE DEF s, f, v
  <2>2. Ready(program, s, t)
    BY <1>2, <1>3, <1>4, <1>6, <2>1 DEF Ready
  <2>3. After(program, s, t)
          = Depth(IF next \in Closing THEN f - 1 ELSE f, v - 1 + Makes(t), building)
    BY <1>2, <1>3, <2>1 DEF After
  <2>4. QED
    BY <1>1, <1>6, <1>7, <2>2, <2>3
<1>9. do \in Covering /\ next \in Dos \ {"gen", "arm", "enter"}
  BY DEF Covering, Dos
<1>10. QED
  BY <1>5, <1>8, <1>9, KidThen DEF s, t

LEMMA GenLiteralInv == ASSUME SessionInv, GenLiteral PROVE SessionInv'
<1>1. Quiet("gen") /\ Return(TRUE) /\ Then(<<>>) /\ table' = table
  BY DEF GenLiteral, At, Doing, OnlyGenerates, Quiet, Generates
<1>2. QED
  BY <1>1, ReturnInv, GenerateFacts DEF Quiet

LEMMA GenIdentifierInv == ASSUME SessionInv, GenIdentifier PROVE SessionInv'
<1>1. /\ Quiet("gen") /\ Then(<<>>) /\ table' = table
      /\ Return(TRUE) \/ Return(FALSE)
  <2>1. /\ Generates("gen") /\ Then(<<>>) /\ table' = table /\ holders' = holders
        /\ building' = building
        /\ Return(TRUE) \/ Return(FALSE)
    BY DEF GenIdentifier, At, Doing, OnlyGenerates, Generates
  <2>2. invalid' \subseteq invalid \cup {Function}
    BY DEF GenIdentifier
  <2>3. QED
    BY <2>1, <2>2 DEF Quiet
<1>2. table' \in Seq(FramesOf(program, FunctionsBound)) /\ table' # <<>>
  BY <1>1, GenerateFacts DEF Quiet
<1>3. QED
  BY <1>1, <1>2, ReturnInv

LEMMA GenMissingParamInv == ASSUME SessionInv, GenMissingParam PROVE SessionInv'
BY UndefinedInv DEF GenMissingParam, At, Doing

LEMMA GenUseInv == ASSUME SessionInv, GenUse PROVE SessionInv'
<1>1. CASE Undefined
  BY <1>1, UndefinedInv DEF GenUse, Doing
<1>2. CASE ~Undefined
  <2> DEFINE do == Task.do
  <2>1. /\ do \in {"add", "store"} /\ Quiet(do) /\ Then(<<>>) /\ table' = table
        /\ values' = values
    BY <1>2 DEF GenUse, Doing, OnlyGenerates, work, Quiet, Generates
  <2>2. Needs(program, Task) = 1 /\ Makes(Task) = 1
    BY <2>1, TaskMeanings
  <2> HIDE DEF do
  <2>3. Generates(do) /\ building' = building
    BY <2>1 DEF Quiet
  <2>4. /\ table \in Seq(FramesOf(program, FunctionsBound)) /\ table # <<>>
        /\ values \in Seq(BOOLEAN) /\ Len(values) \in Nat
    BY <2>3, GenerateFacts
  <2>5. Len(values) - Needs(program, Task) + Makes(Task) = Len(values)
    BY <2>2, <2>4
  <2>6. Works
    BY <2>1, <2>3, <2>5, NoMore DEF Closing
  <2>7. QED
    BY <2>1, <2>4, <2>6, QuietKeeps
<1>3. QED
  BY <1>1, <1>2

LEMMA GenListInv == ASSUME SessionInv, GenList PROVE SessionInv'
<1>1. /\ Quiet("gen") /\ Then(OnKids("gen", This) \o <<DoTask("list", This)>>)
      /\ table' = table /\ values' = values
  BY DEF GenList, At, Doing, OnlyGenerates, work, Quiet, Generates
<1>2. Works
  BY <1>1, KidsThen DEF Quiet
<1>3. QED
  BY <1>1, <1>2, QuietKeeps, GenerateFacts DEF Quiet

LEMMA EndListInv == ASSUME SessionInv, EndList PROVE SessionInv'
<1> DEFINE n == Len(Nodes[This].kids)
           v == \E i \in 1 .. n : values[i]
<1>1. /\ Quiet("list") /\ Replace(n, v) /\ Then(<<>>) /\ table' = table
  BY DEF EndList, Doing, OnlyGenerates, Quiet, Generates
<1>2. Generates("list") /\ Task.do = "list" /\ building' = building
  BY <1>1 DEF Quiet, Generates
<1>3. n = Needs(program, Task)
  <2>1. Task.node = This
    BY <1>2, GenerateFacts
  <2>2. QED
    BY <1>2, <2>1, TaskMeanings DEF Nodes
<1>4. v \in BOOLEAN
  OBVIOUS
<1> HIDE DEF n, v
<1>5. Works /\ values' \in Seq(BOOLEAN)
  BY <1>1, <1>2, <1>3, <1>4, ReplaceWorks DEF Closing
<1>6. QED
  BY <1>1, <1>2, <1>5, QuietKeeps, GenerateFacts

LEMMA EndMatchInv == ASSUME SessionInv, EndMatch PROVE SessionInv'
<1>1. /\ Quiet("matched") /\ Replace(1, TRUE) /\ Then(<<>>) /\ table' = table
  BY DEF EndMatch, Doing, OnlyGenerates, Quiet, Generates
<1>2. Generates("matched") /\ Task.do = "matched" /\ building' = building
  BY <1>1 DEF Quiet, Generates
<1>3. Needs(program, Task) = 1
  BY <1>2, TaskMeanings
<1>5. Works /\ values' \in Seq(BOOLEAN)
  BY <1>1, <1>2, <1>3, ReplaceWorks DEF Closing
<1>6. QED
  BY <1>1, <1>2, <1>5, QuietKeeps, GenerateFacts

LEMMA EndCallInv == ASSUME SessionInv, EndCall PROVE SessionInv'
<1> DEFINE n == Len(Nodes[This].kids)
<1>1. CASE Undefined
  BY <1>1, UndefinedInv DEF EndCall, Doing
<1>2. CASE ~Undefined
  <2>1. /\ Quiet("call") /\ Replace(n, TRUE) /\ Then(<<>>) /\ table' = table
    BY <1>2 DEF EndCall, Doing, OnlyGenerates, Quiet, Generates
  <2>2. Generates("call") /\ Task.do = "call" /\ building' = building
    BY <2>1 DEF Quiet, Generates
  <2>3. n = Needs(program, Task)
    <3>1. Task.node = This
      BY <2>2, GenerateFacts
    <3>2. QED
      BY <2>2, <3>1, TaskMeanings DEF Nodes
  <2> HIDE DEF n
  <2>4. Works /\ values' \in Seq(BOOLEAN)
    BY <2>1, <2>2, <2>3, ReplaceWorks DEF Closing
  <2>5. QED
    BY <2>1, <2>2, <2>4, QuietKeeps, GenerateFacts
<1>3. QED
  BY <1>1, <1>2

LEMMA GenCallInv == ASSUME SessionInv, GenCall PROVE SessionInv'
<1>1. /\ Quiet("gen") /\ table' = table
      /\ \/ Then(OnKids("gen", This) \o <<DoTask("call", This)>>) /\ values' = values
         \/ Return(FALSE) /\ Then(<<>>)
  BY DEF GenCall, At, Doing, OnlyGenerates, Quiet, Generates
<1>2. /\ Generates("gen") /\ building' = building
      /\ table \in Seq(FramesOf(program, FunctionsBound)) /\ table # <<>>
      /\ values \in Seq(BOOLEAN)
  BY <1>1, GenerateFacts DEF Quiet
<1>3. CASE Return(FALSE) /\ Then(<<>>)
  BY <1>1, <1>2, <1>3, ReturnInv
<1>4. CASE Then(OnKids("gen", This) \o <<DoTask("call", This)>>) /\ values' = values
  <2>1. Works
    BY <1>1, <1>2, <1>4, KidsThen
  <2>2. QED
    BY <1>1, <1>2, <1>4, <2>1, QuietKeeps
<1>5. QED
  BY <1>1, <1>3, <1>4

LEMMA GenMatchInv == ASSUME SessionInv, GenMatch PROVE SessionInv'
<1> DEFINE arms == Tail(Nodes[This].kids)
<1>1. /\ Quiet("gen") /\ table' = table /\ values' = values
      /\ program.nodes[This].tag = "match"
      /\ Then(<<Gen(kid(This, 1))>>
              \o [i \in DOMAIN arms |-> DoTask(IF i < Len(arms) THEN "arm" ELSE "enter", arms[i])]
              \o <<DoTask("matched", This)>>)
  BY DEF GenMatch, At, Doing, OnlyGenerates, work, Quiet, Generates, Nodes
<1>2. Generates("gen") /\ building' = building
  BY <1>1 DEF Quiet
<1>3. Works
  <2>1. \E a : /\ a = Tail(Nodes[This].kids)
               /\ Then(<<Gen(kid(This, 1))>>
                       \o [i \in DOMAIN a |-> DoTask(IF i < Len(a) THEN "arm" ELSE "enter", a[i])]
                       \o <<DoTask("matched", This)>>)
    BY <1>1
  <2>2. QED
    BY <1>1, <1>2, <2>1, MatchWorks
<1>4. QED
  BY <1>1, <1>2, <1>3, QuietKeeps, GenerateFacts

LEMMA GenPatternInv == ASSUME SessionInv, GenPattern PROVE SessionInv'
<1>1. /\ Quiet("arm") /\ table' = table /\ values' = values
      /\ Then(<<Gen(kid(This, 1)), DoTask("test", This), DoTask("enter", This)>>)
  BY DEF GenPattern, Doing, OnlyGenerates, work, Quiet, Generates
<1>2. Generates("arm") /\ building' = building
  BY <1>1 DEF Quiet
<1>3. Works
  BY <1>1, <1>2, PatternWorks
<1>4. QED
  BY <1>1, <1>2, <1>3, QuietKeeps, GenerateFacts

LEMMA ComesTo ==
  ASSUME NEW do, Generates(do), NEW i \in Nat \ {0}, Len(program.nodes[This].kids) >= i,
         \/ do = "gen"
         \/ do \in {"branch", "enter"} /\ i = 2
         \/ do = "else" /\ i = 3 /\ Len(program.nodes[This].kids) = 3
  PROVE  \E l \in Starts(program, Task) : l <= program.nodes[This].kids[i]
<1> DEFINE k == program.nodes[This].kids[i]
<1>1. /\ IsProgram(program) /\ This \in DOMAIN program.nodes /\ Task.node = This /\ Task.do = do
  BY GenerateFacts DEF Generates
<1>2. k \in DOMAIN program.nodes /\ This < k
  BY <1>1, KidAt
<1>3. k \in Nat /\ This \in Nat
  BY <1>1, <1>2, NodeFacts
<1>4. CASE do = "gen"
  BY <1>1, <1>2, <1>3, <1>4 DEF Starts
<1>5. CASE do # "gen"
  <2>1. k \in Starts(program, Task)
    BY <1>1, <1>2, <1>5 DEF Starts
  <2>2. k <= k
    BY <1>3
  <2>3. QED
    BY <2>1, <2>2
<1>6. QED
  BY <1>4, <1>5

\* The task after that of a child comes to the next child, if to any.
LEMMA ComesNext ==
  ASSUME NEW do, Generates(do), NEW i \in Nat \ {0}, Len(program.nodes[This].kids) >= i,
         NEW next \in {"add", "store", "branch", "else", "join", "result"},
         next = "branch" => i = 1 /\ Len(program.nodes[This].kids) >= 2,
         next = "else" => i = 2
  PROVE  /\ Fits(program, DoTask(next, This))
         /\ \A m \in Starts(program, DoTask(next, This)) :
              TreeEnds(program)[program.nodes[This].kids[i]] < m
<1> DEFINE t == DoTask(next, This)
           kids == program.nodes[This].kids
<1>1. /\ IsProgram(program) /\ This \in DOMAIN program.nodes /\ t.do = next /\ t.node = This
      /\ i \in DOMAIN kids
  BY GenerateFacts, KidAt DEF DoTask
<1> HIDE DEF t
<1>2. Fits(program, t)
  BY <1>1 DEF Fits
<1>3. ASSUME NEW m \in Starts(program, t)
      PROVE  \E j \in DOMAIN kids : i < j /\ m = kids[j]
  <2>1. \/ next = "branch" /\ m = kids[2]
        \/ next = "else" /\ Len(kids) = 3 /\ m = kids[3]
    BY <1>1 DEF Starts
  <2>2. CASE next = "branch" /\ m = kids[2]
    <3>1. 2 \in DOMAIN kids /\ i < 2
      BY <1>1, <2>2, KidAt
    <3>2. QED
      BY <2>2, <3>1
  <2>3. CASE next = "else" /\ Len(kids) = 3 /\ m = kids[3]
    <3>1. 3 \in DOMAIN kids /\ i < 3
      BY <1>1, <2>3, KidAt
    <3>2. QED
      BY <2>3, <3>1
  <2>4. QED
    BY <2>1, <2>2, <2>3
<1>4. \A j \in DOMAIN kids : i < j => TreeEnds(program)[kids[i]] < kids[j]
  BY <1>1, KidFacts
<1>5. QED
  BY <1>2, <1>3, <1>4 DEF t

LEMMA EnterTable ==
  ASSUME NEW do, Generates(do), table' = EnterScope(table)
  PROVE  /\ table' \in Seq(FramesOf(program, FunctionsBound)) /\ table' # <<>>
         /\ Len(table') = Len(table) + 1
<1>1. table \in Seq(FramesOf(program, FunctionsBound))
  BY GenerateFacts
<1>2. Table!Empty \in FramesOf(program, FunctionsBound)
  BY EmptyIsFrame
<1>3. QED
  BY <1>1, <1>2, EnterFrames

LEMMA LeaveTable ==
  ASSUME NEW do \in Closing, Generates(do)
  PROVE  /\ ExitScope(table) \in Seq(FramesOf(program, FunctionsBound)) /\ ExitScope(table) # <<>>
         /\ Len(ExitScope(table)) = Len(table) - 1
<1>1. /\ table \in Seq(FramesOf(program, FunctionsBound)) /\ table # <<>> /\ Len(table) > 1
  BY GenerateFacts, AfterTask
<1>2. QED
  BY <1>1, ExitFrames

\* The first child of a node is generated, then a task is done on its result.
LEMMA FirstKidWorks ==
  ASSUME Generates("gen"), NEW next \in {"add", "store", "branch"},
         Len(program.nodes[This].kids) >= 1,
         next = "branch" => Len(program.nodes[This].kids) >= 2,
         Then(<<Gen(kid(This, 1)), DoTask(next, This)>>), building' = building,
         values' = values, Len(table') = Len(table)
  PROVE  Works
<1> DEFINE do == "gen"
           i == 1
<1>1. /\ do \in {"gen", "branch", "else", "enter"} /\ do = "gen" /\ i \in Nat \ {0} /\ i = 1
      /\ next \in {"add", "store", "branch", "else", "join", "result"}
      /\ next # "result" /\ do # "enter" /\ next # "join" /\ do # "else" /\ next # "else"
      /\ do \notin {"branch", "else"} /\ next \notin {"else", "result"}
      /\ Generates(do) /\ Len(program.nodes[This].kids) >= i
      /\ Then(<<Gen(kid(This, i)), DoTask(next, This)>>)
  OBVIOUS
<1>2. values' \in Seq(BOOLEAN) /\ Len(values') = Len(values)
  BY GenerateFacts
<1> HIDE DEF do, i
<1>3. \E l \in Starts(program, Task) : l <= program.nodes[This].kids[i]
  BY <1>1, ComesTo
<1>4. /\ Fits(program, DoTask(next, This))
      /\ \A m \in Starts(program, DoTask(next, This)) :
           TreeEnds(program)[program.nodes[This].kids[i]] < m
  BY <1>1, ComesNext
<1>5. QED
  BY <1>1, <1>2, <1>3, <1>4, KidWorks

LEMMA GenOperandInv == ASSUME SessionInv, GenOperand PROVE SessionInv'
<1>1. /\ Quiet("gen") /\ table' = table /\ values' = values
      /\ program.nodes[This].tag = "plus"
      /\ Then(<<Gen(kid(This, 1)), DoTask("add", This)>>)
  BY DEF GenOperand, At, Doing, OnlyGenerates, work, Quiet, Generates, Nodes
<1>2. /\ Generates("gen") /\ building' = building /\ agenda # <<>>
      /\ table \in Seq(FramesOf(program, FunctionsBound)) /\ table # <<>>
      /\ values \in Seq(BOOLEAN)
  BY <1>1, GenerateFacts DEF Quiet, Generates
<1>3. Len(program.nodes[This].kids) >= 1
  BY <1>1, <1>2, ThisFits
<1>4. Works
  BY <1>1, <1>2, <1>3, FirstKidWorks
<1>5. QED
  BY <1>1, <1>2, <1>4, QuietKeeps

LEMMA GenIfInv == ASSUME SessionInv, GenIf PROVE SessionInv'
<1>1. /\ Quiet("gen") /\ table' = table /\ values' = values
      /\ program.nodes[This].tag = "if"
      /\ Then(<<Gen(kid(This, 1)), DoTask("branch", This)>>)
  BY DEF GenIf, At, Doing, OnlyGenerates, work, Quiet, Generates, Nodes
<1>2. /\ Generates("gen") /\ building' = building /\ agenda # <<>>
      /\ table \in Seq(FramesOf(program, FunctionsBound)) /\ table # <<>>
      /\ values \in Seq(BOOLEAN)
  BY <1>1, GenerateFacts DEF Quiet, Generates
<1>3. Len(program.nodes[This].kids) >= 2 /\ Len(program.nodes[This].kids) >= 1
  <2>1. Len(program.nodes[This].kids) >= 2 /\ Len(program.nodes[This].kids) \in Nat
    BY <1>1, <1>2, ThisFits, NodeFacts
  <2>2. QED
    BY <2>1
<1>4. Works
  BY <1>1, <1>2, <1>3, FirstKidWorks
<1>5. QED
  BY <1>1, <1>2, <1>4, QuietKeeps

LEMMA EnterArmInv == ASSUME SessionInv, EnterArm PROVE SessionInv'
<1>1. /\ Quiet("enter") /\ table' = EnterScope(table) /\ values' = values
      /\ Then(<<Gen(kid(This, 2)), DoTask("result", This)>>)
  BY DEF EnterArm, Doing, OnlyGenerates, work, Quiet, Generates
<1>2. /\ Generates("enter") /\ building' = building /\ agenda # <<>> /\ Task.do = "enter"
      /\ Task.node = This /\ values \in Seq(BOOLEAN)
  BY <1>1, GenerateFacts DEF Quiet, Generates
<1>3. /\ table' \in Seq(FramesOf(program, FunctionsBound)) /\ table' # <<>>
      /\ Len(table') = Len(table) + 1
  BY <1>1, <1>2, EnterTable
<1>4. Len(program.nodes[This].kids) >= 2
  <2>1. Fits(program, Task)
    BY <1>2, TaskAtHand
  <2>2. Len(program.nodes[This].kids) = 2
    BY <1>2, <2>1 DEF Fits
  <2>3. QED
    BY <2>2
<1>5. Works
  <2>1. /\ \E l \in Starts(program, Task) : l <= program.nodes[This].kids[2]
        /\ Fits(program, DoTask("result", This))
        /\ \A m \in Starts(program, DoTask("result", This)) :
             TreeEnds(program)[program.nodes[This].kids[2]] < m
    BY <1>2, <1>4, ComesTo, ComesNext
  <2>2. QED
    BY <1>1, <1>2, <1>3, <1>4, <2>1, KidWorks
<1>6. QED
  BY <1>1, <1>2, <1>3, <1>5, QuietKeeps

LEMMA GenThenInv == ASSUME SessionInv, GenThen PROVE SessionInv'
<1>1. /\ Quiet("branch")
      /\ \/ /\ values' = Tail(values) /\ table' = EnterScope(table)
            /\ Then(<<Gen(kid(This, 2)), DoTask("else", This)>>)
         \/ Then(<<>>) /\ table' = table /\ values' = values
  BY DEF GenThen, Doing, OnlyGenerates, Quiet, Generates
<1>2. /\ Generates("branch") /\ building' = building /\ agenda # <<>>
      /\ Task.do = "branch" /\ Task.node = This
      /\ table \in Seq(FramesOf(program, FunctionsBound)) /\ table # <<>>
      /\ values \in Seq(BOOLEAN) /\ Len(values) \in Nat
  BY <1>1, GenerateFacts DEF Quiet, Generates
<1>3. Needs(program, Task) = 1 /\ Makes(Task) = 1 /\ 1 <= Len(values)
  <2>1. Needs(program, Task) = 1 /\ Makes(Task) = 1
    BY <1>2, TaskMeanings
  <2>2. QED
    BY <1>2, <2>1, AfterTask
<1>4. CASE Then(<<>>) /\ table' = table /\ values' = values
  <2>1. Len(values) - Needs(program, Task) + Makes(Task) = Len(values)
    BY <1>2, <1>3
  <2>2. Works
    BY <1>2, <1>4, <2>1, NoMore DEF Closing
  <2>3. QED
    BY <1>1, <1>2, <1>4, <2>2, QuietKeeps
<1>5. CASE /\ values' = Tail(values) /\ table' = EnterScope(table)
           /\ Then(<<Gen(kid(This, 2)), DoTask("else", This)>>)
  <2>1. /\ table' \in Seq(FramesOf(program, FunctionsBound)) /\ table' # <<>>
        /\ Len(table') = Len(table) + 1
    BY <1>2, <1>5, EnterTable
  <2>2. values' \in Seq(BOOLEAN) /\ Len(values') = Len(values) - 1
    BY <1>2, <1>3, <1>5, DropResult
  <2>3. Len(program.nodes[This].kids) >= 2
    <3>1. Fits(program, Task)
      BY <1>2, TaskAtHand DEF Generates
    <3>2. QED
      BY <1>2, <3>1 DEF Fits
  <2>4. /\ \E l \in Starts(program, Task) : l <= program.nodes[This].kids[2]
        /\ Fits(program, DoTask("else", This))
        /\ \A m \in Starts(program, DoTask("else", This)) :
             TreeEnds(program)[program.nodes[This].kids[2]] < m
    BY <1>2, <2>3, ComesTo, ComesNext
  <2>5. Works
    <3> DEFINE do == "branch"
               next == "else"
               i == 2
    <3>1. /\ do \in {"gen", "branch", "else", "enter"} /\ i \in Nat \ {0}
          /\ next \in {"add", "store", "branch", "else", "join", "result"}
          /\ next # "result" /\ do # "enter" /\ next # "join" /\ do # "else"
          /\ do \in {"branch", "else"} /\ next \in {"else", "result"}
          /\ Generates(do) /\ Len(program.nodes[This].kids) >= i
          /\ Then(<<Gen(kid(This, i)), DoTask(next, This)>>)
          /\ \E l \in Starts(program, Task) : l <= program.nodes[This].kids[i]
          /\ Fits(program, DoTask(next, This))
          /\ \A m \in Starts(program, DoTask(next, This)) :
               TreeEnds(program)[program.nodes[This].kids[i]] < m
      BY <1>2, <1>5, <2>3, <2>4
    <3> HIDE DEF do, next, i
    <3>2. QED
      BY <1>2, <2>1, <2>2, <3>1, KidWorks
  <2>6. QED
    BY <1>1, <2>1, <2>2, <2>5, QuietKeeps
<1>6. QED
  BY <1>1, <1>4, <1>5

LEMMA GenElseInv == ASSUME SessionInv, GenElse PROVE SessionInv'
<1>0. CASE Undefined
  BY <1>0, UndefinedInv DEF GenElse, Doing
<1>1. CASE ~Undefined
  <2>1. /\ Quiet("else")
        /\ \/ table' = ExitScope(table) /\ Then(<<>>) /\ values' = values
           \/ /\ Len(Nodes[This].kids) = 3
              /\ table' = EnterScope(ExitScope(table)) /\ values' = Tail(values)
              /\ Then(<<Gen(kid(This, 3)), DoTask("join", This)>>)
    <3>1. /\ Generates("else") /\ building' = building /\ holders' = holders
          /\ invalid' \subseteq invalid \cup {Function}
      BY <1>1 DEF GenElse, Doing, OnlyGenerates, Generates
    <3>2. QED
      BY <1>1, <3>1 DEF GenElse, Quiet
  <2>2. /\ Generates("else") /\ building' = building /\ agenda # <<>> /\ Task.do = "else"
        /\ values \in Seq(BOOLEAN) /\ Len(values) \in Nat /\ Len(table) \in Nat
    BY <2>1, GenerateFacts DEF Quiet, Generates
  <2>3. Needs(program, Task) = 1 /\ Makes(Task) = 1 /\ 1 <= Len(values)
    <3>1. Needs(program, Task) = 1 /\ Makes(Task) = 1
      BY <2>2, TaskMeanings
    <3>2. QED
      BY <2>2, <3>1, AfterTask
  <2>4. /\ ExitScope(table) \in Seq(FramesOf(program, FunctionsBound)) /\ ExitScope(table) # <<>>
        /\ Len(ExitScope(table)) = Len(table) - 1
    BY <2>2, LeaveTable DEF Closing
  <2>5. CASE table' = ExitScope(table) /\ Then(<<>>) /\ values' = values
    <3>1. Len(values) - Needs(program, Task) + Makes(Task) = Len(values)
      BY <2>2, <2>3
    <3>2. Works
      BY <2>2, <2>4, <2>5, <3>1, NoMore DEF Closing
    <3>3. QED
      BY <2>1, <2>2, <2>4, <2>5, <3>2, QuietKeeps
  <2>6. CASE /\ Len(Nodes[This].kids) = 3
             /\ table' = EnterScope(ExitScope(table)) /\ values' = Tail(values)
             /\ Then(<<Gen(kid(This, 3)), DoTask("join", This)>>)
    <3>1. /\ table' \in Seq(FramesOf(program, FunctionsBound)) /\ table' # <<>>
          /\ Len(table') = Len(table)
      <4>1. /\ table' \in Seq(FramesOf(program, FunctionsBound)) /\ table' # <<>>
            /\ Len(table') = Len(ExitScope(table)) + 1
        BY <2>4, <2>6, EmptyIsFrame, EnterFrames
      <4>2. QED
        BY <2>2, <2>4, <4>1
    <3>2. values' \in Seq(BOOLEAN) /\ Len(values') = Len(values) - 1
      BY <2>2, <2>3, <2>6, DropResult
    <3>3. Len(program.nodes[This].kids) = 3
      BY <2>6 DEF Nodes
    <3>4. /\ \E l \in Starts(program, Task) : l <= program.nodes[This].kids[3]
          /\ Fits(program, DoTask("join", This))
          /\ \A m \in Starts(program, DoTask("join", This)) :
               TreeEnds(program)[program.nodes[This].kids[3]] < m
      BY <2>2, <3>3, ComesTo, ComesNext
    <3>5. Works
      <4> DEFINE do == "else"
                 next == "join"
                 i == 3
      <4>1. /\ do \in {"gen", "branch", "else", "enter"} /\ i \in Nat \ {0}
            /\ next \in {"add", "store", "branch", "else", "join", "result"}
            /\ next # "result" /\ do # "enter" /\ next = "join" /\ do = "else"
            /\ do \in {"branch", "else"} /\ next \notin {"else", "result"}
            /\ Generates(do) /\ Len(program.nodes[This].kids) >= i
            /\ Then(<<Gen(kid(This, i)), DoTask(next, This)>>)
            /\ \E l \in Starts(program, Task) : l <= program.nodes[This].kids[i]
            /\ Fits(program, DoTask(next, This))
            /\ \A m \in Starts(program, DoTask(next, This)) :
                 TreeEnds(program)[program.nodes[This].kids[i]] < m
        BY <2>2, <2>6, <3>3, <3>4
      <4> HIDE DEF do, next, i
      <4>2. QED
        BY <2>2, <3>1, <3>2, <4>1, KidWorks
    <3>6. QED
      BY <2>1, <3>1, <3>2, <3>5, QuietKeeps
  <2>7. QED
    BY <2>1, <2>5, <2>6
<1>2. QED
  BY <1>0, <1>1

LEMMA JoinBranchesInv == ASSUME SessionInv, JoinBranches PROVE SessionInv'
<1>1. CASE Undefined
  BY <1>1, UndefinedInv DEF JoinBranches, Doing
<1>2. CASE ~Undefined
  <2>1. Quiet("join") /\ table' = ExitScope(table) /\ Then(<<>>) /\ values' = values
    BY <1>2 DEF JoinBranches, Doing, OnlyGenerates, work, Quiet, Generates
  <2>2. /\ Generates("join") /\ building' = building /\ Task.do = "join"
        /\ values \in Seq(BOOLEAN) /\ Len(values) \in Nat
    BY <2>1, GenerateFacts DEF Quiet, Generates
  <2>3. Needs(program, Task) = 1 /\ Makes(Task) = 1
    BY <2>2, TaskMeanings
  <2>4. /\ table' \in Seq(FramesOf(program, FunctionsBound)) /\ table' # <<>>
        /\ Len(table') = Len(table) - 1
    BY <2>1, <2>2, LeaveTable DEF Closing
  <2>5. Len(values) - Needs(program, Task) + Makes(Task) = Len(values)
    BY <2>2, <2>3
  <2>6. Works
    BY <2>1, <2>2, <2>4, <2>5, NoMore DEF Closing
  <2>7. QED
    BY <2>1, <2>2, <2>4, <2>6, QuietKeeps
<1>3. QED
  BY <1>1, <1>2

LEMMA LeaveArmInv == ASSUME SessionInv, LeaveArm PROVE SessionInv'
<1>1. CASE Undefined
  BY <1>1, UndefinedInv DEF LeaveArm, Doing
<1>2. CASE ~Undefined
  <2>1. Quiet("result") /\ table' = ExitScope(table) /\ Then(<<>>) /\ values' = Tail(values)
    BY <1>2 DEF LeaveArm, Doing, OnlyGenerates, work, Quiet, Generates
  <2>2. /\ Generates("result") /\ building' = building /\ Task.do = "result"
        /\ values \in Seq(BOOLEAN) /\ Len(values) \in Nat
    BY <2>1, GenerateFacts DEF Quiet, Generates
  <2>3. Needs(program, Task) = 1 /\ Makes(Task) = 0 /\ 1 <= Len(values)
    <3>1. Needs(program, Task) = 1 /\ Makes(Task) = 0
      BY <2>2, TaskMeanings
    <3>2. QED
      BY <2>2, <3>1, AfterTask
  <2>4. /\ table' \in Seq(FramesOf(program, FunctionsBound)) /\ table' # <<>>
        /\ Len(table') = Len(table) - 1
    BY <2>1, <2>2, LeaveTable DEF Closing
  <2>5. /\ values' \in Seq(BOOLEAN)
        /\ Len(values') = Len(values) - Needs(program, Task) + Makes(Task)
    BY <2>1, <2>2, <2>3, DropResult
  <2>6. Works
    BY <2>1, <2>2, <2>4, <2>5, NoMore DEF Closing
  <2>7. QED
    BY <2>1, <2>2, <2>4, <2>5, <2>6, QuietKeeps
<1>3. QED
  BY <1>1, <1>2

LEMMA TestArmInv == ASSUME SessionInv, TestArm PROVE SessionInv'
<1>1. CASE Undefined
  BY <1>1, UndefinedInv DEF TestArm, Doing
<1>2. CASE ~Undefined
  <2>1. Quiet("test") /\ table' = table /\ Then(<<>>) /\ values' = Tail(values)
    BY <1>2 DEF TestArm, Doing, OnlyGenerates, work, Quiet, Generates
  <2>2. /\ Generates("test") /\ building' = building /\ Task.do = "test"
        /\ values \in Seq(BOOLEAN) /\ Len(values) \in Nat
        /\ table \in Seq(FramesOf(program, FunctionsBound)) /\ table # <<>>
    BY <2>1, GenerateFacts DEF Quiet, Generates
  <2>3. Needs(program, Task) = 2 /\ Makes(Task) = 1 /\ 2 <= Len(values)
    <3>1. Needs(program, Task) = 2 /\ Makes(Task) = 1
      BY <2>2, TaskMeanings
    <3>2. QED
      BY <2>2, <3>1, AfterTask
  <2>4. 1 <= Len(values)
    BY <2>2, <2>3
  <2>5. /\ values' \in Seq(BOOLEAN)
        /\ Len(values') = Len(values) - Needs(program, Task) + Makes(Task)
    BY <2>1, <2>2, <2>3, <2>4, DropResult
  <2>6. Works
    BY <2>1, <2>2, <2>5, NoMore DEF Closing
  <2>7. QED
    BY <2>1, <2>2, <2>5, <2>6, QuietKeeps
<1>3. QED
  BY <1>1, <1>2

LEMMA ReassignInv == ASSUME SessionInv, Reassign PROVE SessionInv'
<1>1. /\ Quiet("gen") /\ table' = table /\ program.nodes[This].tag = "assignment"
      /\ \/ Then(<<Gen(kid(This, 1)), DoTask("store", This)>>) /\ values' = values
         \/ Return(FALSE) /\ Then(<<>>)
  <2>1. /\ Generates("gen") /\ building' = building /\ holders' = holders
        /\ invalid' \subseteq invalid \cup {Function}
    BY DEF Reassign, At, Doing, OnlyGenerates, Generates
  <2>2. QED
    BY <2>1 DEF Reassign, At, Quiet, Nodes
<1>2. /\ Generates("gen") /\ building' = building /\ agenda # <<>>
      /\ table \in Seq(FramesOf(program, FunctionsBound)) /\ table # <<>>
      /\ values \in Seq(BOOLEAN)
  BY <1>1, GenerateFacts DEF Quiet, Generates
<1>3. CASE Return(FALSE) /\ Then(<<>>)
  BY <1>1, <1>2, <1>3, ReturnInv
<1>4. CASE Then(<<Gen(kid(This, 1)), DoTask("store", This)>>) /\ values' = values
  <2>1. Len(program.nodes[This].kids) >= 1
    BY <1>1, <1>2, ThisFits
  <2>2. Works
    BY <1>1, <1>2, <1>4, <2>1, FirstKidWorks
  <2>3. QED
    BY <1>1, <1>2, <1>4, <2>2, QuietKeeps
<1>5. QED
  BY <1>1, <1>3, <1>4

LEMMA ModuleGets ==
  ASSUME NEW name, NEW n \in AllNodes,
         holders' = AddToModule(name, n) \/ holders' = holders
  PROVE  \A x \in DOMAIN holders' :
           \/ x \in DOMAIN holders /\ holders'[x] = holders[x]
           \/ holders'[x] = n
BY DEF AddToModule, Extended

\* A variable is bound to its name.
LEMMA VariableFrames ==
  ASSUME Generates("gen"), NewVariable
  PROVE  /\ table' \in Seq(FramesOf(program, FunctionsBound)) /\ table' # <<>>
         /\ Len(table') = Len(table)
<1>1. /\ table \in Seq(FramesOf(program, FunctionsBound)) /\ table # <<>>
      /\ This \in DOMAIN program.nodes /\ This_name = program.nodes[This].name
  BY GenerateFacts
<1>2. Function \in DOMAIN program.nodes
  <2>1. Function \in Range(building) /\ Range(building) \subseteq AllNodes
    BY BuildingFacts DEF Generates
  <2>2. QED
    BY <2>1 DEF AllNodes, Nodes
<1>3. /\ Variable.kind \in {"global", "local"} /\ Variable.node = This
      /\ Variable \in SymbolsOf(program)
  BY <1>1, <1>2 DEF Variable, Symbol, SymbolsOf, Kinds
<1>4. Binds(program, FunctionsBound, Variable)
  BY <1>3 DEF Binds
<1>5. table' = InsertInto(table, program.nodes[Variable.node].name, Variable)
  BY <1>1, <1>3 DEF NewVariable
<1>6. QED
  BY <1>1, <1>4, <1>5, InsertFrames

LEMMA AssignNewInv == ASSUME SessionInv, AssignNew PROVE SessionInv'
<1>1. /\ Generates("gen") /\ NewVariable /\ program.nodes[This].tag = "assignment"
      /\ Then(<<Gen(kid(This, 1)), DoTask("store", This)>>)
      /\ building' = building /\ invalid' = invalid /\ values' = values
      /\ agenda # <<>>
  BY DEF AssignNew, At, Doing, OnlyGenerates, work, Generates, Nodes
<1>2. /\ table' \in Seq(FramesOf(program, FunctionsBound)) /\ table' # <<>>
      /\ Len(table') = Len(table)
  BY <1>1, VariableFrames
<1>3. values \in Seq(BOOLEAN) /\ This \in AllNodes
  BY <1>1, GenerateFacts
<1>4. Quiet("gen")
  <2>1. holders' = AddToModule(This_name, This) \/ holders' = holders
    BY <1>1 DEF NewVariable
  <2>2. Nodes[This].tag \notin {"fn", "list"}
    BY <1>1 DEF Nodes
  <2>3. \A x \in DOMAIN holders' :
          \/ x \in DOMAIN holders /\ holders'[x] = holders[x]
          \/ holders'[x] = This
    BY <1>3, <2>1, ModuleGets
  <2>4. QED
    BY <1>1, <1>3, <2>2, <2>3 DEF Quiet
<1>5. Len(program.nodes[This].kids) >= 1
  BY <1>1, ThisFits
<1>6. Works
  BY <1>1, <1>2, <1>5, FirstKidWorks
<1>7. QED
  BY <1>1, <1>2, <1>3, <1>4, <1>6, QuietKeeps

LEMMA GenDeclarationInv == ASSUME SessionInv, GenDeclaration PROVE SessionInv'
<1>1. CASE Undefined
  BY <1>1, UndefinedInv DEF GenDeclaration, At, Doing
<1>2. CASE ~Undefined
  <2>1. /\ Generates("gen") /\ program.nodes[This].tag = "declaration" /\ Then(<<>>)
        /\ building' = building /\ invalid' = invalid
        /\ \/ NewVariable /\ Return(TRUE)
           \/ table' = table /\ holders' = holders /\ Return(FALSE)
    BY <1>2 DEF GenDeclaration, At, Doing, OnlyGenerates, Generates, Nodes
  <2>2. /\ table' \in Seq(FramesOf(program, FunctionsBound)) /\ table' # <<>>
        /\ Len(table') = Len(table)
    BY <2>1, VariableFrames, GenerateFacts
  <2>3. This \in AllNodes
    BY <2>1, GenerateFacts
  <2>4. Quiet("gen")
    <3>1. holders' = AddToModule(This_name, This) \/ holders' = holders
      BY <2>1 DEF NewVariable
    <3>2. Nodes[This].tag \notin {"fn", "list"}
      BY <2>1 DEF Nodes
    <3>3. \A x \in DOMAIN holders' :
            \/ x \in DOMAIN holders /\ holders'[x] = holders[x]
            \/ holders'[x] = This
      BY <2>3, <3>1, ModuleGets
    <3>4. QED
      BY <2>1, <2>3, <3>2, <3>3 DEF Quiet
  <2>5. CASE Return(TRUE)
    BY <2>1, <2>2, <2>4, <2>5, ReturnInv
  <2>6. CASE Return(FALSE)
    BY <2>1, <2>2, <2>4, <2>6, ReturnInv
  <2>7. QED
    BY <2>1, <2>5, <2>6
<1>3. QED
  BY <1>1, <1>2

-----------------------------------------------------------------------------
(* Functions.                                                              *)

\* What is left after the node at hand comes after it.
LEMMA StartsAfter ==
  ASSUME Generates("gen"), NEW tasks \in Seq(TasksOf(program)), Then(tasks),
         \A i \in DOMAIN tasks : \A m \in Starts(program, tasks[i]) : This < m
  PROVE  /\ \A i \in DOMAIN agenda' : \A m \in Starts(program, agenda'[i]) : This < m
         /\ \A j \in Later : This < program.inputs[j]
<1> DEFINE rest == Tail(agenda)
           end == TreeEnds(program)[This]
<1>1. /\ IsProgram(program) /\ This \in DOMAIN program.nodes /\ Task.node = This /\ Task.do = "gen"
      /\ SessionInv /\ agenda # <<>> /\ InOrder /\ agenda \in Seq(TasksOf(program))
  BY GenerateFacts DEF Generates, SessionInv, SessionTypes
<1>2. agenda[1] = Task /\ 1 \in DOMAIN agenda
  BY <1>1, TaskAtHand
<1>3. /\ This \in Nat /\ end \in Nat /\ This <= end
  BY <1>1, NodeFacts
<1>4. /\ rest \in Seq(TasksOf(program)) /\ Len(rest) = Len(agenda) - 1
      /\ \A i \in 1 .. Len(rest) : rest[i] = agenda[i + 1]
      /\ Len(agenda) \in Nat /\ DOMAIN agenda = 1 .. Len(agenda)
  BY <1>1, HeadTailProperties
<1> HIDE DEF rest, end
<1>5. ASSUME NEW i \in 1 .. Len(rest), NEW m \in Starts(program, rest[i])
      PROVE  This < m
  <2>1. i + 1 \in DOMAIN agenda /\ 1 < i + 1 /\ rest[i] = agenda[i + 1]
    BY <1>4
  <2>2. end < m
    BY <1>1, <1>2, <1>5, <2>1 DEF InOrder, Ordered, Covering, end
  <2>3. m \in Nat
    BY <1>1, <1>5, StartsAreNodes
  <2>4. QED
    BY <1>3, <2>2, <2>3
<1>6. ASSUME NEW j \in Later PROVE This < program.inputs[j]
  <2>1. end < program.inputs[j]
    BY <1>1, <1>2 DEF InOrder, Covering, end
  <2>2. program.inputs[j] \in Nat
    <3>1. program.inputs \in Seq(DOMAIN program.nodes) /\ j \in DOMAIN program.inputs
      BY <1>1 DEF IsProgram, InPreorder, Later
    <3>2. program.inputs[j] \in DOMAIN program.nodes
      BY <3>1
    <3>3. QED
      BY <1>1, <3>2, NodeFacts
  <2>3. QED
    BY <1>3, <2>1, <2>2
<1>7. agenda' = tasks \o rest
  BY DEF Then, rest
<1>8. /\ Len(tasks) \in Nat /\ DOMAIN tasks = 1 .. Len(tasks) /\ Len(rest) \in Nat
      /\ DOMAIN agenda' = 1 .. Len(tasks) + Len(rest)
      /\ \A i \in 1 .. Len(tasks) : agenda'[i] = tasks[i]
      /\ \A i \in 1 .. Len(rest) : agenda'[Len(tasks) + i] = rest[i]
  <2>1. rest \in Seq(TasksOf(program))
    BY <1>4
  <2>2. /\ tasks \o rest \in Seq(TasksOf(program))
        /\ Len(tasks \o rest) = Len(tasks) + Len(rest)
        /\ \A i \in 1 .. Len(tasks) : (tasks \o rest)[i] = tasks[i]
        /\ \A i \in 1 .. Len(rest) : (tasks \o rest)[Len(tasks) + i] = rest[i]
    BY <2>1, Joined
  <2>3. QED
    BY <1>4, <1>7, <2>2
<1>9. ASSUME NEW i \in DOMAIN agenda', NEW m \in Starts(program, agenda'[i])
      PROVE  This < m
  <2>1. CASE i <= Len(tasks)
    BY <1>8, <1>9, <2>1
  <2>2. CASE i > Len(tasks)
    <3>1. i - Len(tasks) \in 1 .. Len(rest) /\ agenda'[i] = rest[i - Len(tasks)]
      <4> DEFINE n == Len(tasks)
                 l == Len(rest)
                 j == i - n
      <4>1. n \in Nat /\ l \in Nat /\ i \in 1 .. n + l /\ i > n
        BY <1>8, <2>2
      <4>2. \A x \in 1 .. l : agenda'[n + x] = rest[x]
        BY <1>8
      <4> HIDE DEF n, l
      <4>3. j \in 1 .. l /\ n + j = i
        BY <4>1
      <4> HIDE DEF j
      <4>4. agenda'[i] = rest[j]
        BY <4>2, <4>3
      <4>5. QED
        BY <4>3, <4>4 DEF j, n, l
    <3>2. QED
      BY <1>5, <1>9, <3>1
  <2>3. QED
    BY <1>8, <2>1, <2>2
<1>10. QED
  BY <1>6, <1>9

LEMMA ThisIsFresh ==
  ASSUME Generates("gen")
  PROVE  This \notin Begun /\ This \notin FunctionsBound
<1>1. /\ IsProgram(program) /\ This \in DOMAIN program.nodes /\ Task.node = This /\ Task.do = "gen"
      /\ SessionInv /\ agenda # <<>> /\ BegunOnce
  BY GenerateFacts DEF Generates, SessionInv
<1>2. agenda[1] = Task /\ 1 \in DOMAIN agenda /\ This \in Nat
  BY <1>1, TaskAtHand, NodeFacts
<1>3. This \in Starts(program, agenda[1])
  BY <1>1, <1>2 DEF Starts
<1>4. \A n \in Begun : n < This
  BY <1>1, <1>2, <1>3 DEF BegunOnce
<1>5. This \notin Begun
  BY <1>2, <1>4
<1>6. QED
  BY <1>5 DEF Begun

LEMMA MoreFrames ==
  ASSUME NEW p, NEW S, NEW R, S \subseteq R, NEW t \in Seq(FramesOf(p, S))
  PROVE  t \in Seq(FramesOf(p, R))
<1>1. FramesOf(p, S) \subseteq FramesOf(p, R)
  BY DEF FramesOf
<1>2. QED
  BY <1>1, SeqMonotonic

\* The symbol of a function that is complete.
LEMMA FunctionBinds ==
  ASSUME NEW n \in DOMAIN program.nodes, NEW S, n \in S, IsProgram(program)
  PROVE  Binds(program, S, Symbol("function", n, 0, n)) /\ Symbol("function", n, 0, n).node = n
BY DEF Binds, Symbol, SymbolsOf, Kinds

LEMMA GenExternInv == ASSUME SessionInv, GenExtern PROVE SessionInv'
<1> DEFINE S == FunctionsBound \cup {This}
           s == Symbol("function", This, 0, This)
<1>1. /\ Generates("gen") /\ program.nodes[This].tag = "extern" /\ Then(<<>>) /\ Return(TRUE)
      /\ building' = building /\ invalid' = invalid
      /\ holders' = AddToModule(This_name, This) /\ table' = InsertInto(table, This_name, s)
      /\ phase = "generate" /\ agenda # <<>>
      /\ UNCHANGED <<session, phase, checked>>
      /\ program' = program /\ AllNodes' = AllNodes /\ Nodes' = Nodes
  BY DEF GenExtern, At, Doing, OnlyGenerates, Generates, Nodes, AllNodes, session
<1>2. /\ table \in Seq(FramesOf(program, FunctionsBound)) /\ table # <<>>
      /\ This \in DOMAIN program.nodes /\ This \in AllNodes /\ IsProgram(program)
      /\ This_name = program.nodes[This].name
  BY <1>1, GenerateFacts
<1>3. table \in Seq(FramesOf(program, S))
  BY <1>2, MoreFrames
<1>4. Binds(program, S, s) /\ s.node = This
  BY <1>2, FunctionBinds
<1>5. This \notin Begun
  BY <1>1, ThisIsFresh
<1> HIDE DEF S, s
<1>6. /\ table' \in Seq(FramesOf(program, S)) /\ Len(table') = Len(table) /\ table' # <<>>
  <2>1. table' = InsertInto(table, program.nodes[s.node].name, s)
    BY <1>1, <1>2, <1>4
  <2>2. QED
    BY <1>2, <1>3, <1>4, <2>1, InsertFrames
<1>7. Works /\ values' \in Seq(BOOLEAN)
  BY <1>1, <1>6, ReturnWorks
<1>8. FunctionsBound' \subseteq FunctionsBound \cup {This}
  BY <1>1, <1>6, FramesGive DEF S
<1>9. Begun' \subseteq Begun \cup {This}
  BY <1>1, <1>8 DEF Begun
<1>10. \A x \in DOMAIN holders' :
         \/ x \in DOMAIN holders /\ holders'[x] = holders[x]
         \/ holders'[x] = This
  BY <1>1, <1>2, ModuleGets
<1>11. FunctionsSound'
  <2>1. FunctionsSound /\ Nodes[This].tag = "extern"
    BY <1>1 DEF SessionInv, Nodes
  <2>2. This \notin invalid \cup Range(building)
    BY <2>1 DEF FunctionsSound
  <2>3. \A n \in FunctionsBound' :
          Nodes[n].tag \in {"fn", "extern"} /\ n \notin invalid \cup Range(building)
    BY <1>8, <2>1, <2>2 DEF FunctionsSound
  <2>4. \A x \in DOMAIN holders' : holders'[x] \in invalid => holders'[x] \in Range(building)
    BY <1>10, <2>1, <2>2 DEF FunctionsSound
  <2>5. QED
    BY <1>1, <2>1, <2>3, <2>4 DEF FunctionsSound
<1>12. /\ \A i \in DOMAIN agenda' : \A m \in Starts(program, agenda'[i]) : This < m
       /\ \A j \in Later : This < program.inputs[j]
  <2>1. <<>> \in Seq(TasksOf(program)) /\ DOMAIN <<>> = {}
    OBVIOUS
  <2>2. QED
    BY <1>1, <2>1, StartsAfter
<1>13. /\ building' \in Seq(AllNodes) /\ building' # <<>>
       /\ \A i, j \in DOMAIN building' : i # j => building'[i] # building'[j]
       /\ invalid' \subseteq AllNodes
       /\ \A name \in DOMAIN holders' : holders'[name] \in AllNodes
  BY <1>1, <1>2, <1>10, BuildingFacts DEF SessionInv, SessionTypes, BegunOnce
<1>14. QED
  BY <1>1, <1>6, <1>7, <1>9, <1>11, <1>12, <1>13, GenerateStep

LEMMA GenFunctionInv == ASSUME SessionInv, GenFunction PROVE SessionInv'
<1> DEFINE n == Len(program.nodes[This].kids)
           k == program.nodes[This].kids[n]
           b == DoTask("end", This)
           tasks == <<Gen(k), b>>
<1>1. /\ Generates("gen") /\ program.nodes[This].tag = "fn"
      /\ Then(<<Gen(LastKid(This)), DoTask("end", This)>>)
      /\ building' = <<This>> \o building /\ invalid' = invalid /\ values' = values
      /\ holders' = AddToModule(This_name, This) /\ table' = WithParameters(table, This)
      /\ phase = "generate" /\ agenda # <<>>
      /\ UNCHANGED <<session, phase, checked>>
      /\ program' = program /\ AllNodes' = AllNodes /\ Nodes' = Nodes
  BY DEF GenFunction, At, Doing, OnlyGenerates, Generates, Nodes, AllNodes, session
<1>2. /\ table \in Seq(FramesOf(program, FunctionsBound)) /\ table # <<>>
      /\ This \in DOMAIN program.nodes /\ This \in AllNodes /\ IsProgram(program)
      /\ building \in Seq(AllNodes) /\ values \in Seq(BOOLEAN) /\ Len(values) \in Nat
      /\ Len(table) \in Nat /\ Len(table) > 0
      /\ Now' = Depth(Len(table'), Len(values'), building')
      /\ Task.node = This /\ Task.do = "gen"
  BY <1>1, GenerateFacts DEF Generates
<1>3. building # <<>> /\ Range(building) \subseteq AllNodes
  BY <1>1, BuildingFacts
<1>4. This \notin Begun /\ This \notin FunctionsBound /\ This \notin Range(building)
  BY <1>1, ThisIsFresh DEF Begun, Nodes
<1>5. /\ n \in Nat /\ n >= 1 /\ n \in Nat \ {0} /\ LastKid(This) = k /\ kid(This, n) = k
  <2>1. n \in Nat /\ n >= 1
    BY <1>1, <1>2, ThisFits, NodeFacts
  <2>2. QED
    BY <2>1 DEF LastKid, Last, kid, Nodes
<1>6. /\ table' \in Seq(FramesOf(program, FunctionsBound)) /\ Len(table') = Len(table) + 1
      /\ table' # <<>>
  <2>1. Parameters(This) >= 0
    BY <1>5 DEF Parameters, Nodes
  <2>2. /\ table' \in Seq(FramesOf(program, FunctionsBound)) /\ Len(table') = Len(table) + 1
    BY <1>1, <1>2, <2>1, ParametersFrames
  <2>3. QED
    BY <1>2, <2>2
<1>7. /\ building' \in Seq(AllNodes) /\ Len(building') = Len(building) + 1
      /\ Head(building') = This /\ Tail(building') = building /\ building' # <<>>
      /\ building'[1] = This /\ DOMAIN building' = 1 .. Len(building) + 1
      /\ \A i \in 1 .. Len(building) : building'[i + 1] = building[i]
      /\ Len(building) \in Nat /\ Len(building) >= 1 /\ DOMAIN building = 1 .. Len(building)
  <2> DEFINE one == <<This>>
  <2>1. one \in Seq(AllNodes) /\ Len(one) = 1 /\ one[1] = This /\ building' = one \o building
    BY <1>1, <1>2
  <2> HIDE DEF one
  <2>2. one \in Seq(AllNodes) /\ building \in Seq(AllNodes)
    BY <1>2, <2>1
  <2>3. /\ one \o building \in Seq(AllNodes) /\ Len(one \o building) = Len(one) + Len(building)
        /\ \A i \in 1 .. Len(one) : (one \o building)[i] = one[i]
        /\ \A i \in 1 .. Len(building) : (one \o building)[Len(one) + i] = building[i]
    BY <2>2, Joined
  <2>4. Len(building) \in Nat /\ Len(building) >= 1 /\ DOMAIN building = 1 .. Len(building)
    BY <1>2, <1>3
  <2>5. /\ building' \in Seq(AllNodes) /\ Len(building') = Len(building) + 1
        /\ building'[1] = This /\ building' # <<>>
        /\ \A i \in 1 .. Len(building) : building'[i + 1] = building[i]
    BY <2>1, <2>3, <2>4
  <2>6. DOMAIN building' = 1 .. Len(building) + 1 /\ Head(building') = This
    BY <2>5
  <2>7. Tail(building') = building
    <3>1. /\ Tail(building') \in Seq(AllNodes) /\ Len(Tail(building')) = Len(building') - 1
          /\ \A i \in 1 .. Len(Tail(building')) : Tail(building')[i] = building'[i + 1]
      BY <2>5, HeadTailProperties
    <3>2. Len(Tail(building')) = Len(building)
      BY <2>4, <2>5, <3>1
    <3>3. \A i \in 1 .. Len(building) : Tail(building')[i] = building[i]
      BY <2>5, <3>1, <3>2
    <3>4. QED
      BY <1>2, <3>1, <3>2, <3>3, SeqEqual
  <2>8. QED
    BY <2>4, <2>5, <2>6, <2>7
<1> HIDE DEF n
<1>8. Range(building') = Range(building) \cup {This}
  <2> DEFINE l == Len(building)
  <2>1. /\ l \in Nat /\ DOMAIN building = 1 .. l /\ DOMAIN building' = 1 .. l + 1
        /\ \A x \in 1 .. l : building'[x + 1] = building[x]
        /\ building'[1] = This
    BY <1>7
  <2> HIDE DEF l
  <2>2. ASSUME NEW m \in Range(building) PROVE m \in Range(building')
    <3>1. PICK x \in 1 .. l : m = building[x]
      BY <2>1 DEF Range
    <3>2. x + 1 \in 1 .. l + 1 /\ m = building'[x + 1]
      BY <2>1, <3>1
    <3>3. QED
      BY <2>1, <3>2 DEF Range
  <2>3. ASSUME NEW m \in Range(building') PROVE m \in Range(building) \cup {This}
    <3>1. PICK x \in 1 .. l + 1 : m = building'[x]
      BY <2>1 DEF Range
    <3>2. CASE x = 1
      BY <2>1, <3>1, <3>2
    <3>3. CASE x # 1
      <4>1. x - 1 \in 1 .. l /\ (x - 1) + 1 = x
        BY <2>1, <3>3
      <4>2. m = building[x - 1]
        BY <2>1, <3>1, <4>1
      <4>3. QED
        BY <2>1, <4>1, <4>2 DEF Range
    <3>4. QED
      BY <3>2, <3>3
  <2>4. This \in Range(building')
    <3>1. 1 \in 1 .. l + 1
      BY <2>1
    <3>2. QED
      BY <2>1, <3>1 DEF Range
  <2>5. QED
    BY <2>2, <2>3, <2>4
<1>9. b.do = "end" /\ b.node = This /\ Starts(program, b) = {} /\ Fits(program, b)
  BY <1>1 DEF DoTask, Starts, Fits
<1>10. Works
  <2> DEFINE s == Depth(Len(table'), Len(values') + 1, building')
  <2>1. \E l \in Starts(program, Task) : l <= program.nodes[This].kids[n]
    BY <1>1, <1>5, ComesTo DEF n
  <2>2. Now' \in Depths
    <3>1. building' \in Seq(Nat)
      <4>1. AllNodes \subseteq Nat
        BY <1>2, NodeFacts DEF AllNodes, Nodes
      <4>2. QED
        BY <1>7, <4>1, SeqMonotonic
    <3>2. Len(table') \in Nat /\ Len(values') \in Nat
      BY <1>1, <1>2, <1>6
    <3>3. QED
      BY <1>2, <3>1, <3>2 DEF Depths, Depth
  <2>3. s.frames = Len(table) + 1 /\ s.results = Len(values) + 1 /\ s.stack = building'
    BY <1>1, <1>6 DEF Depth
  <2> HIDE DEF s, b
  <2>4. Needs(program, b) = 1 /\ Makes(b) = 1 /\ Needs(program, Task) = 0 /\ Makes(Task) = 1
    BY <1>2, <1>9, TaskMeanings
  <2>5. /\ 1 <= Len(values) + 1 /\ Len(table) + 1 > 1 /\ Len(building') > 1
        /\ (Len(values) + 1) - 1 + 1 = Len(values) - 0 + 1 /\ (Len(table) + 1) - 1 = Len(table)
    BY <1>2, <1>7
  <2>6. Ready(program, s, b)
    BY <1>7, <1>9, <2>3, <2>4, <2>5 DEF Ready
  <2>7. After(program, s, b) = After(program, Now, Task)
    <3>1. After(program, s, b) = Depth(Len(table), (Len(values) + 1) - 1 + 1, building)
      BY <1>7, <1>9, <2>3, <2>4, <2>5 DEF After, Closing
    <3>2. After(program, Now, Task) = Depth(Len(table), Len(values) - 0 + 1, building)
      BY <1>1, <2>4, AfterTask DEF Closing
    <3>3. QED
      BY <2>5, <3>1, <3>2
  <2> DEFINE do == "gen"
             next == "end"
  <2>8. /\ Generates(do) /\ do \in Covering /\ next \in Dos \ {"gen", "arm", "enter"}
        /\ b = DoTask(next, This) /\ Then(<<Gen(kid(This, n)), b>>)
    BY <1>1, <1>5 DEF b, Covering, Dos
  <2>9. n \in Nat \ {0} /\ Len(program.nodes[This].kids) >= n
    BY <1>5 DEF n
  <2> HIDE DEF do, next
  <2>10. QED
    BY <1>9, <2>1, <2>2, <2>6, <2>7, <2>8, <2>9, KidThen DEF s
<1>11. FunctionsBound' \subseteq FunctionsBound
  BY <1>1, <1>6, FramesGive
<1>12. Begun' \subseteq Begun \cup {This}
  BY <1>1, <1>8, <1>11 DEF Begun
<1>13. \A x \in DOMAIN holders' :
         \/ x \in DOMAIN holders /\ holders'[x] = holders[x]
         \/ holders'[x] = This
  BY <1>1, <1>2, ModuleGets
<1>14. FunctionsSound'
  <2>1. FunctionsSound /\ Nodes[This].tag = "fn"
    BY <1>1 DEF SessionInv, Nodes
  <2>2. \A m \in FunctionsBound' :
          Nodes[m].tag \in {"fn", "extern"} /\ m \notin invalid \cup Range(building')
    BY <1>4, <1>8, <1>11, <2>1 DEF FunctionsSound
  <2>3. \A m \in invalid \cup Range(building') : Nodes[m].tag \in {"fn", "list"}
    BY <1>8, <2>1 DEF FunctionsSound
  <2>4. \A x \in DOMAIN holders' : holders'[x] \in invalid => holders'[x] \in Range(building')
    BY <1>8, <1>13, <2>1 DEF FunctionsSound
  <2>5. QED
    BY <1>1, <2>2, <2>3, <2>4 DEF FunctionsSound
<1>15. /\ \A i \in DOMAIN agenda' : \A m \in Starts(program, agenda'[i]) : This < m
       /\ \A j \in Later : This < program.inputs[j]
  <2>1. k \in DOMAIN program.nodes /\ This < k
    BY <1>2, <1>5, KidAt DEF n
  <2>2. /\ Gen(k) \in TasksOf(program) /\ b \in TasksOf(program) /\ Starts(program, Gen(k)) = {k}
    BY <1>2, <1>9, <2>1 DEF TasksOf, Fits, Gen, DoTask, Dos, Starts
  <2>3. tasks \in Seq(TasksOf(program))
    BY <2>2
  <2>4. \A i \in DOMAIN tasks : \A m \in Starts(program, tasks[i]) : This < m
    <3> DEFINE a == Gen(k)
    <3>1. Starts(program, a) = {k} /\ Starts(program, b) = {}
      BY <1>9, <2>2
    <3> HIDE DEF a, b
    <3>2. DOMAIN <<a, b>> = {1, 2} /\ <<a, b>>[1] = a /\ <<a, b>>[2] = b
      OBVIOUS
    <3>3. \A i \in DOMAIN <<a, b>> : \A m \in Starts(program, <<a, b>>[i]) : This < m
      BY <2>1, <3>1, <3>2
    <3>4. QED
      BY <3>3 DEF a
  <2>5. Then(tasks)
    BY <1>1, <1>5
  <2> HIDE DEF tasks
  <2>6. QED
    BY <1>1, <2>3, <2>4, <2>5, StartsAfter
<1>16. ASSUME NEW i \in DOMAIN building', NEW j \in DOMAIN building', i # j
       PROVE  building'[i] # building'[j]
  <2>1. \A x, y \in DOMAIN building : x # y => building[x] # building[y]
    BY DEF SessionInv, BegunOnce
  <2>2. \A x \in DOMAIN building : building[x] # This
    BY <1>4 DEF Range
  <2>3. \A x \in DOMAIN building' : x # 1 => /\ x - 1 \in DOMAIN building
                                             /\ building'[x] = building[x - 1]
    <3> DEFINE l == Len(building)
    <3>1. /\ l \in Nat /\ DOMAIN building = 1 .. l /\ DOMAIN building' = 1 .. l + 1
          /\ \A x \in 1 .. l : building'[x + 1] = building[x]
      BY <1>7
    <3> HIDE DEF l
    <3>2. \A x \in 1 .. l + 1 : x # 1 => x - 1 \in 1 .. l /\ (x - 1) + 1 = x
      BY <3>1
    <3>3. QED
      BY <3>1, <3>2
  <2>4. i \in Int /\ j \in Int
    BY <1>7
  <2>5. CASE i = 1 \/ j = 1
    BY <1>7, <1>16, <2>2, <2>3, <2>5
  <2>6. CASE i # 1 /\ j # 1
    <3>1. i - 1 # j - 1
      BY <1>16, <2>4
    <3>2. QED
      BY <2>1, <2>3, <2>6, <3>1
  <2>7. QED
    BY <2>5, <2>6
<1>17. /\ invalid' \subseteq AllNodes
       /\ \A name \in DOMAIN holders' : holders'[name] \in AllNodes
  BY <1>1, <1>2, <1>13 DEF SessionInv, SessionTypes
<1>18. QED
  BY <1>1, <1>2, <1>6, <1>7, <1>10, <1>12, <1>14, <1>15, <1>16, <1>17, GenerateStep

LEMMA EndFunctionInv == ASSUME SessionInv, EndFunction PROVE SessionInv'
<1> DEFINE s == Symbol("function", This, 0, This)
           out == ExitScope(table)
           S == FunctionsBound \cup {This}
<1>1. PICK valid \in {FALSE, Result /\ This \notin invalid} :
        /\ table' = IF valid /\ This_name # Anonymous
                    THEN InsertInto(out, This_name, s) ELSE out
        /\ holders' = IF valid THEN holders ELSE DeleteFunction(This)
        /\ invalid' = IF valid THEN invalid ELSE invalid \cup {This}
        /\ building' = Tail(building)
        /\ Replace(1, valid)
        /\ Then(<<>>)
  BY DEF EndFunction
<1>2. /\ Generates("end") /\ phase = "generate" /\ agenda # <<>>
      /\ UNCHANGED <<session, phase, checked>>
      /\ program' = program /\ AllNodes' = AllNodes /\ Nodes' = Nodes
  BY DEF EndFunction, Doing, OnlyGenerates, Generates, Nodes, AllNodes, session
<1>3. /\ This \in DOMAIN program.nodes /\ This \in AllNodes /\ IsProgram(program)
      /\ building \in Seq(AllNodes) /\ values \in Seq(BOOLEAN) /\ Len(values) \in Nat
      /\ This_name = program.nodes[This].name /\ Task.node = This /\ Task.do = "end"
      /\ Len(building) > 1 /\ Head(building) = This
  BY <1>2, GenerateFacts, AfterTask DEF Generates
<1>4. Needs(program, Task) = 1 /\ 1 <= Len(values)
  <2>1. Needs(program, Task) = 1
    BY <1>3, TaskMeanings
  <2>2. QED
    BY <1>2, <2>1, AfterTask
<1>5. valid \in BOOLEAN
  <2>1. Result \in BOOLEAN
    <3>1. 1 \in 1 .. Len(values) /\ values # <<>>
      BY <1>3, <1>4
    <3>2. values[1] \in BOOLEAN
      BY <1>3, <3>1
    <3>3. Head(values) = values[1]
      BY <1>3, <3>1
    <3>4. QED
      BY <3>2, <3>3 DEF Result
  <2>2. (Result /\ This \notin invalid) \in BOOLEAN
    OBVIOUS
  <2>3. QED
    BY <2>2
<1>6. /\ out \in Seq(FramesOf(program, FunctionsBound)) /\ out # <<>>
      /\ Len(out) = Len(table) - 1
  BY <1>2, LeaveTable DEF Closing
<1>7. /\ building # <<>> /\ Range(building) \subseteq AllNodes
      /\ Nodes[This].tag = "fn"
  <2>1. Fits(program, Task)
    BY <1>2, TaskAtHand DEF Generates
  <2>2. QED
    BY <1>2, <1>3, <2>1, BuildingFacts DEF Fits, Nodes
<1> HIDE DEF out, S, s
<1>8. /\ DOMAIN building = 1 .. Len(building) /\ Len(building) \in Nat /\ building[1] = This
      /\ building' \in Seq(AllNodes) /\ Len(building') = Len(building) - 1
      /\ \A i \in 1 .. Len(building') : building'[i] = building[i + 1]
      /\ building' # <<>>
  <2>1. /\ Tail(building) \in Seq(AllNodes) /\ Len(Tail(building)) = Len(building) - 1
        /\ \A i \in 1 .. Len(Tail(building)) : Tail(building)[i] = building[i + 1]
    BY <1>3, <1>7, HeadTailProperties
  <2>2. Len(building) \in Nat /\ Len(building) > 1
    BY <1>3
  <2>3. Tail(building) # <<>>
    <3> DEFINE l == Len(building)
               m == Len(Tail(building))
    <3>1. l \in Nat /\ l > 1 /\ m = l - 1
      BY <2>1, <2>2
    <3> HIDE DEF l, m
    <3>2. m # 0
      BY <3>1
    <3>3. \A rest \in Seq(AllNodes) : Len(rest) # 0 => rest # <<>>
      OBVIOUS
    <3>4. QED
      BY <2>1, <3>2, <3>3 DEF m
  <2>4. QED
    BY <1>1, <1>3, <2>1, <2>3
<1>9. \A i, j \in DOMAIN building : i # j => building[i] # building[j]
  BY DEF SessionInv, BegunOnce
<1>10. DOMAIN building' \subseteq Nat /\ \A i \in DOMAIN building' :
         i + 1 \in DOMAIN building /\ i + 1 # 1 /\ building'[i] = building[i + 1]
  <2> DEFINE l == Len(building)
  <2>1. /\ l \in Nat /\ DOMAIN building = 1 .. l /\ DOMAIN building' = 1 .. Len(building')
        /\ Len(building') = l - 1 /\ \A i \in 1 .. Len(building') : building'[i] = building[i + 1]
    BY <1>8
  <2> HIDE DEF l
  <2>2. QED
    BY <2>1
<1>11. \A i, j \in DOMAIN building' : i # j => building'[i] # building'[j]
  BY <1>9, <1>10
<1>12. Range(building') \subseteq Range(building) \ {This}
  <2>1. 1 \in DOMAIN building
    BY <1>3, <1>8
  <2>2. QED
    BY <1>8, <1>9, <1>10, <2>1 DEF Range
<1>13. Range(building) = Range(building') \cup {This}
  <2>1. ASSUME NEW m \in Range(building), m # This PROVE m \in Range(building')
    <3> DEFINE l == Len(building)
    <3>1. /\ l \in Nat /\ DOMAIN building = 1 .. l /\ DOMAIN building' = 1 .. l - 1
          /\ \A i \in 1 .. l - 1 : building'[i] = building[i + 1]
      BY <1>8
    <3> HIDE DEF l
    <3>2. PICK x \in 1 .. l : m = building[x]
      BY <3>1 DEF Range
    <3>3. x # 1
      BY <1>8, <2>1, <3>2
    <3>4. x - 1 \in 1 .. l - 1 /\ (x - 1) + 1 = x
      BY <3>1, <3>3
    <3>5. building'[x - 1] = m
      BY <3>1, <3>2, <3>4
    <3>6. QED
      BY <3>1, <3>4, <3>5 DEF Range
  <2>2. This \in Range(building)
    <3>1. 1 \in DOMAIN building
      BY <1>3, <1>8
    <3>2. QED
      BY <1>8, <3>1 DEF Range
  <2>3. QED
    BY <1>12, <2>1, <2>2
<1>14. FunctionsSound /\ This \notin FunctionsBound
  BY <1>13 DEF SessionInv, FunctionsSound
<1>15. /\ table' \in Seq(FramesOf(program, IF valid THEN S ELSE FunctionsBound))
       /\ Len(table') = Len(table) - 1 /\ table' # <<>>
  <2>1. CASE ~(valid /\ This_name # Anonymous)
    <3>1. table' = out
      BY <1>1, <2>1
    <3>2. out \in Seq(FramesOf(program, S))
      BY <1>6, MoreFrames DEF S
    <3>3. QED
      BY <1>6, <3>1, <3>2
  <2>2. CASE valid /\ This_name # Anonymous
    <3>1. table' = InsertInto(out, This_name, s)
      BY <1>1, <2>2
    <3>2. Binds(program, S, s) /\ s.node = This
      BY <1>3, FunctionBinds DEF S, s
    <3>3. out \in Seq(FramesOf(program, S))
      BY <1>6, MoreFrames DEF S
    <3>4. table' = InsertInto(out, program.nodes[s.node].name, s)
      BY <1>3, <3>1, <3>2
    <3>5. table' \in Seq(FramesOf(program, S)) /\ Len(table') = Len(out) /\ table' # <<>>
      BY <1>6, <3>2, <3>3, <3>4, InsertFrames
    <3>6. QED
      BY <1>6, <2>2, <3>5
  <2>3. QED
    BY <2>1, <2>2
<1>16. FunctionsBound' \subseteq IF valid THEN S ELSE FunctionsBound
  <2> DEFINE F == IF valid THEN S ELSE FunctionsBound
  <2>1. table' \in Seq(FramesOf(program, F))
    BY <1>15
  <2> HIDE DEF F
  <2>2. FunctionsBound' \subseteq F
    BY <1>2, <2>1, FramesGive
  <2>3. QED
    BY <2>2 DEF F
<1>17. Begun' \subseteq Begun
  <2>1. This \in Begun
    BY <1>7, <1>13 DEF Begun
  <2>2. FunctionsBound' \subseteq FunctionsBound \cup {This}
    BY <1>16 DEF S
  <2>3. QED
    BY <1>2, <1>12, <2>1, <2>2 DEF Begun
<1>18. Works /\ values' \in Seq(BOOLEAN)
  <2> DEFINE do == "end"
  <2>1. /\ do \in {"list", "call", "matched", "end"} /\ do = "end" /\ do \in Closing
        /\ Generates(do)
    BY <1>2 DEF Closing
  <2> HIDE DEF do
  <2>2. QED
    BY <1>1, <1>4, <1>5, <1>15, <2>1, ReplaceWorks
<1>19. \A x \in DOMAIN holders' : /\ x \in DOMAIN holders /\ holders'[x] = holders[x]
                                  /\ valid \/ holders'[x] # This
  BY <1>1 DEF DeleteFunction, Restrict
<1>20. /\ invalid' \subseteq invalid \cup {This}
       /\ valid => invalid' = invalid /\ This \notin invalid
  BY <1>1
<1>21. FunctionsSound'
  <2>1. \A n \in FunctionsBound' :
          Nodes[n].tag \in {"fn", "extern"} /\ n \notin invalid' \cup Range(building')
    <3>1. CASE valid
      BY <1>7, <1>12, <1>14, <1>16, <1>20, <3>1 DEF FunctionsSound, S
    <3>2. CASE ~valid
      BY <1>12, <1>14, <1>16, <1>20, <3>2 DEF FunctionsSound
    <3>3. QED
      BY <3>1, <3>2
  <2>2. \A n \in invalid' \cup Range(building') : Nodes[n].tag \in {"fn", "list"}
    BY <1>7, <1>12, <1>14, <1>20 DEF FunctionsSound
  <2>3. ASSUME NEW x \in DOMAIN holders', holders'[x] \in invalid'
        PROVE  holders'[x] \in Range(building')
    <3>1. x \in DOMAIN holders /\ holders'[x] = holders[x] /\ (valid \/ holders'[x] # This)
      BY <1>19
    <3>2. holders'[x] \in invalid /\ holders'[x] # This
      BY <1>20, <2>3, <3>1
    <3>3. holders'[x] \in Range(building)
      BY <1>14, <3>1, <3>2 DEF FunctionsSound
    <3>4. QED
      BY <1>13, <3>2, <3>3
  <2>4. QED
    BY <1>2, <2>1, <2>2, <2>3 DEF FunctionsSound
<1>22. /\ invalid' \subseteq AllNodes
       /\ \A name \in DOMAIN holders' : holders'[name] \in AllNodes
  BY <1>3, <1>19, <1>20 DEF SessionInv, SessionTypes
<1> DEFINE F == IF valid THEN S ELSE FunctionsBound
<1>23. table' \in Seq(FramesOf(program, F)) /\ table' # <<>>
  BY <1>15
<1> HIDE DEF F
<1>24. QED
  BY <1>2, <1>8, <1>11, <1>17, <1>18, <1>21, <1>22, <1>23, GenerateStep

LEMMA GenerateInv == ASSUME SessionInv, Generate PROVE SessionInv'
BY GenLiteralInv, GenIdentifierInv, GenMissingParamInv, GenOperandInv, GenUseInv, GenListInv,
   EndListInv, ReassignInv, AssignNewInv, GenDeclarationInv, GenIfInv, GenThenInv, GenElseInv,
   JoinBranchesInv, GenMatchInv, GenPatternInv, TestArmInv, EnterArmInv, LeaveArmInv, EndMatchInv,
   GenFunctionInv, EndFunctionInv, GenExternInv, GenCallInv, EndCallInv DEF Generate

-----------------------------------------------------------------------------
(* The steps of the session.                                               *)

LEMMA InputFacts ==
  ASSUME NEW p, IsProgram(p), NEW i \in DOMAIN p.inputs
  PROVE  /\ p.inputs[i] \in DOMAIN p.nodes /\ p.inputs[i] \in Nat
         /\ p.nodes[p.inputs[i]].tag = "list"
         /\ Len(p.inputs) \in Nat /\ DOMAIN p.inputs = 1 .. Len(p.inputs)
         /\ \A j \in DOMAIN p.inputs : i < j => TreeEnds(p)[p.inputs[i]] < p.inputs[j]
<1>1. /\ p.inputs \in Seq(DOMAIN p.nodes)
      /\ \A j \in DOMAIN p.inputs : i < j => TreeEnds(p)[p.inputs[i]] < p.inputs[j]
      /\ p.nodes[p.inputs[i]].tag = "list"
  BY DEF IsProgram, InPreorder, HasParts
<1>2. p.inputs[i] \in DOMAIN p.nodes
  BY <1>1
<1>3. p.inputs[i] \in Nat
  BY <1>2, NodeFacts
<1>4. QED
  BY <1>1, <1>2, <1>3

\* The work is done.
LEMMA WorkDone ==
  ASSUME SessionInv, phase \in {"check", "generate"}, agenda = <<>>
  PROVE  AtEnd(Now)
<1>1. PICK r : Leads(program, Now, agenda, r) /\ AtEnd(r)
  BY DEF SessionInv, Balanced
<1>2. PICK plan : plan[0] = Now /\ plan[Len(agenda)] = r
  BY <1>1 DEF Leads
<1>3. Len(agenda) = 0
  OBVIOUS
<1>4. r = Now
  BY <1>2, <1>3
<1>5. QED
  BY <1>1, <1>4

LEMMA ReadInputInv == ASSUME SessionInv, ReadInput PROVE SessionInv'
<1> DEFINE root == program.inputs[input + 1]
           t == Check(root)
<1>1. /\ phase = "idle" /\ input < Len(program.inputs) /\ input' = input + 1 /\ phase' = "check"
      /\ agenda' = <<t>> /\ program' = program /\ checked' = checked /\ table' = table
      /\ holders' = holders /\ building' = building /\ invalid' = invalid /\ values' = values
      /\ AllNodes' = AllNodes /\ Nodes' = Nodes
  BY DEF ReadInput, tables, work, AllNodes, Nodes
<1>2. /\ IsProgram(program) /\ SessionTypes /\ Between /\ input \in 0 .. Len(program.inputs)
  BY ProgramIsProgram DEF SessionInv, SessionTypes
<1>3. Len(program.inputs) \in Nat /\ DOMAIN program.inputs = 1 .. Len(program.inputs)
  BY <1>2 DEF IsProgram, InPreorder
<1>4. input + 1 \in DOMAIN program.inputs /\ input \in Nat
  BY <1>1, <1>2, <1>3
<1>5. root \in DOMAIN program.nodes
  BY <1>2, <1>4, InputFacts
<1>6. t \in TasksOf(program) /\ t.do = "check" /\ Starts(program, t) = {}
  BY <1>5 DEF TasksOf, Fits, Check, DoTask, Dos, Starts
<1> HIDE DEF t, root
<1>7. /\ agenda' \in Seq(TasksOf(program)) /\ DOMAIN agenda' = {1} /\ agenda'[1] = t
  BY <1>1, <1>6
<1>8. Later' = Later
  <2> DEFINE n == Len(program.inputs)
             D == DOMAIN program.inputs
  <2>1. n \in Nat /\ D = 1 .. n
    BY <1>3
  <2> HIDE DEF n, D
  <2>2. \A j \in D : j > input <=> j > input + 1 \/ j = input + 1
    BY <1>4, <2>1
  <2>3. phase # "check"
    BY <1>1
  <2>4. \A j : j \in Later <=> j \in D /\ j > input
    BY <2>3 DEF Later, D
  <2>5. \A j : j \in Later' <=> j \in D /\ (j > input + 1 \/ j = input + 1)
    <3>1. phase' = "check" /\ input' = input + 1 /\ program' = program
      BY <1>1
    <3>2. QED
      BY <3>1 DEF Later, D
  <2>6. QED
    <3>1. \A j : j \in Later <=> j \in Later'
      BY <2>2, <2>4, <2>5
    <3>2. QED
      BY <3>1 DEF Later
<1>9. SessionTypes'
  BY <1>1, <1>2, <1>3, <1>4, <1>7 DEF SessionTypes
<1>10. /\ building = <<>> /\ values = <<>> /\ Len(table) <= 1 /\ Len(checked) = 1
       /\ checked # <<>>
  <2>1. building = <<>> /\ values = <<>> /\ Len(table) <= 1 /\ Len(checked) = 1
    BY <1>1, <1>2 DEF Between
  <2>2. checked # <<>>
    BY <2>1
  <2>3. QED
    BY <2>1, <2>2
<1>11. Between'
  BY <1>1, <1>4, <1>10 DEF Between
<1>12. Balanced'
  <2> DEFINE s == Depth(1, 0, <<>>)
  <2>1. Now' = s
    BY <1>1, <1>10 DEF Now
  <2>2. Needs(program, t) = 0 /\ Makes(t) = 0
    BY <1>6, TaskMeanings
  <2>3. s.frames = 1 /\ s.results = 0 /\ s.stack = <<>>
    BY DEF Depth
  <2> HIDE DEF s
  <2>4. Ready(program, s, t) /\ After(program, s, t) = s
    BY <1>6, <2>2, <2>3 DEF Ready, After, Closing, s
  <2>5. Leads(program, s, <<t>>, s)
    BY <2>4, OneLeads
  <2>6. AtEnd(s)'
    BY <1>1 DEF AtEnd, s
  <2>7. QED
    BY <1>1, <2>1, <2>5, <2>6 DEF Balanced
<1>13. InOrder'
  BY <1>1, <1>6, <1>7 DEF InOrder, Ordered, Covering
<1>14. FunctionsBound' = FunctionsBound /\ Begun' = Begun
  BY <1>1 DEF FunctionsBound, IsFunction, Begun
<1>15. BegunOnce'
  BY <1>1, <1>6, <1>7, <1>8, <1>14 DEF SessionInv, BegunOnce
<1>16. FunctionsSound'
  BY <1>1, <1>14 DEF SessionInv, FunctionsSound
<1>17. QED
  BY <1>9, <1>11, <1>12, <1>13, <1>15, <1>16 DEF SessionInv

LEMMA RejectInv == ASSUME SessionInv, Reject PROVE SessionInv'
<1>1. /\ phase = "check" /\ agenda = <<>> /\ phase' \in {"idle", "exited"}
      /\ agenda' = agenda /\ program' = program /\ input' = input
      /\ checked' = checked /\ table' = table
      /\ holders' = holders /\ building' = building /\ invalid' = invalid /\ values' = values
      /\ AllNodes' = AllNodes /\ Nodes' = Nodes
  BY DEF Reject, tables, work, session, AllNodes, Nodes
<1>2. SessionTypes /\ Between /\ InOrder /\ BegunOnce /\ FunctionsSound
  BY DEF SessionInv
<1>3. Len(checked) = 1
  <2>1. Now = Depth(1, 0, <<>>)
    BY <1>1, WorkDone DEF AtEnd
  <2>2. QED
    BY <1>1, <2>1 DEF Now, Depth
<1>4. SessionTypes' /\ Between'
  BY <1>1, <1>2, <1>3 DEF SessionTypes, Between
<1>5. Balanced'
  BY <1>1 DEF Balanced
<1>6. Later' \subseteq Later
  BY <1>1 DEF Later
<1>7. InOrder'
  BY <1>1, <1>2, <1>6 DEF InOrder
<1>8. FunctionsBound' = FunctionsBound /\ Begun' = Begun
  BY <1>1 DEF FunctionsBound, IsFunction, Begun
<1>9. BegunOnce' /\ FunctionsSound'
  BY <1>1, <1>2, <1>6, <1>8 DEF BegunOnce, FunctionsSound
<1>10. QED
  BY <1>4, <1>5, <1>7, <1>9 DEF SessionInv

LEMMA AcceptInv == ASSUME SessionInv, Accept PROVE SessionInv'
<1> DEFINE t == Gen(Root)
<1>1. /\ phase = "check" /\ agenda = <<>> /\ phase' = "generate"
      /\ holders' = AddToModule("main", Root) /\ table' = EnterScope(table)
      /\ building' = <<Root>> /\ agenda' = <<t>> /\ program' = program /\ input' = input
      /\ checked' = checked /\ invalid' = invalid /\ values' = values
      /\ AllNodes' = AllNodes /\ Nodes' = Nodes /\ Root' = Root
  BY DEF Accept, session, AllNodes, Nodes, Root
<1>2. /\ SessionTypes /\ Between /\ BegunOnce /\ FunctionsSound /\ IsProgram(program)
      /\ input \in DOMAIN program.inputs /\ building = <<>> /\ values = <<>> /\ Len(table) <= 1
      /\ checked # <<>>
  BY <1>1, ProgramIsProgram DEF SessionInv, Between
<1>3. Len(checked) = 1
  <2>1. Now = Depth(1, 0, <<>>)
    BY <1>1, WorkDone DEF AtEnd
  <2>2. QED
    BY <1>1, <2>1 DEF Now, Depth
<1>4. /\ Root \in DOMAIN program.nodes /\ Root \in AllNodes /\ Root \in Nat
      /\ Nodes[Root].tag = "list"
      /\ \A j \in DOMAIN program.inputs : input < j => TreeEnds(program)[Root] < program.inputs[j]
      /\ DOMAIN program.inputs \subseteq Nat
  BY <1>2, InputFacts DEF Root, AllNodes, Nodes
<1>5. t \in TasksOf(program) /\ t.do = "gen" /\ t.node = Root /\ Starts(program, t) = {Root}
  BY <1>4 DEF TasksOf, Fits, Gen, DoTask, Dos, Starts
<1> HIDE DEF t
<1>6. /\ agenda' \in Seq(TasksOf(program)) /\ DOMAIN agenda' = {1} /\ agenda'[1] = t
  BY <1>1, <1>5
<1>7. /\ building' \in Seq(AllNodes) /\ Range(building') = {Root} /\ DOMAIN building' = {1}
      /\ building' # <<>>
  BY <1>1, <1>4 DEF Range
<1>8. /\ table' \in Seq(FramesOf(program, FunctionsBound)) /\ table' # <<>>
      /\ Len(table') = Len(table) + 1
  BY <1>1, TableFrames, EmptyIsFrame, EnterFrames
<1>9. /\ table' \in Seq(TableScopes(program)) /\ FunctionsBound' \subseteq FunctionsBound
  BY <1>1, <1>8, FramesGive
<1>10. \A x \in DOMAIN holders' :
         \/ x \in DOMAIN holders /\ holders'[x] = holders[x]
         \/ holders'[x] = Root
  BY <1>1, <1>4, ModuleGets
<1>11. SessionTypes'
  BY <1>1, <1>2, <1>4, <1>6, <1>7, <1>9, <1>10 DEF SessionTypes
<1>12. Between'
  BY <1>1, <1>2, <1>3, <1>7, <1>8 DEF Between
<1>13. Balanced'
  <2> DEFINE n == Len(table)
             s == Depth(n + 1, 0, <<Root>>)
             r == Depth(n + 1, 1, <<Root>>)
  <2>1. n \in Nat /\ n <= 1
    BY <1>2 DEF SessionTypes
  <2>2. Now' = s
    BY <1>1, <1>2, <1>8 DEF Now
  <2>3. Needs(program, t) = 0 /\ Makes(t) = 1
    BY <1>5, TaskMeanings
  <2>4. s.frames = n + 1 /\ s.results = 0 /\ s.stack = <<Root>>
    BY DEF Depth
  <2> HIDE DEF s, n
  <2>5. Ready(program, s, t) /\ After(program, s, t) = r
    BY <1>5, <2>3, <2>4 DEF Ready, After, Closing
  <2>6. Leads(program, s, <<t>>, r)
    BY <2>5, OneLeads
  <2>7. r.frames \in {1, 2} /\ r.results = 1 /\ r.stack = <<Root>>
    BY <2>1 DEF Depth, n
  <2>8. Leads(program', Now', agenda', r)
    BY <1>1, <2>2, <2>6
  <2> HIDE DEF r
  <2>9. QED
    BY <1>1, <2>7, <2>8 DEF Balanced, AtEnd
<1>14. /\ Later' \subseteq Later /\ input \in Later
       /\ \A j \in Later' : j \in DOMAIN program.inputs /\ input < j
  BY <1>1, <1>2, <1>4 DEF Later
<1>15. InOrder'
  <2>1. Ordered(program, agenda')
    BY <1>6 DEF Ordered
  <2>2. \A i \in DOMAIN agenda', j \in Later' :
          TreeEnds(program)[agenda'[i].node] < program.inputs[j]
    BY <1>4, <1>5, <1>6, <1>14
  <2>3. QED
    BY <1>1, <2>1, <2>2 DEF InOrder
<1>16. Begun' \subseteq Begun
  BY <1>1, <1>4, <1>7, <1>9 DEF Begun
<1>17. BegunOnce'
  <2>1. \A n \in Begun' : n < Root
    BY <1>2, <1>14, <1>16 DEF BegunOnce, Root
  <2>2. \A n \in Begun' : \A i \in DOMAIN agenda' : \A m \in Starts(program, agenda'[i]) : n < m
    BY <1>5, <1>6, <2>1
  <2>3. \A n \in Begun' : \A j \in Later' : n < program.inputs[j]
    BY <1>2, <1>14, <1>16 DEF BegunOnce
  <2>4. \A i, j \in DOMAIN building' : i # j => building'[i] # building'[j]
    BY <1>7
  <2>5. QED
    BY <1>1, <2>2, <2>3, <2>4 DEF BegunOnce
<1>18. FunctionsSound'
  <2>1. Range(building) = {}
    BY <1>2 DEF Range
  <2>2. \A n \in FunctionsBound' :
          Nodes[n].tag \in {"fn", "extern"} /\ n \notin invalid \cup Range(building')
    BY <1>2, <1>4, <1>7, <1>9 DEF FunctionsSound
  <2>3. \A n \in invalid \cup Range(building') : Nodes[n].tag \in {"fn", "list"}
    BY <1>2, <1>4, <1>7 DEF FunctionsSound
  <2>4. \A x \in DOMAIN holders' : holders'[x] \in invalid => holders'[x] \in Range(building')
    BY <1>2, <1>7, <1>10, <2>1 DEF FunctionsSound
  <2>5. QED
    BY <1>1, <2>2, <2>3, <2>4 DEF FunctionsSound
<1>19. QED
  BY <1>11, <1>12, <1>13, <1>15, <1>17, <1>18 DEF SessionInv

LEMMA EndInputInv == ASSUME SessionInv, EndInput PROVE SessionInv'
<1>1. /\ phase = "generate" /\ agenda = <<>> /\ phase' \in {"idle", "exited"}
      /\ table' = ExitScope(table) /\ building' = <<>> /\ values' = Tail(values)
      /\ \/ Root \notin invalid /\ holders' = holders /\ invalid' = invalid
         \/ holders' = DeleteFunction(Root) /\ invalid' = invalid \cup {Root}
      /\ agenda' = agenda /\ program' = program /\ input' = input /\ checked' = checked
      /\ AllNodes' = AllNodes /\ Nodes' = Nodes
  BY DEF EndInput, session, AllNodes, Nodes
<1>2. /\ SessionTypes /\ Between /\ BegunOnce /\ FunctionsSound /\ InOrder /\ IsProgram(program)
      /\ input \in DOMAIN program.inputs /\ table # <<>> /\ Len(checked) = 1
      /\ values \in Seq(BOOLEAN) /\ table \in Seq(TableScopes(program))
  BY <1>1, ProgramIsProgram DEF SessionInv, Between, SessionTypes
<1>3. /\ Len(table) \in {1, 2} /\ Len(values) = 1 /\ building = <<Root>>
  <2>1. AtEnd(Now)
    BY <1>1, WorkDone
  <2>2. /\ Now.frames = Len(table) /\ Now.results = Len(values) /\ Now.stack = building
    BY <1>1, NowIsDepth
  <2>3. QED
    BY <1>1, <2>1, <2>2 DEF AtEnd
<1>4. Root \in AllNodes /\ Nodes[Root].tag = "list" /\ Range(building) = {Root}
  BY <1>2, <1>3, InputFacts DEF Root, AllNodes, Nodes, Range
<1>5. values' \in Seq(BOOLEAN) /\ values' = <<>>
  <2>1. values = <<values[1]>>
    BY <1>2, <1>3, SingletonSequence
  <2>2. Tail(<<values[1]>>) = <<>>
    OBVIOUS
  <2>3. values' = <<>>
    BY <1>1, <2>1, <2>2
  <2>4. <<>> \in Seq(BOOLEAN)
    OBVIOUS
  <2>5. QED
    BY <2>3, <2>4
<1>6. /\ table' \in Seq(FramesOf(program, FunctionsBound)) /\ Len(table') <= 1
  <2>1. table \in Seq(FramesOf(program, FunctionsBound))
    BY TableFrames
  <2>2. /\ table' \in Seq(FramesOf(program, FunctionsBound))
        /\ Len(table') = IF Len(table) > 1 THEN Len(table) - 1 ELSE 1
    BY <1>1, <1>2, <2>1, ExitFrames
  <2> DEFINE n == Len(table)
             m == Len(table')
  <2>3. n \in {1, 2} /\ m = IF n > 1 THEN n - 1 ELSE 1
    BY <1>3, <2>2
  <2> HIDE DEF n, m
  <2>4. m <= 1
    BY <2>3
  <2>5. QED
    BY <2>2, <2>4 DEF m
<1>7. /\ table' \in Seq(TableScopes(program)) /\ FunctionsBound' \subseteq FunctionsBound
  BY <1>1, <1>6, FramesGive
<1>8. /\ \A x \in DOMAIN holders' : /\ x \in DOMAIN holders /\ holders'[x] = holders[x]
                                    /\ invalid' = invalid \/ holders'[x] # Root
      /\ (invalid' = invalid /\ Root \notin invalid) \/ invalid' = invalid \cup {Root}
      /\ invalid' = invalid => Root \notin invalid \/ \A x \in DOMAIN holders' : holders'[x] # Root
  BY <1>1 DEF DeleteFunction, Restrict
<1>9. SessionTypes'
  BY <1>1, <1>2, <1>4, <1>5, <1>7, <1>8 DEF SessionTypes
<1>10. Between' /\ Balanced'
  BY <1>1, <1>2, <1>5, <1>6 DEF Between, Balanced
<1>11. Later' \subseteq Later
  BY <1>1 DEF Later
<1>12. InOrder'
  BY <1>1, <1>2, <1>11 DEF InOrder
<1>13. Begun' \subseteq Begun /\ Range(building') = {} /\ DOMAIN building' = {}
  BY <1>1, <1>7 DEF Begun, Range
<1>14. BegunOnce'
  BY <1>1, <1>2, <1>11, <1>13 DEF BegunOnce
<1>15. FunctionsSound'
  <2>1. \A n \in FunctionsBound' : Nodes[n].tag \in {"fn", "extern"} /\ n \notin invalid'
    BY <1>2, <1>4, <1>7, <1>8 DEF FunctionsSound
  <2>2. \A n \in invalid' : Nodes[n].tag \in {"fn", "list"}
    BY <1>2, <1>4, <1>8 DEF FunctionsSound
  <2>3. ASSUME NEW x \in DOMAIN holders', holders'[x] \in invalid' PROVE FALSE
    BY <1>2, <1>4, <1>8, <2>3 DEF FunctionsSound
  <2>4. QED
    BY <1>1, <1>13, <2>1, <2>2, <2>3 DEF FunctionsSound
<1>16. QED
  BY <1>9, <1>10, <1>12, <1>14, <1>15 DEF SessionInv

-----------------------------------------------------------------------------
(* The theorems.                                                           *)

LEMMA InitInv == Init => SessionInv
<1> SUFFICES ASSUME Init PROVE SessionInv
  OBVIOUS
<1>1. /\ program \in Programs /\ input = 0 /\ phase = "idle" /\ agenda = <<>>
      /\ checked = <<Checked!Empty>> /\ table = <<>> /\ holders = [name \in {} |-> 0]
      /\ building = <<>> /\ invalid = {} /\ values = <<>>
  BY DEF Init
<1>2. IsProgram(program)
  BY <1>1, ProgramsAreTrees DEF IsProgram
<1>3. Len(program.inputs) \in Nat
  BY <1>2 DEF IsProgram, InPreorder
<1>4. Checked!Empty \in CheckedScopes(program)
  <2>1. Table!Empty \in CheckedScopes(program)
    BY EmptyIsFrame
  <2>2. QED
    BY <2>1 DEF Checked!Empty, Table!Empty
<1>5. DOMAIN holders = {}
  BY <1>1
<1>6. SessionTypes
  <2>1. checked \in Seq(CheckedScopes(program))
    BY <1>1, <1>4
  <2>2. 0 \in 0 .. Len(program.inputs)
    BY <1>3
  <2>3. QED
    BY <1>1, <1>5, <2>1, <2>2 DEF SessionTypes
<1>7. Between /\ Balanced
  BY <1>1 DEF Between, Balanced
<1>8. DOMAIN agenda = {} /\ DOMAIN building = {} /\ DOMAIN table = {} /\ Range(building) = {}
  BY <1>1 DEF Range
<1>9. InOrder
  BY <1>8 DEF InOrder, Ordered
<1>10. FunctionsBound = {} /\ Begun = {}
  BY <1>8 DEF FunctionsBound, Begun
<1>11. BegunOnce /\ FunctionsSound
  BY <1>1, <1>5, <1>8, <1>10 DEF BegunOnce, FunctionsSound
<1>12. QED
  BY <1>6, <1>7, <1>9, <1>11 DEF SessionInv

LEMMA NextInv == SessionInv /\ [Next]_vars => SessionInv'
<1> SUFFICES ASSUME SessionInv, [Next]_vars PROVE SessionInv'
  OBVIOUS
<1>1. CASE ReadInput
  BY <1>1, ReadInputInv
<1>2. CASE TypeCheck
  BY <1>2, TypeCheckInv
<1>3. CASE Reject
  BY <1>3, RejectInv
<1>4. CASE Accept
  BY <1>4, AcceptInv
<1>5. CASE Generate
  BY <1>5, GenerateInv
<1>6. CASE EndInput
  BY <1>6, EndInputInv
<1>7. CASE UNCHANGED vars
  <2>1. /\ program' = program /\ input' = input /\ phase' = phase /\ agenda' = agenda
        /\ checked' = checked /\ table' = table /\ holders' = holders /\ building' = building
        /\ invalid' = invalid /\ values' = values /\ AllNodes' = AllNodes /\ Nodes' = Nodes
        /\ Later' = Later /\ Root' = Root /\ Now' = Now
    BY <1>7 DEF vars, session, tables, work, AllNodes, Nodes, Later, Root, Now
  <2>2. SessionTypes' /\ Between' /\ InOrder'
    BY <2>1 DEF SessionInv, SessionTypes, Between, InOrder
  <2>3. Balanced'
    BY <2>1 DEF SessionInv, Balanced, AtEnd
  <2>4. FunctionsBound' = FunctionsBound /\ Begun' = Begun
    BY <2>1 DEF FunctionsBound, IsFunction, Begun
  <2>5. BegunOnce' /\ FunctionsSound'
    BY <2>1, <2>4 DEF SessionInv, BegunOnce, FunctionsSound
  <2>6. QED
    BY <2>2, <2>3, <2>5 DEF SessionInv
<1>8. QED
  BY <1>1, <1>2, <1>3, <1>4, <1>5, <1>6, <1>7 DEF Next

\* The inductive invariant holds.
THEOREM SessionInvHolds == Spec => []SessionInv
BY InitInv, NextInv, PTL DEF Spec

\* The type invariant of the session: what names, parameters and functions are bound to
\* in the tables of both passes (typecheck.c, codegen_symbol.c, codegen_function.c).
THEOREM SessionTypesHold == Spec => []TypeOK
BY SessionInvHolds, InvImpliesTypes, PTL

\* However an input ends, both passes have left every scope and function they entered
\* (enter_scope and exit_scope of either table, runner.c).
THEOREM SessionScopes == Spec => []ScopesAreLeft
BY SessionInvHolds, InvImpliesScopes, PTL

\* No name leads to a function that LLVM found invalid (codegen_function.c, after
\* LLVMDeleteFunction).
THEOREM SessionFunctions == Spec => []NoDanglingFunctions
BY SessionInvHolds, InvImpliesFunctions, PTL

-----------------------------------------------------------------------------
(* The outermost frame.                                                    *)

\* What the outermost scope of t binds, that of u binds to the same.
Kept(t, u) ==
  /\ u # <<>> /\ DOMAIN t[1] \subseteq DOMAIN u[1]
  /\ \A name \in DOMAIN t[1] : u[1][name] = t[1][name]

LEMMA KeptThen == ASSUME NEW t, NEW u, NEW w, Kept(t, u), Kept(u, w) PROVE Kept(t, w)
BY DEF Kept

LEMMA KeptAppend ==
  ASSUME NEW X, NEW t \in Seq(X), t # <<>>, NEW f
  PROVE  Kept(t, Append(t, f))
<1>1. Len(t) \in Nat /\ Len(t) > 0 /\ t \in Seq(X \cup {f})
  OBVIOUS
<1>2. Append(t, f)[1] = t[1] /\ Append(t, f) # <<>>
  BY <1>1, AppendProperties
<1>3. QED
  BY <1>2 DEF Kept

LEMMA KeptExit ==
  ASSUME NEW X, NEW t \in Seq(X), t # <<>>
  PROVE  Kept(t, ExitScope(t)) /\ ExitScope(t) \in Seq(X) /\ ExitScope(t) # <<>>
<1>1. CASE Len(t) > 1
  <2>1. ExitScope(t) = Front(t)
    BY <1>1 DEF ExitScope
  <2>2. Front(t) \in Seq(X) /\ Len(Front(t)) = Len(t) - 1 /\ Front(t)[1] = t[1]
    BY <1>1 DEF Front
  <2>3. Front(t) # <<>>
    BY <1>1, <2>2
  <2>4. QED
    BY <2>1, <2>2, <2>3 DEF Kept
<1>2. CASE ~(Len(t) > 1)
  BY <1>2 DEF ExitScope, Kept
<1>3. QED
  BY <1>1, <1>2

\* A name of a scope keeps its first binding.
LEMMA KeptInsert ==
  ASSUME NEW X, NEW t \in Seq(X), t # <<>>, NEW name, NEW symbol
  PROVE  Kept(t, InsertInto(t, name, symbol))
<1> DEFINE n == Len(t)
           g == Table!Bound(t[n], name, symbol)
           u == InsertInto(t, name, symbol)
<1>1. u = [t EXCEPT ![n] = g]
  BY DEF InsertInto
<1>2. n \in DOMAIN t /\ 1 \in DOMAIN t /\ DOMAIN t # {}
  OBVIOUS
<1>3. u # <<>>
  BY <1>1, <1>2
<1>4. \A x \in DOMAIN t[n] : x \in DOMAIN g /\ g[x] = t[n][x]
  BY DEF Table!Bound
<1> HIDE DEF g
<1>5. CASE n = 1
  BY <1>1, <1>2, <1>3, <1>4, <1>5 DEF Kept
<1>6. CASE n # 1
  BY <1>1, <1>2, <1>3, <1>6 DEF Kept
<1>7. QED
  BY <1>5, <1>6

LEMMA KeptStep ==
  ASSUME SessionInv, Next, table # <<>>
  PROVE  table' = table \/ Kept(table, table')
<1> DEFINE X == TableScopes(program)
           out == ExitScope(table)
<1>1. table \in Seq(X)
  BY DEF SessionInv, SessionTypes
<1>2. out \in Seq(X) /\ out # <<>> /\ Kept(table, out)
  BY <1>1, KeptExit
<1>3. \A f : Kept(table, Append(table, f)) /\ Kept(out, Append(out, f))
  BY <1>1, <1>2, KeptAppend
<1>4. \A name, s : Kept(table, InsertInto(table, name, s)) /\ Kept(out, InsertInto(out, name, s))
  BY <1>1, <1>2, KeptInsert
<1> HIDE DEF out
<1>5. \A f, name, s : Kept(table, Append(out, f)) /\ Kept(table, InsertInto(out, name, s))
  BY <1>2, <1>3, <1>4, KeptThen
<1>6. CASE ReadInput \/ Reject
  BY <1>6 DEF ReadInput, Reject, tables
<1>7. CASE TypeCheck
  BY <1>7 DEF TypeCheck, CheckInner, CheckIdentifier, CheckCall, CheckDeclaration,
              CheckAssignment, BindAssigned, CheckFunction, CheckExtern, LeaveFunction,
              OnlyChecks
<1>8. CASE Accept
  BY <1>3, <1>8 DEF Accept, EnterScope
<1>9. CASE EndInput
  BY <1>2, <1>9 DEF EndInput, out
<1>10. CASE Generate
  <2>1. CASE \/ GenLiteral \/ GenIdentifier \/ GenMissingParam \/ GenOperand \/ GenUse
             \/ GenList \/ EndList \/ Reassign \/ GenIf \/ GenMatch \/ GenPattern \/ TestArm
             \/ EndMatch \/ GenCall \/ EndCall
    BY <2>1 DEF GenLiteral, GenIdentifier, GenMissingParam, GenOperand, GenUse, GenList,
                EndList, Reassign, GenIf, GenMatch, GenPattern, TestArm, EndMatch, GenCall,
                EndCall, Undefined, tables
  <2>2. CASE AssignNew \/ GenDeclaration \/ GenExtern
    BY <1>4, <2>2 DEF AssignNew, GenDeclaration, GenExtern, NewVariable, Undefined, tables
  <2>3. CASE GenThen \/ EnterArm
    BY <1>3, <2>3 DEF GenThen, EnterArm, EnterScope
  <2>4. CASE GenElse
    BY <1>2, <1>5, <2>4 DEF GenElse, EnterScope, Undefined, tables, out
  <2>5. CASE JoinBranches \/ LeaveArm
    BY <1>2, <2>5 DEF JoinBranches, LeaveArm, Undefined, tables, out
  <2>6. CASE GenFunction
    BY <1>3, <2>6 DEF GenFunction, WithParameters
  <2>7. CASE EndFunction
    <3>1. \E valid : table' = IF valid /\ This_name # Anonymous
                              THEN InsertInto(out, This_name, Symbol("function", This, 0, This))
                              ELSE out
      BY <2>7 DEF EndFunction, out
    <3>2. QED
      BY <1>2, <1>5, <3>1
  <2>8. QED
    BY <1>10, <2>1, <2>2, <2>3, <2>4, <2>5, <2>6, <2>7 DEF Generate
<1>11. QED
  BY <1>6, <1>7, <1>8, <1>9, <1>10 DEF Next

\* What the first input binds stays bound to the same symbols, whatever later inputs
\* define, reject or delete (table_insert into frame 0, exit_scope).
THEOREM SessionGlobals == Spec => GlobalsAreKept
<1> DEFINE A == table # <<>> => Kept(table, table')
<1>1. SessionInv /\ [Next]_vars => [A]_table
  <2> SUFFICES ASSUME SessionInv, [Next]_vars PROVE [A]_table
    OBVIOUS
  <2>1. CASE Next
    BY <2>1, KeptStep
  <2>2. CASE UNCHANGED vars
    BY <2>2 DEF vars, tables
  <2>3. QED
    BY <2>1, <2>2
<1>2. Spec => [][A]_table
  BY <1>1, SessionInvHolds, PTL DEF Spec
<1>3. QED
  BY <1>2 DEF GlobalsAreKept, Kept

==============================================================================
