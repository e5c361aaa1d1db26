------------------------------- MODULE Syntax -------------------------------
(***************************************************************************)
(* The programs the passes of the compiler walk.  The syntax trees of all  *)
(* the inputs of a session form one sequence of nodes, numbered in         *)
(* preorder; a program also has the roots of its inputs, in order.         *)
(***************************************************************************)
EXTENDS Integers, SequencesExt

CONSTANT Programs   \* records of nodes and inputs

VARIABLE program    \* the program of the session

\* A node: its tag, its operator, the name it mentions and its children in the
\* order of the source.  A function's last child is its body or, when it is
\* external, the type of its result; the others are its parameters.  The
\* annotation of a declaration is its only child, that of an assignment the second.
Node(tag, op, name, kids) == [tag |-> tag, op |-> op, name |-> name, kids |-> kids]

Anonymous == "this_fn"   \* a function without a name: code generation calls it that

Nodes == program.nodes
AllNodes == DOMAIN Nodes
kid(n, i) == Nodes[n].kids[i]
LastKid(n) == Last(Nodes[n].kids)

\* The number of parameters of the function declared by node f.
Parameters(f) == Len(Nodes[f].kids) - 1

\* The nodes of the i-th input.
LastNode(i) == IF i = Len(program.inputs) THEN Len(Nodes) ELSE program.inputs[i + 1] - 1

NodesOf(i) == program.inputs[i] .. LastNode(i)

\* The last node of the tree with root n, of program p.
TreeEnds(p) ==
  LET end[n \in DOMAIN p.nodes] ==
        IF p.nodes[n].kids = <<>> THEN n ELSE end[Last(p.nodes[n].kids)]
  IN  end

\* The children of a node are the roots of trees that follow it one after the
\* other, and so do the inputs.
InPreorder(p) ==
  LET follow(roots) == \A i, j \in DOMAIN roots : i < j => TreeEnds(p)[roots[i]] < roots[j]
  IN  /\ p.nodes \in Seq([tag : STRING, op : STRING, name : STRING, kids : Seq(DOMAIN p.nodes)])
      /\ p.inputs \in Seq(DOMAIN p.nodes)
      /\ \A n \in DOMAIN p.nodes :
           /\ TreeEnds(p)[n] \in n .. Len(p.nodes)
           /\ \A m \in Range(p.nodes[n].kids) : n < m /\ TreeEnds(p)[m] <= TreeEnds(p)[n]
           /\ follow(p.nodes[n].kids)
      /\ follow(p.inputs)

\* The nodes reached from root when node n leads to the nodes next[n].
Spanned(root, next) ==
  LET reach[S \in SUBSET AllNodes] ==
        IF \A n \in S : next[n] \subseteq S THEN S ELSE reach[S \cup UNION {next[n] : n \in S}]
  IN  reach[{root}]

\* The nodes of the tree with root n.
Below(n) == Spanned(n, [m \in AllNodes |-> Range(Nodes[m].kids)])

=============================================================================
