------------------------------ MODULE Worktree ------------------------------
(***************************************************************************)
(* git, as far as scripts/address-improvement.mjs uses it: one worktree    *)
(* with its index and branches, and the remote.  Of the repository only    *)
(* the suggestion files of .improvements/ are kept, and of a file only the *)
(* status in its frontmatter.  main and origin/main are one and do not     *)
(* move.                                                                   *)
(***************************************************************************)
CONSTANT Ids \* the suggestion ids, which name the branches too

VARIABLES
  work,  \* the files in the worktree
  index, \* the staged tree
  head,  \* the branch that is checked out
  tree,  \* the tip of each local branch
  remote \* the tip of each pushed branch

gitVars == <<work, index, head, tree, remote>>

Main == <<"main">>

ASSUME MainAssumption == Main \notin Ids

(* "bare": a file without a status line that both patterns of the script match. *)
Statuses == {"open", "dismissed", "addressed", "bare"}
Absent   == "absent"
Trees    == [Ids -> Statuses \cup {Absent}]

GitType ==
  /\ work \in Trees /\ index \in Trees
  /\ head \in DOMAIN tree
  /\ Main \in DOMAIN tree /\ DOMAIN tree \subseteq Ids \cup {Main}
  /\ DOMAIN remote \subseteq Ids
  /\ \A b \in DOMAIN tree : tree[b] \in Trees
  /\ \A b \in DOMAIN remote : remote[b] \in Trees

GitInit(files) ==
  /\ work = files /\ index = files
  /\ head = Main /\ tree = [b \in {Main} |-> files]
  /\ remote = <<>>

Without(f, x) == [y \in DOMAIN f \ {x} |-> f[y]]
With(f, x, v) == [y \in DOMAIN f \cup {x} |-> IF y = x THEN v ELSE f[y]]
-----------------------------------------------------------------------------
(* git checkout leaves a file alone that is the same on both sides, or is   *)
(* staged as it will be, and refuses to lose any other change.              *)
Stays(f, to) == tree[head][f] = to[f] \/ index[f] = to[f]

CanCheckout(to) ==
  \A f \in Ids : Stays(f, to) \/ (index[f] = tree[head][f] /\ work[f] \in {index[f], Absent})

Checkout(to) ==
  /\ work'  = [f \in Ids |-> IF Stays(f, to) THEN work[f] ELSE to[f]]
  /\ index' = [f \in Ids |-> IF Stays(f, to) THEN index[f] ELSE to[f]]

(* git checkout -b b origin/main *)
CanBranch(b) == b \notin DOMAIN tree /\ CanCheckout(tree[Main])

(* Mutant: git checkout -b b *)
BranchFromHead(b) ==
  /\ head' = b /\ tree' = With(tree, b, tree[head])
  /\ UNCHANGED <<work, index, remote>>

Branch(b) ==
  /\ Checkout(tree[Main])
  /\ head' = b /\ tree' = With(tree, b, tree[Main])
  /\ UNCHANGED remote

SwitchTo(b) == Checkout(tree[b]) /\ head' = b /\ UNCHANGED <<tree, remote>>

(* git reset --hard origin/main: tracked files go, untracked ones stay. *)
ResetHard ==
  /\ work'  = [f \in Ids |-> IF index[f] = Absent /\ tree[Main][f] = Absent
                             THEN work[f] ELSE tree[Main][f]]
  /\ index' = tree[Main]
  /\ tree'  = [tree EXCEPT ![head] = tree[Main]]
  /\ UNCHANGED <<head, remote>>

CanAdd(f) == work[f] # Absent \/ index[f] # Absent
Add(f)    == index' = [index EXCEPT ![f] = work[f]] /\ UNCHANGED <<work, head, tree, remote>>

CanCommit == index # tree[head]
Commit    == tree' = [tree EXCEPT ![head] = index] /\ UNCHANGED <<work, index, head, remote>>

(* A branch of that name made anew does not descend from the one pushed.    *)
CanPush(b) == b \notin DOMAIN remote
Push(b)    == remote' = With(remote, b, tree[b]) /\ UNCHANGED <<work, index, head, tree>>

Delete(b) == tree' = Without(tree, b) /\ UNCHANGED <<work, index, head, remote>>
=============================================================================
