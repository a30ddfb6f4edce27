------------------------------ MODULE ManifestRoots ------------------------------
(***************************************************************************)
(* The directories under src/manifests and what the gate reads out of them *)
(* (src/gate/internal/render): which ones are evaluated when some have     *)
(* changed, which ones make up the estate, and what each renders to.       *)
(*                                                                         *)
(* A tree maps each directory to NoDir or to a record                      *)
(*   kustomized  it holds a kustomization;                                 *)
(*   takesIn     the other directories, in sequence, whose manifests that  *)
(*               kustomization takes in, directly or through another one;  *)
(*   yaml        the manifests of its own files, a sequence, or            *)
(*               Unrenderable.                                             *)
(* What a kustomization changes about the manifests it takes in is left    *)
(* out.                                                                    *)
(***************************************************************************)
EXTENDS SequencesExt

CONSTANTS
    Directories,    \* those that exist in some tree
    Above(_),       \* the directory itself and those above it, under src/manifests
    NoDir, Unrenderable

ASSUME DirectoriesAssumption ==
    /\ IsFiniteSet(Directories)
    /\ \A d \in Directories :
           /\ d \in Above(d) /\ Above(d) \subseteq Directories
           /\ \A a \in Above(d) : Above(a) \subseteq Above(d)
           /\ \A a, b \in Above(d) : a \in Above(b) \/ b \in Above(a)

Exists(tree, d) == tree[d] # NoDir

Kustomized(tree, d) == Exists(tree, d) /\ tree[d].kustomized

\* Mutant of EvaluatedAs: no walk upwards.
EvaluatedAsItself(tree, d, root) == root = d

\* A changed file of d is evaluated as part of the nearest kustomization, or as
\* plain YAML.
EvaluatedAs(tree, d, root) ==
    LET kustomizations == {a \in Above(d) : Kustomized(tree, a)}
    IN  IF kustomizations = {}
        THEN root = d
        ELSE root \in kustomizations /\ kustomizations \subseteq Above(root)

Roots(tree, changed) == {root \in Directories : \E d \in changed : EvaluatedAs(tree, d, root)}

\* The walk downwards lists every directory that holds YAML and does not
\* descend into a kustomization.
AllRoots(tree) ==
    {d \in Directories :
        /\ Exists(tree, d)
        /\ Kustomized(tree, d) \/ tree[d].yaml # <<>>
        /\ \A a \in Above(d) \ {d} : ~Kustomized(tree, a)}

\* The directories whose files render d.
Reads(tree, d) == <<d>> \o (IF Kustomized(tree, d) THEN tree[d].takesIn ELSE <<>>)

\* A directory that is not there renders to nothing, without an error; a
\* kustomization that takes in one that is not there does not render.
Renders(tree, d) ==
    Exists(tree, d) =>
        \A part \in Range(Reads(tree, d)) : Exists(tree, part) /\ tree[part].yaml # Unrenderable

Objects(tree, d) ==
    IF Exists(tree, d)
    THEN LET parts == Reads(tree, d) IN FlattenSeq([i \in DOMAIN parts |-> tree[parts[i]].yaml])
    ELSE <<>>

--------------------------------------------------------------------------------
\* There is no kustomization below another one.
NoneNested(tree) ==
    \A d, a \in Directories :
        Kustomized(tree, a) /\ a \in Above(d) \ {d} => ~Kustomized(tree, d)

\* A kustomization takes in nothing from beside or above it.
TakesInBelow(tree) ==
    \A d \in {x \in Directories : Exists(tree, x)} :
        \A part \in Range(tree[d].takesIn) : d \in Above(part)

\* Every file of the tree is read by one root, and by the one that is evaluated
\* when it changes: kustomizations do not nest, and take in all that lies below
\* them and nothing else.
OneRootEach(tree) ==
    /\ NoneNested(tree) /\ TakesInBelow(tree)
    /\ \A d \in {x \in Directories : Exists(tree, x)}, a \in Directories :
           Kustomized(tree, a) /\ a \in Above(d) \ {d} => d \in Range(tree[a].takesIn)

\* Whatever existed before is evaluated as part of the same root after.
RootsKept(before, after) ==
    \A d \in {x \in Directories : Exists(before, x)}, root \in Directories :
        EvaluatedAs(before, d, root) <=> EvaluatedAs(after, d, root)
================================================================================
