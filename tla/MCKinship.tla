----------------------------- MODULE MCKinship -----------------------------
EXTENDS Kinship, TLC

\* What the instance offers: the roles that compose, one of them gendered.
MCOffered == {Neutral("parent"), Variant("child", "female"), Neutral("sibling"),
              Neutral("spouse")}

Symmetry == Permutations(Person) \cup Permutations(Pet)
=============================================================================
