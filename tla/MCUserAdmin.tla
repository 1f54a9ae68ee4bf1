----------------------------- MODULE MCUserAdmin -----------------------------
\* Instances of UserAdmin for TLC: everybody but the founder is
\* interchangeable, and so are the requests.
EXTENDS UserAdmin, TLC

Interchangeable == Permutations(People \ {Founder}) \cup Permutations(Requests)
=============================================================================
