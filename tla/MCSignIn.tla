------------------------------- MODULE MCSignIn --------------------------------
(* An instance of SignIn small enough for TLC: alice is named in users.yaml*)
(* and leaves it, and bob is placed by his groups.                         *)
EXTENDS SignIn

CONSTANTS alice, bob, minted, root, leaf, g1, g2

MCHolds == [p \in {alice, bob, minted} |-> IF p = bob THEN {g1, g2} ELSE {}]

Tree(owners) == [owners |-> owners, root |-> root]
Sso(kind) == [name |-> "sso", kind |-> kind, claim |-> TRUE]
Password == [name |-> "basic", kind |-> "basic", claim |-> FALSE]
To(group, owner) == [group |-> group, owner |-> owner]
User(owner) == [owner |-> owner, password |-> TRUE]

(* A rule added before the one that places bob, under another protocol;    *)
(* then a smaller tree, in which nobody is named.                          *)
MCCommits ==
  <<[teams |-> Tree({root, leaf}),
     users |-> [p \in {alice} |-> User(root)],
     auth  |-> [offers |-> <<Sso("oidc"), Password>>, groups |-> <<To(g1, leaf)>>]],
    [teams |-> Tree({root, leaf}),
     users |-> [p \in {alice} |-> User(leaf)],
     auth  |-> [offers |-> <<Sso("saml")>>, groups |-> <<To(g2, root), To(g1, leaf)>>]],
    [teams |-> Tree({root}),
     users |-> Absent,
     auth  |-> [offers |-> <<Sso("oidc"), Password>>, groups |-> <<To(g1, root)>>]]>>

=============================================================================
