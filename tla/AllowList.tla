------------------------------ MODULE AllowList ------------------------------
(***************************************************************************)
(* Which catalogue components a Team may use (internal/allowlist): every   *)
(* Allow-list on the chain from the root narrows what the parent has, and  *)
(* a Grant of an owner strictly above its target widens the target's       *)
(* subtree again.                                                          *)
(*                                                                         *)
(* A catalogue is a set of entries [class, type, alias, stability], where  *)
(* stability is a function of the signals the component supports.  An      *)
(* authored pattern is the set of types it matches.                        *)
(***************************************************************************)
EXTENDS Ownership

Classes == {"receiver", "processor", "exporter", "connector", "extension"}

(* The canonical type first, then the type it was called before.           *)
Lookups(cat, class, type) ==
  LET exact == {c \in cat : c.class = class /\ c.type = type}
  IN  IF exact # {} THEN exact ELSE {c \in cat : c.class = class /\ c.alias = type}
Known(cat, class, type)  == type # Unset /\ Lookups(cat, class, type) # {}
Lookup(cat, class, type) == CHOOSE c \in Lookups(cat, class, type) : TRUE

Matches(entry, c) == c.class = entry.class /\ (c.type \in entry.types \/ c.alias \in entry.types)
Selects(entries, c) == \E i \in DOMAIN entries : Matches(entries[i], c)

-----------------------------------------------------------------------------
(* Loading: an entry that selects nothing, a party the tree does not know  *)
(* or a Grant without the authority of an ancestor refuses the policy.     *)

LoadsEntries(entries, cat) ==
  /\ entries # <<>>
  /\ IsInjective(entries)
  /\ \A i \in DOMAIN entries : /\ entries[i].class \in Classes
                               /\ \E c \in cat : Matches(entries[i], c)

KnownParty(x, tree) == x.team \in DOMAIN tree /\ x.owner \in OwnersIn(tree)

LoadsLists(lists, tree, cat) ==
  /\ \A i \in DOMAIN lists : KnownParty(lists[i], tree) /\ LoadsEntries(lists[i].allow, cat)
  /\ \A i, j \in DOMAIN lists : lists[i].team = lists[j].team => i = j

GrantsWithAuthority(g, tree) == ProperAncestor(tree, TeamOfOwner(tree, g.owner), g.team)

LoadsGrants(grants, tree, cat) ==
  /\ \A i \in DOMAIN grants : /\ grants[i].id # Unset
                              /\ KnownParty(grants[i], tree)
                              /\ GrantsWithAuthority(grants[i], tree)
                              /\ LoadsEntries(grants[i].adds, cat)
  /\ \A i, j \in DOMAIN grants : grants[i].id = grants[j].id => i = j

(* An absent file is the default posture, an empty one is refused.  A      *)
(* policy is [lists, grants], <<>> where the file is absent.               *)
LoadsPolicy(policy, tree, cat) ==
  LoadsLists(policy.lists, tree, cat) /\ LoadsGrants(policy.grants, tree, cat)

-----------------------------------------------------------------------------
(* The effective palette.  Walking down the chain, a list removes what it  *)
(* does not select, what a Grant above admitted included, and then the     *)
(* first Grant of the Team that selects a removed component restores it.   *)

ListOf(policy, team)   == {policy.lists[i] : i \in {j \in DOMAIN policy.lists : policy.lists[j].team = team}}

(* The Grants are in the order of their ids.                               *)
Admitting(policy, team, c) ==
  {i \in DOMAIN policy.grants : policy.grants[i].team = team /\ Selects(policy.grants[i].adds, c)}

StepKeepingTheGrant(policy, c, was, team) ==      \* mutant: a list below does not narrow a Grant out
  LET kept    == was.allowed /\ (was.via # <<>> \/ \A l \in ListOf(policy, team) : Selects(l.allow, c))
      granted == Admitting(policy, team, c)
  IN  IF kept THEN was
      ELSE IF granted # {} THEN [allowed |-> TRUE, via |-> <<policy.grants[Min(granted)]>>]
      ELSE [allowed |-> FALSE, via |-> <<>>]

StepDown(policy, c, was, team) ==
  LET kept    == was.allowed /\ \A l \in ListOf(policy, team) : Selects(l.allow, c)
      granted == Admitting(policy, team, c)
  IN  IF kept THEN was
      ELSE IF granted # {} THEN [allowed |-> TRUE, via |-> <<policy.grants[Min(granted)]>>]
      ELSE [allowed |-> FALSE, via |-> <<>>]

Standing(policy, tree, team, c) ==
  FoldLeft(LAMBDA was, t : StepDown(policy, c, was, t), [allowed |-> TRUE, via |-> <<>>],
           Chain(tree, team))

EffectivePalette(policy, tree, cat, team) == {c \in cat : Standing(policy, tree, team, c).allowed}

Origin(policy, tree, team, c) ==
  CASE Standing(policy, tree, team, c).via # <<>>                          -> "grant"
    [] \E t \in Range(Chain(tree, team)) : ListOf(policy, t) # {}          -> "allow-list"
    [] OTHER                                                              -> "default-allow"

Allows(policy, tree, cat, team, class, type) ==
  /\ team \in DOMAIN tree
  /\ Known(cat, class, type)
  /\ Lookup(cat, class, type) \in EffectivePalette(policy, tree, cat, team)
=============================================================================
