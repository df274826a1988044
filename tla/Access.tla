------------------------------- MODULE Access -------------------------------
(***************************************************************************)
(* What a user who is not an administrator may do at a path of one shared  *)
(* folder (files/access): the share's own grants (db/shares), which only   *)
(* add up, and the rules on folders below it (db/acls), of which the       *)
(* nearest decides.  Every route that touches a file asks PathAccess.      *)
(*                                                                         *)
(* A path is the sequence of folder names below the share, a level its     *)
(* rank: 0 none, 1 read, 2 read and write.  Handlers are synchronous but   *)
(* for the one that adds a rule: it looks for the folder on disk in        *)
(* between.                                                                *)
(***************************************************************************)
EXTENDS Integers, Sequences, FiniteSets

CONSTANTS
    Users, Groups,
    Folders,      \* the paths there are below the share
    MaxEntries    \* bound: rules and grants at once

VARIABLES
    people,    \* the rows of users
    teams,     \* the rows of groups
    share,     \* share_permissions, share_group_permissions, guest_access
    members,   \* group_members
    rules,     \* folder_acls: path and subject to a level, or NoRule
    adding     \* the rule whose folder is being looked for

accessVars == <<people, teams, share, members, rules, adding>>

Levels == 0 .. 2
NoRule == -1
Subjects == Users \cup Groups
Paths == Folders \cup {<<>>}
NoAdd == [path |-> <<>>]

TypeOK ==
    /\ people \subseteq Users /\ teams \subseteq Groups
    /\ share \in [grants : [Subjects -> Levels], guest : Levels]
    /\ members \in [Groups -> SUBSET people]
    /\ \A g \in Groups \ teams : members[g] = {}
    /\ \A s \in Subjects \ (people \cup teams) : share.grants[s] = 0
    /\ rules \in [Folders -> [Subjects -> Levels \cup {NoRule}]]
    /\ adding \in {NoAdd} \cup [path : Folders, subject : Subjects, level : Levels]

-----------------------------------------------------------------------------
(* The decision *)

Lowest(S) == CHOOSE x \in S : \A y \in S : x <= y
Highest(S) == CHOOSE x \in S : \A y \in S : y <= x

GroupsOf(u) == {g \in teams : u \in members[g]}

\* A grant model: the most permissive of the user's entry, the groups', the guest's.
EffectiveAccess(u) ==
    Highest({share.grants[u], share.guest} \cup {share.grants[g] : g \in GroupsOf(u)})

AncestorsOf(p) == [i \in 1 .. Len(p) |-> SubSeq(p, 1, i)]

RuledTruthy(f, who) ==    \* mutant: a level of 0 is taken for no rule
    {rules[f][s] : s \in who} \ {NoRule, 0}
Ruled(f, who) == {rules[f][s] : s \in who} \ {NoRule}

\* One step down: a rule for the user beats those for groups, and the most
\* restrictive of these applies.
StepFallsThrough(u, level, f) ==  \* mutant: no "continue" after the user's own rule
    IF Ruled(f, GroupsOf(u)) # {} THEN Lowest(Ruled(f, GroupsOf(u)))
    ELSE IF Ruled(f, {u}) # {} THEN rules[f][u] ELSE level
Step(u, level, f) ==
    IF Ruled(f, {u}) # {} THEN rules[f][u]
    ELSE IF Ruled(f, GroupsOf(u)) # {} THEN Lowest(Ruled(f, GroupsOf(u))) ELSE level

ApplyFolderAcls(p, u, level) ==
    LET after[i \in 0 .. Len(p)] ==
            IF i = 0 THEN level ELSE Step(u, after[i - 1], AncestorsOf(p)[i])
    IN  after[Len(p)]

\* Without a rule in the share, or at its root, the walk is skipped.
PathAccess(u, p) ==
    LET level == EffectiveAccess(u)
    IN  IF level = 0 \/ p = <<>> \/ \A f \in Folders : Ruled(f, Subjects) = {}
        THEN level ELSE ApplyFolderAcls(p, u, level)

-----------------------------------------------------------------------------
(* The routes that change it *)

Entries ==
    Cardinality({x \in Folders \X Subjects : rules[x[1]][x[2]] # NoRule})
    + Cardinality({s \in Subjects : share.grants[s] # 0})
    + (IF share.guest # 0 THEN 1 ELSE 0)
Room == Entries < MaxEntries

PatchShare(s, level) ==
    /\ s \in people \cup teams
    /\ share.grants[s] # 0 \/ Room
    /\ share' = [share EXCEPT !.grants[s] = level]
    /\ UNCHANGED <<people, teams, members, rules, adding>>

SetGuest(level) ==
    /\ share.guest # 0 \/ Room
    /\ share' = [share EXCEPT !.guest = level]
    /\ UNCHANGED <<people, teams, members, rules, adding>>

SetMembers(g, us) ==
    /\ g \in teams /\ us \subseteq people
    /\ members' = [members EXCEPT ![g] = us]
    /\ UNCHANGED <<people, teams, share, rules, adding>>

BeginAcl(f, s, level) ==
    /\ adding = NoAdd /\ s \in people \cup teams
    /\ adding' = [path |-> f, subject |-> s, level |-> level]
    /\ UNCHANGED <<people, teams, share, members, rules>>

\* One rule for each folder and subject: a second replaces the first. The
\* subject may be gone by now.
SetAcl ==
    /\ adding # NoAdd
    /\ Room \/ rules[adding.path][adding.subject] # NoRule
    /\ rules' = [rules EXCEPT ![adding.path][adding.subject] = adding.level]
    /\ adding' = NoAdd
    /\ UNCHANGED <<people, teams, share, members>>

\* There is no such folder.
RefuseAcl ==
    /\ adding # NoAdd
    /\ adding' = NoAdd
    /\ UNCHANGED <<people, teams, share, members, rules>>

DeleteAcl(f, s) ==
    /\ rules[f][s] # NoRule
    /\ rules' = [rules EXCEPT ![f][s] = NoRule]
    /\ UNCHANGED <<people, teams, share, members, adding>>

Without(gone) == [f \in Folders |-> [s \in Subjects |->
                                        IF s \in gone THEN NoRule ELSE rules[f][s]]]

\* Rows cascade, and the rules that name the group go as well.
DeleteGroup(g) ==
    /\ g \in teams
    /\ teams' = teams \ {g}
    /\ members' = [members EXCEPT ![g] = {}]
    /\ share' = [share EXCEPT !.grants[g] = 0]
    /\ rules' = Without({g})
    /\ UNCHANGED <<people, adding>>

\* Rows cascade; a rule that names the user waits for the next listing.
DeleteUser(u) ==
    /\ u \in people
    /\ people' = people \ {u}
    /\ members' = [g \in Groups |-> members[g] \ {u}]
    /\ share' = [share EXCEPT !.grants[u] = 0]
    /\ UNCHANGED <<teams, rules, adding>>

\* A listing of the rules, or a start, drops those whose subject is gone.
PruneOrphanAcls ==
    /\ rules' = Without(Subjects \ (people \cup teams))
    /\ rules' # rules
    /\ UNCHANGED <<people, teams, share, members, adding>>

-----------------------------------------------------------------------------
Init ==
    /\ people = Users /\ teams = Groups
    /\ share = [grants |-> [s \in Subjects |-> 0], guest |-> 0]
    /\ members = [g \in Groups |-> {}]
    /\ rules = [f \in Folders |-> [s \in Subjects |-> NoRule]]
    /\ adding = NoAdd

Next ==
    \/ SetAcl \/ RefuseAcl \/ PruneOrphanAcls
    \/ \E level \in Levels :
          \/ SetGuest(level)
          \/ \E s \in Subjects :
                \/ PatchShare(s, level)
                \/ \E f \in Folders : BeginAcl(f, s, level)
    \/ \E g \in Groups : DeleteGroup(g) \/ \E us \in SUBSET Users : SetMembers(g, us)
    \/ \E u \in Users : DeleteUser(u)
    \/ \E f \in Folders, s \in Subjects : DeleteAcl(f, s)

Spec == Init /\ [][Next]_accessVars

-----------------------------------------------------------------------------
\* What db/acls promises, without the walk: the rule closest to the file decides,
\* the user's own before the groups', and of these the most restrictive; a rule
\* opens nothing below a closed share.
Nearest(u, p) ==
    LET ruled == {i \in 1 .. Len(p) :
                     Ruled(SubSeq(p, 1, i), {u} \cup GroupsOf(u)) # {}}
        f == SubSeq(p, 1, Highest(ruled))
    IN  IF EffectiveAccess(u) = 0 \/ ruled = {} THEN EffectiveAccess(u)
        ELSE IF rules[f][u] # NoRule THEN rules[f][u]
        ELSE Lowest(Ruled(f, GroupsOf(u)))

\* The walk decides what the promise says, for everyone and everywhere, whatever
\* was granted, ruled, joined and deleted before (db/acls.ts:9-31).
NearestRuleDecides == \A u \in people, p \in Paths : PathAccess(u, p) = Nearest(u, p)

\* A rule that denies takes away and gives nobody anything, anywhere in the share:
\* not even by standing in front of another rule.
DenyingNeverWidens ==
    [][(adding # NoAdd /\ adding.level = 0 /\ adding' = NoAdd /\ rules' # rules) =>
          \A u \in people, p \in Paths : PathAccess(u, p)' <= PathAccess(u, p)]_accessVars

=============================================================================
