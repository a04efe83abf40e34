----------------------------- MODULE Groups ------------------------------
(* The groups of one daemon (internal/client/daemon_groups.go and saveGroups,
   loadGroups in daemon_state.go): creating a group, removing a member,
   leaving, the groups file, and the loops that hand the group key out.

   The handlers run concurrently.  Each changes the group under groupsMu, saves
   the map, and then walks the members without a lock: it sends each one the
   key and the epoch the group has when the loop comes to it.  A send takes
   seconds and its result is ignored.

   A key is the number of rotations that made it, RotateGroupKey being a hash
   of the key before.                                                       *)
EXTENDS StateFile

CONSTANTS
    me,             \* this daemon's public key
    Others,         \* the public keys put into a group
    Malformed,      \* those of them from which no secret can be derived
    MaxCalls        \* bound on calls

ASSUME GroupsAssumption ==
    me \notin Others /\ Malformed \subseteq Others /\ MaxCalls \in Nat \ {0}

VARIABLES
    group,          \* d.groups, of which one group is followed
    groupsFile,     \* daemon_groups.json, a state of StateFile
    loops,          \* the loops handing out a key
    tried,          \* history: <<member, key, epoch>> of every key sent
    cut,            \* history: a crash ended a loop of the current key
    left,           \* history: this daemon has left the group
    calls           \* calls so far, which number the handlers

groupVars == <<group, groupsFile, loops, tried, cut, left>>

Everybody == Others \cup {me}
NoGroup == [there |-> FALSE, members |-> {}, admin |-> me, key |-> 0, epoch |-> 0]

\* A handler, by its number and by what it does once the map is saved.
Handlers == [id : 1 .. MaxCalls, then : {"answer", "created", "rotated"}]
By(then) == [id |-> calls', then |-> then]

\* A loop: the members it has not come to, the member in hand, and the key it
\* sends.  A member whose public key does not decode is passed over.  CreateGroup
\* sends the key and the epoch it made, 1 and 1; the loop of distributeGroupKey
\* reads both from the group, the key first.
Loop(id, fixed) == [id |-> id, fixed |-> fixed, todo |-> group.members \ ({me} \cup Malformed),
                    at |-> me, key |-> 0]

GroupsInit ==
    /\ group = NoGroup
    /\ groupsFile = NewFile(NoGroup)
    /\ loops = {} /\ tried = {}
    /\ cut = FALSE /\ left = FALSE

----------------------------------------------------------------------------
\* A group that was deleted is not in the map any more; a loop may still hold it.
Stored(g) == IF g.there THEN g ELSE NoGroup

\* The handler changes the group and calls saveGroups, which marshals the map.
\* This variant marshals it before the change.
SetGroup_Before(g, by) ==
    /\ group' = g
    /\ groupsFile' = Marshal(groupsFile, by, Stored(group))

SetGroup(g, by) ==
    /\ group' = g
    /\ groupsFile' = Marshal(groupsFile, by, Stored(g))

\* CreateGroup: this daemon is the administrator and a member.  Every call makes
\* a group of its own; the first is the one followed.
CreateGroup ==
    /\ group.key = 0
    /\ SetGroup([there |-> TRUE, members |-> Everybody, admin |-> me,
                 key |-> 1, epoch |-> 1], By("created"))
    /\ tried' = {} /\ left' = FALSE /\ cut' = FALSE
    /\ UNCHANGED loops

\* Who administers the group once this daemon has gone.  This variant leaves it
\* as it is.
NewAdmins_Same(rest) == {group.admin}

NewAdmins(rest) ==
    IF group.admin = me /\ rest # {} THEN rest ELSE {group.admin}

\* LeaveGroup: any of the others takes over; without others the group goes.
LeaveGroup ==
    /\ group.there
    /\ LET rest == group.members \ {me} IN
       \E a \in NewAdmins(rest) :
          SetGroup([group EXCEPT !.there = rest # {}, !.members = rest, !.admin = a],
                   By("answer"))
    /\ left' = TRUE
    /\ UNCHANGED <<loops, tried, cut>>

\* RemoveGroupMember: by the administrator, of a member; the key is rotated.
RemoveGroupMember(m) ==
    /\ group.there /\ group.admin = me /\ m \in group.members
    /\ SetGroup([group EXCEPT !.members = @ \ {m}, !.key = @ + 1, !.epoch = @ + 1],
                By("rotated"))
    /\ cut' = FALSE
    /\ UNCHANGED <<loops, tried, left>>

\* The loop a handler goes into once its save has returned: CreateGroup over the
\* members it made, RemoveGroupMember over those of the group it looks up again.
\* This variant hands the key out after CreateGroup only.
LoopsAfter_Created(by) == IF by.then = "created" THEN {Loop(by.id, TRUE)} ELSE {}

LoopsAfter(by) ==
    CASE by.then = "created" -> {Loop(by.id, TRUE)}
      [] by.then = "rotated" /\ group.there -> {Loop(by.id, FALSE)}
      [] OTHER -> {}

\* The steps of saveGroups.  (Writes that fail are in module Contacts.)
OpenGroupsFile ==
    \E s \in groupsFile.saves :
        /\ ~s.open
        /\ groupsFile' = Open(groupsFile, s)
        /\ UNCHANGED <<group, loops, tried, cut, left, calls>>

WriteGroupsFile ==
    \E s \in groupsFile.saves :
        /\ s.open
        /\ groupsFile' \in Write(groupsFile, s)
        /\ loops' = loops \cup LoopsAfter(s.by)
        /\ UNCHANGED <<group, tried, cut, left, calls>>

\* A loop comes to a member: a member deleted meanwhile is not produced.
NextMember(l) ==
    \E m \in l.todo \cap group.members :
        /\ l.at = me
        /\ loops' = (loops \ {l}) \cup
              {[l EXCEPT !.todo = @ \ {m}, !.at = m, !.key = IF l.fixed THEN 1 ELSE group.key]}
        /\ UNCHANGED <<group, groupsFile, tried, cut, left, calls>>

\* The message is put together and sent.
SendKey(l) ==
    /\ l.at # me
    /\ tried' = tried \cup {<<l.at, l.key, IF l.fixed THEN 1 ELSE group.epoch>>}
    /\ loops' = (loops \ {l}) \cup {[l EXCEPT !.at = me, !.key = 0]}
    /\ UNCHANGED <<group, groupsFile, cut, left, calls>>

\* The loop has come to every member there still is.
EndLoop(l) ==
    /\ l.at = me /\ l.todo \cap group.members = {}
    /\ loops' = loops \ {l}
    /\ UNCHANGED <<group, groupsFile, tried, cut, left, calls>>

\* A loop that is due: running, or waiting for the save before it.
Due == loops # {} \/ \E s \in groupsFile.saves : s.by.then # "answer"

\* The daemon dies, and loadGroups reads the file, if it can be read (ok), when it
\* starts again.  A loop that was cut off is not resumed.
GroupsRestart(ok) ==
    /\ group' = Load(groupsFile, ok, NoGroup)
    /\ groupsFile' = Abandon(groupsFile, ok)
    /\ loops' = {}
    /\ cut' = (cut \/ Due \/ ~Settled(groupsFile))
    /\ left' = (left /\ Settled(groupsFile))
    /\ UNCHANGED tried

GroupCalls == CreateGroup \/ LeaveGroup \/ \E m \in Everybody : RemoveGroupMember(m)

GroupSteps ==
    \/ OpenGroupsFile \/ WriteGroupsFile
    \/ \E l \in loops : NextMember(l) \/ SendKey(l) \/ EndLoop(l)

----------------------------------------------------------------------------
\* The types of the variables.
GroupsTypeOK ==
    /\ group.members \subseteq Everybody /\ group.admin \in Everybody
    /\ {group.key, group.epoch} \subseteq 0 .. MaxCalls
    /\ groupsFile.disk \in Contents
    /\ \A s \in groupsFile.saves : s.by \in Handlers
    /\ \A l \in loops : l.todo \subseteq Others /\ l.at \in Everybody
    /\ tried \subseteq Others \X (0 .. MaxCalls) \X (0 .. MaxCalls)

\* When no handler is at work, every member still in the group, if its public key
\* is one, has been sent the key the group has now, with the epoch it has now,
\* however the removals and the loops of distributeGroupKey overlapped; only a
\* crash leaves members without it (RemoveGroupMember: distribute the new key to the remaining members).
CurrentKeyIsSent ==
    (group.there /\ ~Due /\ ~cut) =>
        \A m \in group.members \ ({me} \cup Malformed) : <<m, group.key, group.epoch>> \in tried

\* Whoever left the group does not administer it any more, whatever calls and
\* restarts follow (LeaveGroup: if admin leaves, reassigns admin).
LeaverIsNotAdmin ==
    (left /\ group.there) => group.admin \in group.members

\* The groups file, once at rest and saved undisturbed, holds the groups of the
\* daemon: every handler saves what it changed (saveGroups).
GroupsAreSaved ==
    Settled(groupsFile) => Held(groupsFile, NoGroup) = Stored(group)
==========================================================================
