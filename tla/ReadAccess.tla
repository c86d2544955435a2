----------------------------- MODULE ReadAccess -----------------------------
(***************************************************************************)
(* What the isolation policies and read grants of the operator promise: a  *)
(* closed bucket is open to the operator for everything, to the group of   *)
(* its own Bucket for objects, to groups of Buckets its owner has named    *)
(* for reading, and to nobody else. Nothing is said of how a policy is     *)
(* written down or how a group is found.                                   *)
(***************************************************************************)
EXTENDS IsolationPolicy

CONSTANTS
  Crs,         \* the Buckets
  Names,       \* the physical bucket names
  GroupIds,    \* the credentials groups
  OwnerOf(_),  \* the Bucket a group was created for
  NoOwner

VARIABLES
  named,   \* the Buckets each Bucket has named in spec.grantReadAccess so far
  owner,   \* the Bucket each bucket belongs to; NoOwner: there is no bucket
  access   \* what each principal may do with the bucket

Principals == GroupIds \cup {Admin}

Open == [p \in Principals |-> Actions]

Closed(workload, readers) ==
  [p \in Principals |->
     CASE p = Admin                -> Actions
       [] p = workload             -> WorkloadAllowedActions
       [] p \in readers \ {workload} -> ReaderAllowedActions
       [] OTHER                    -> {}]

GroupsOf(cs) == {g \in GroupIds : OwnerOf(g) \in cs}

Init ==
  /\ named \in [Crs -> SUBSET Crs]
  /\ owner = [m \in Names |-> NoOwner]
  /\ access = [m \in Names |-> Open]

NameGrantee(n) ==
  /\ \E c \in Crs \ named[n] : named' = [named EXCEPT ![n] = @ \cup {c}]
  /\ UNCHANGED <<owner, access>>

Create(m) ==
  /\ owner[m] = NoOwner
  /\ \E c \in Crs : owner' = [owner EXCEPT ![m] = c]
  /\ UNCHANGED <<named, access>>

Close(m) ==
  /\ owner[m] # NoOwner
  /\ \E workload \in GroupsOf({owner[m]}) :
       \E readers \in SUBSET GroupsOf(named[owner[m]] \ {owner[m]}) :
         access' = [access EXCEPT ![m] = Closed(workload, readers)]
  /\ UNCHANGED <<named, owner>>

Remove(m) ==
  /\ owner' = [owner EXCEPT ![m] = NoOwner]
  /\ access' = [access EXCEPT ![m] = Open]
  /\ UNCHANGED named

Next == (\E n \in Crs : NameGrantee(n)) \/ (\E m \in Names : Create(m) \/ Close(m) \/ Remove(m))

Spec == Init /\ [][Next]_<<named, owner, access>>
=============================================================================
