------------------------------ MODULE CallInfo ------------------------------
(***************************************************************************)
(* A model call as the call scheduler sees it (concurrency.CallInfo).  A   *)
(* member of Calls is one goroutine that makes calls, one after another;   *)
(* info says what its present call is.                                     *)
(***************************************************************************)
EXTENDS Integers, FiniteSets, SequencesExt

CONSTANTS
    Calls,    \* callers
    Owners,   \* run ids
    NoOwner,  \* "": a one-shot request
    Users,    \* fairness identities (tenant, user)
    Models,   \* model identities as the host loads them
    NoModel,  \* "": a call no model cap applies to
    NameOf,   \* [Models -> Models]: the identity without its context size
    Infos     \* [Calls -> SUBSET CallInfos]: the calls each caller makes

CallInfos ==
    [owner : Owners \cup {NoOwner}, user : Users, model : Models \cup {NoModel},
     noLease : BOOLEAN, background : BOOLEAN,
     bound : Int]     \* AcquireBounded's maxQueued; negative is no bound

ASSUME CallsFinite == IsFiniteSet(Calls)
ASSUME OwnersFinite == IsFiniteSet(Owners)
ASSUME UsersNotEmpty == Users # {}
ASSUME ModelsFinite == IsFiniteSet(Models)
ASSUME NoOwnerIsNoOwner == NoOwner \notin Owners
ASSUME NoModelIsNoModel == NoModel \notin Models
ASSUME NameOfType == NameOf \in [Models -> Models]
ASSUME InfosType == Infos \in [Calls -> SUBSET CallInfos]

VARIABLE info
=============================================================================
