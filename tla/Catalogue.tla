------------------------------ MODULE Catalogue ------------------------------
(***************************************************************************)
(* The installed-artifact catalogue and its diff against a plan            *)
(* (src/src/catalogue.rs).  A catalogue is the sequence of installed       *)
(* artifacts; versions and sources are carried along and never looked at.  *)
(***************************************************************************)
EXTENDS PlanGates

InstalledArtifact == [name : Name, digest : Digest]

Names(artifacts) == {artifacts[i].name : i \in DOMAIN artifacts}

(* InstalledCatalogue::get: the first entry of that name. *)
Get(catalogue, name) ==
    LET hits == {i \in DOMAIN catalogue : catalogue[i].name = name}
    IN  IF hits = {} THEN None
        ELSE catalogue[CHOOSE i \in hits : \A j \in hits : i <= j]

(* A bug: only digests with the prefix compare equal. *)
DigestsMatchPrefixed(a, b) ==
    a.hex = b.hex /\ a.form # "bare" /\ b.form # "bare"

(* Hex in either case is the same digest; without the prefix it is not. *)
DigestsMatch(a, b) ==
    /\ a.hex = b.hex
    /\ (a.form = "bare") = (b.form = "bare")

Action(planned, installed) ==
    IF installed = None THEN "add"
    ELSE IF DigestsMatch(installed.digest, planned.digest) THEN "unchanged"
    ELSE "update"

(* A bug: what is installed under the name will do. *)
NeedsFetchIfNew(action) == action = "add"

(* ArtifactAction::needs_fetch. *)
NeedsFetch(action) == action \in {"add", "update"}

(* diff: one item per planned artifact, in order, and the places of what   *)
(* the plan does not name any more.                                        *)
Diff(catalogue, planned) ==
    [items |-> [i \in DOMAIN planned |->
                   LET installed == Get(catalogue, planned[i].name)
                   IN  [action |-> Action(planned[i], installed),
                        planned |-> planned[i], installed |-> installed]],
     removed |-> {i \in DOMAIN catalogue :
                     catalogue[i].name \notin Names(planned)}]

(* The places of the items to fetch, whose order is that of the plan. *)
ToDownload(work) ==
    {i \in DOMAIN work.items : NeedsFetch(work.items[i].action)}

HasWork(work) == \E i \in DOMAIN work.items : NeedsFetch(work.items[i].action)
=============================================================================
