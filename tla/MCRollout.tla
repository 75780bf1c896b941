------------------------------ MODULE MCRollout ------------------------------
(***************************************************************************)
(* A small instance of Rollout: one environment, its own channel and the   *)
(* broadcast channel, and documents, envelopes and archives that each      *)
(* matter to a different guard.                                            *)
(***************************************************************************)
EXTENDS Rollout

SHA(h, form) == [hex |-> h, form |-> form]
Artifact(name, h, form) == [name |-> name, digest |-> SHA(h, form)]
Gtc(target, version, h) ==
    [name |-> "gtc", target |-> target, version |-> version,
     digest |-> SHA(h, "upper")]

Anything == [min_runtime |-> None, abi |-> None, requires |-> {}]

Doc(id, env_id, sequence, nonce, artifacts, binaries, compat) ==
    [schema |-> "greentic.update-plan.v1", plan_id |-> id, env_id |-> env_id,
     sequence |-> sequence, nonce |-> nonce, artifacts |-> artifacts,
     binaries |-> binaries, compat |-> compat]

(* The second runtime, for this host and for another. *)
First == Doc("p1", "prod", 1, "n1", <<Artifact("pack", "h1", "lower")>>,
             <<Gtc("arm", 2, "h2"), Gtc("x86", 2, "h1")>>, Anything)
(* The same plan, released again with another nonce. *)
Again == [First EXCEPT !.nonce = "n2"]
(* Needs the runtime and the plan before it. *)
Second == Doc("p2", "prod", 2, "n1",
              <<Artifact("flow", "h2", "bare"),
                Artifact("pack", "h1", "upper")>>,
              <<>>, [min_runtime |-> 2, abi |-> "abi", requires |-> {"p1"}])
(* For the whole fleet, with two binaries for one host. *)
Fleet == Doc("p3", "_", 1, "n1", <<Artifact("pack", "h2", "lower")>>,
             <<Gtc("x86", 2, "h2"), Gtc("x86", 2, "h1")>>, Anything)
(* Also for the whole fleet, but only after the second plan; the sequences *)
(* of the two channels are independent.                                    *)
Hotfix == Doc("p3", "_", 1, "n2", <<Artifact("pack", "h2", "bare")>>, <<>>,
              [Anything EXCEPT !.requires = {"p2"}])
(* Names one artifact twice, and asks for a version that is none. *)
Twice == Doc("p3", "prod", 2, "n1",
             <<Artifact("pack", "h1", "lower"),
               Artifact("pack", "h2", "lower")>>,
             <<>>, Anything)
NoVersion == Doc("p3", "_", 2, "n1", <<>>, <<>>,
                 [Anything EXCEPT !.min_runtime = Junk])
(* For someone else, and of another schema. *)
Foreign == Doc("p1", "dev", 1, "n1", <<>>, <<>>, Anything)
Other == [Foreign EXCEPT !.schema = "other", !.env_id = "prod"]

AllDocs == {First, Again, Second, Fleet, Hotfix, Twice, NoVersion,
            Foreign, Other}

(* What the two keys sign, under their own ids and under each other's; a   *)
(* statement of another kind, one about Junk, and two that do not say what *)
(* they are about.                                                         *)
Built == {BuiltEnvelope(d, key, keyid) : d \in AllDocs, key \in Key,
                                         keyid \in Key}
PlanType == "greentic.update-plan-predicate.v1"
Stray == {Signed(First, "other", PredicateOf(First), "k1", "k1"),
          Signed(Junk, PlanType, PredicateOf(First), "k1", "k1"),
          Signed(First, PlanType, Junk, "k1", "k1"),
          Signed(First, PlanType, PredicateOf(Again), "k1", "k1"),
          Signed(Second, PlanType, PredicateOf(First), "k1", "k1")}
AllEnvelopes == Built \cup Stray

File(named, declared, size, h) ==
    [safe |-> TRUE, named |-> named, kind |-> "file", declared |-> declared,
     size |-> size, content |-> h]
Good == File(TRUE, 2, 2, "h1")
Readme == File(FALSE, 1, 1, "h2")
Nested == File(TRUE, 1, 1, "h2")
Lying == File(TRUE, 1, 5, "h1")
Folder == [Nested EXCEPT !.kind = "dir", !.declared = 0]
Link == [Nested EXCEPT !.kind = "link"]
Escaping == [Nested EXCEPT !.safe = FALSE]

Zip(entries) == [format |-> "zip", entries |-> entries]
Tgz(entries) == [format |-> "tgz", entries |-> entries]
AllArchives ==
    {Tgz(<<Folder, Good>>), Tgz(<<Readme, Nested, Good>>),
     Tgz(<<Good, Escaping>>), Tgz(<<Escaping, Good>>), Tgz(<<Link, Good>>),
     Zip(<<Link, Good>>), Zip(<<Lying>>), Zip(<<Readme, Readme, Good>>),
     Zip(<<Readme>>), [format |-> "unsupported", entries |-> <<Good>>]}

AllCatalogues == {<<>>, <<Artifact("pack", "h2", "lower"),
                          Artifact("old", "h1", "lower")>>}
=============================================================================
