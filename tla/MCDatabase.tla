----------------------------- MODULE MCDatabase -----------------------------
(***************************************************************************)
(* What the database goes through, three machines side by side: its schema *)
(* under the revisions (Migrations), one design of it under requests that  *)
(* overlap (RenderedDesign), and its catalogue under seeds and requests    *)
(* (Seeds).  They share no state: a behaviour is one of the machine it     *)
(* starts, while the others rest.                                          *)
(***************************************************************************)
EXTENDS MCMigrations, RenderedDesign, DesignRecords, Seeds

-----------------------------------------------------------------------------
(* Four starts.  A database installed from nothing has 0045 to 0047 run,   *)
(* with the catalogue's files beside the package or without, and stops at  *)
(* 0049 (FreshUpgrade).  One that was upgraded when they were new has what *)
(* they made and a user's board, distribution and profile, the latter      *)
(* under the names of reference ones, and has 0050 to 0052 to come.  And   *)
(* a user's distribution with a profile that inherits from another.        *)

MCClasses == {"router", "server", "mobile-handheld", "desktop"}
ClassRows == [k \in {Row("distribution_classes", c) : c \in MCClasses} |-> NoRefs_]

OwnDistribution == <<"distributions", "tinydesk", 0>>
OwnProfile == <<"profiles", "orange-pi-5", 0>>
OwnRows ==
    Row("distribution_classes", "desktop") :> NoRefs_
    @@ Row("boards", "qemu-x86_64") :> NoRefs_
    @@ OwnDistribution :> NoRefs_
    @@ OwnProfile :> ("distribution" :> OwnDistribution)
    @@ <<"profiles", "mine", 0>> :>
           ("distribution" :> OwnDistribution @@ "inherits" :> OwnProfile)

BenchRows ==
    Row("architectures", "x86_64") :> NoRefs_
    @@ Row("boards", "bench") :> ("arch" :> Row("architectures", "x86_64"))
    @@ OwnDistribution :> NoRefs_
    @@ OwnProfile :> ("distribution" :> OwnDistribution
                      @@ "board" :> Row("boards", "bench"))

\* The settings and services of tinywifi come with 0050.
FirstReferences ==
    LET seeded == Upgraded(Upgraded(Upgraded(ClassRows, "0045", TRUE),
                                    "0046", TRUE), "0047", TRUE)
    IN [k \in {m \in DOMAIN seeded :
                  Table_(m) \notin {"config_values", "service_profiles",
                                   "service_entries"}} |-> seeded[k]]

Start_(r, o, d, s, n) ==
    [rows |-> r, own |-> o, due |-> d, shipped |-> s, requests |-> n]
MCStarts ==
    { Start_(ClassRows, {}, <<"0045", "0046", "0047">>, TRUE, 1),
      Start_(ClassRows, {}, <<"0045", "0046", "0047">>, FALSE, 1),
      Start_(FirstReferences @@ BenchRows, {OwnProfile},
             <<"0050", "0051", "0052">>, TRUE, 1),
      Start_(OwnRows, {OwnProfile, <<"profiles", "mine", 0>>}, <<>>, FALSE, 3) }

-----------------------------------------------------------------------------

SchemaRests ==
    /\ dialect = "sqlite" /\ agenda = <<>> /\ stage = "unused"
    /\ db = <<>> /\ filled = {} /\ bare = {} /\ early = {} /\ version = 0
    /\ due = {} /\ wrote = FALSE /\ aborted = FALSE /\ base = Saved
    /\ refused = {} /\ broken = {} /\ runs = 0 /\ crashes = 0

DesignRests ==
    /\ design = "explanations" /\ shared = FALSE
    /\ rows = [s \in {"profile", "traces"} |-> 0]
    /\ edits = rows /\ cell = <<>> /\ session = [s \in Sessions |-> Idle]
    /\ mixed = {} /\ served = MaxRequests

CatalogueRests ==
    /\ catalogue = <<>> /\ pending = <<>> /\ shipped = FALSE
    /\ requests = 0 /\ open = {} /\ touched = {}

DatabaseInit ==
    \/ Init /\ DesignRests /\ CatalogueRests
    \/ SchemaRests /\ DesignInit /\ CatalogueRests
    \/ SchemaRests /\ DesignRests /\ CatalogueInit

Schema_ == UNCHANGED <<designVars, catalogueVars>>
Design_ == UNCHANGED <<vars, catalogueVars>>
Catalogue_ == UNCHANGED <<vars, designVars>>

DatabaseNext ==
    \/ Start /\ Schema_
    \/ Enter /\ Schema_
    \/ Execute /\ Schema_
    \/ Refuse /\ Schema_
    \/ RefuseStamp /\ Schema_
    \/ Stamp /\ Schema_
    \/ Finish /\ Schema_
    \/ Crash /\ Schema_
    \/ \E s \in Sessions, name \in DOMAIN Designs[design].requests :
          Load(s, name) /\ Design_
    \/ \E s \in Sessions : Read(s) /\ Design_
    \/ \E s \in Sessions : CommitEdit(s) /\ Design_
    \/ \E s \in Sessions : CommitRender(s) /\ Design_
    \/ \E s \in Sessions : Forget(s) /\ Design_
    \/ \E s \in Sessions : Fail(s) /\ Design_
    \/ \E s \in Sessions : Abort(s) /\ Design_
    \/ Upgrade /\ Catalogue_
    \/ \E c \in Commands : RunCommand(c) /\ Catalogue_
    \/ AskDistribution /\ Catalogue_
    \/ AskProfile /\ Catalogue_
    \/ AskBuild /\ Catalogue_
    \/ \E r \in open : CommitInsert(r) /\ Catalogue_
    \/ \E r \in open : CommitUpdate(r) /\ Catalogue_
    \/ \E r \in open : CommitDelete(r) /\ Catalogue_
    \/ \E r \in open : CommitClone(r) /\ Catalogue_
    \/ \E r \in open : CommitImport(r) /\ Catalogue_
    \/ \E r \in open : DropRequest(r) /\ Catalogue_

DatabaseSpec ==
    DatabaseInit /\ [][DatabaseNext]_<<vars, designVars, catalogueVars>>
=============================================================================
