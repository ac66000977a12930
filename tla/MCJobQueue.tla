----------------------------- MODULE MCJobQueue -----------------------------
(***************************************************************************)
(* Two workers, w1 on x86_64 and w2 on both architectures.                 *)
(*   job 1: needs a tag no worker has, and is first in the queue           *)
(*   job 2: both workers can run it, two attempts                          *)
(*   job 3: only w2 is eligible, and it has no handler for its kind        *)
(***************************************************************************)
EXTENDS JobQueue

CONSTANTS w1, w2

MCWorkers == {w1, w2}
MCKind == <<"build.run", "build.run", "package.build">>
MCTags == <<{"arch:riscv64"}, {"arch:x86_64"}, {"arch:aarch64"}>>
MCMaxAttempts == <<1, 2, 2>>
MCWKinds == [w \in MCWorkers |-> {"build.run", "package.build"}]
MCWTags == [w \in MCWorkers |->
    IF w = w1 THEN {"arch:x86_64"} ELSE {"arch:x86_64", "arch:aarch64"}]
MCHandled == {"build.run"}
=============================================================================
