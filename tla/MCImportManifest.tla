-------------------------- MODULE MCImportManifest --------------------------
(***************************************************************************)
(* Instances of ImportManifest: two chunks, 3 bytes declared. The client   *)
(* may send chunk zero without its sensors, a body that is not the one the *)
(* digest names, the wrong content for a chunk (one byte too many, or one  *)
(* too few), a body over the limit, and sensors with chunk one.            *)
(***************************************************************************)
EXTENDS ImportManifest

MCSize == [c \in {"a", "b", "big"} |-> IF c = "a" THEN 2 ELSE IF c = "b" THEN 1 ELSE 4]

Form(c, body, sha, sensors) ==
  [chunk |-> c, body |-> body, sha |-> sha, sensors |-> sensors]

MCUpload ==
  {Form(0, "a", "a", TRUE), Form(1, "b", "b", FALSE)}
    \union {Form(0, "a", "a", FALSE), Form(0, "b", "a", TRUE), Form(0, "b", "b", TRUE),
            Form(1, "a", "a", FALSE), Form(1, "b", "b", TRUE), Form(1, "big", "big", FALSE)}
=============================================================================
