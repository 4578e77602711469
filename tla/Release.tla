------------------------------ MODULE Release ------------------------------
(***************************************************************************)
(* A release that is verified before anything of it is launched            *)
(* (metralectl-control/src/release.rs, release/), and the documents it is  *)
(* read from (platform/): what a reader accepts, the canonical text that a *)
(* digest is over, the hybrid signature and the list of what is revoked.   *)
(*                                                                         *)
(* A digest is the thing it is the digest of; a half of a signature names  *)
(* the key that made it and what it was made over, so that a key verifies  *)
(* exactly its own.  A name is a sequence of characters, each standing for *)
(* its class.                                                              *)
(***************************************************************************)
EXTENDS Integers, Sequences, FiniteSets, SequencesExt

LOCAL Ok(x)  == <<"ok", x>>
LOCAL Err(e) == <<"err", e>>

-----------------------------------------------------------------------------
(***************************************************************************)
(* Names.  "a" is any lower-case letter, "A" any upper-case one, "0" any   *)
(* digit; the others are themselves.                                       *)
(***************************************************************************)
LowerDigit == {"a", "0"}
Alnum      == {"a", "A", "0"}

Segments(s, separators) ==
    LET cuts == {i \in DOMAIN s : s[i] \in separators}
        ends == SetToSortSeq(cuts \cup {Len(s) + 1}, <)
    IN  [i \in DOMAIN ends |->
            SubSeq(s, (IF i = 1 THEN 1 ELSE ends[i - 1] + 1), ends[i] - 1)]

Word(s, first, rest, max) ==
    /\ s # <<>>
    /\ s[1] \in first
    /\ Len(s) <= max + 1
    /\ \A i \in 2 .. Len(s) : s[i] \in rest

ModelName(s) == Word(s, Alnum, Alnum \cup {".", "_", ":", "/", "-"}, 127)

RecipeSegment(s) == Word(s, LowerDigit, LowerDigit \cup {".", "_", "-"}, 63)

\* One slash at most: what follows the first is one segment.
RecipeId(s) ==
    LET parts == Segments(s, {"/"}) IN
    Len(parts) <= 2 /\ \A i \in DOMAIN parts : RecipeSegment(parts[i])

FlagKey(s) == Word(s, {"a"}, {"a", "0", "_"}, 63)
EnvKey(s)  == Word(s, {"A"}, {"A", "0", "_"}, 127)

IsDnsLabel(s) ==
    /\ Len(s) \in 1 .. 63
    /\ \A i \in DOMAIN s : s[i] \in LowerDigit \cup {"-"}
    /\ s[1] # "-" /\ s[Len(s)] # "-"

IsImageRepository(s) ==
    Len(s) <= 255
    /\ \A seg \in Range(Segments(s, {"/"})) : \A part \in Range(Segments(seg, {".", "_", "-"})) :
            part # <<>> /\ Range(part) \subseteq LowerDigit

\* The name is what follows the first slash, and no other may be in it.
IsModelRepository(s) ==
    LET parts == Segments(s, {"/"}) IN
    /\ Len(parts) = 2
    /\ \A i \in 1 .. 2 : Word(parts[i], Alnum, Alnum \cup {".", "_", "-"}, 95)

-----------------------------------------------------------------------------
(***************************************************************************)
(* The canonical text of a document.  An object is the sequence of its     *)
(* members in the order they were inserted; rank orders the names.         *)
(***************************************************************************)
Digit == <<"0", "1", "2", "3", "4", "5", "6", "7", "8", "9">>

\* A number below a hundred.
Digits(n) ==
    IF n < 10 THEN <<Digit[n + 1]>> ELSE <<Digit[(n \div 10) + 1], Digit[(n % 10) + 1]>>

\* string: what would end or bend the text is escaped.
Quoted(s) ==
    LET Escaped(c) == IF c \in {"\"", "\\"} THEN <<"\\", c>> ELSE <<c>> IN
    <<"\"">> \o FlattenSeq([i \in DOMAIN s |-> Escaped(s[i])]) \o <<"\"">>

Joined(texts) ==
    FlattenSeq([i \in DOMAIN texts |-> IF i = 1 THEN texts[i] ELSE <<",">> \o texts[i]])

KeyOrder(members, rank) ==
    SortSeq(members, LAMBDA x, y : rank[x[1]] < rank[y[1]])

RECURSIVE Canonical(_, _)
Canonical(value, rank) ==
    CASE value[1] = "null" -> <<"null">>
      [] value[1] = "bool" -> <<IF value[2] THEN "true" ELSE "false">>
      [] value[1] = "num"  -> Digits(value[2])
      [] value[1] = "str"  -> Quoted(value[2])
      [] value[1] = "arr"  ->
            <<"[">> \o Joined([i \in DOMAIN value[2] |-> Canonical(value[2][i], rank)]) \o <<"]">>
      [] value[1] = "obj"  ->
            LET members == KeyOrder(value[2], rank) IN
            <<"{">> \o Joined([i \in DOMAIN members |->
                Quoted(members[i][1]) \o <<":">> \o Canonical(members[i][2], rank)]) \o <<"}">>

-----------------------------------------------------------------------------
(***************************************************************************)
(* The documents of a release, as a reader accepts them: this version, no  *)
(* empty list where one item is needed, numbers within their ranges.       *)
(***************************************************************************)
V1(v) == v = 1
NonEmpty(list) == list # {}
Permille(v) == v \in 1 .. 1000

StoragePrecision == {"bf16", "fp16", "fp8", "nvfp4", "mxfp4", "int8", "int4"}
Precision        == StoragePrecision \cup {"adaptive"}
Engine           == {"metrale", "sim", "vllm", "sglang"}
Modality         == {"text", "image", "audio", "video"}

ReadModel(m)        == NonEmpty(m.weights)
ReadQuantization(q) == q.weights \in StoragePrecision /\ q.activations \in Precision
                       /\ q.kv_cache \in StoragePrecision
ReadLimits(l)       == l.max_context_tokens > 0 /\ l.max_concurrent_sequences > 0
                       /\ Permille(l.gpu_memory_permille)
ReadRuntime(r)      == r.engine \in Engine /\ NonEmpty(r.hardware_classes) /\ r.min_nodes > 0
ReadSemantics(s)    == NonEmpty(s.input_modalities) /\ s.input_modalities \subseteq Modality
                       /\ NonEmpty(s.output_modalities) /\ s.output_modalities \subseteq Modality

\* ModelRecipe.
ReadRecipe(r) ==
    /\ V1(r.version)
    /\ ReadModel(r.model) /\ ReadQuantization(r.quantization) /\ ReadLimits(r.limits)
    /\ ReadRuntime(r.runtime) /\ ReadSemantics(r.semantics)

\* ReleaseManifest.
ReadManifest(m) == V1(m.version) /\ NonEmpty(m.hardware.fingerprints) /\ NonEmpty(m.receipts)

\* RevocationList.
ReadList(l) == V1(l.version) /\ l.sequence > 0 /\ NonEmpty(l.revoked)

-----------------------------------------------------------------------------
(***************************************************************************)
(* The principals a host trusts, and a document signed by one of them.     *)
(***************************************************************************)
NodeIdOf(keys) == <<"node", keys.ed25519, keys.ml_dsa_65>>

\* RegistryPrincipals::new.
PrincipalsError(principals) ==
    IF principals = <<>> THEN "NoPrincipal"
    ELSE IF \E i \in DOMAIN principals :
                principals[i].node_id # NodeIdOf(principals[i].signing) THEN "KeysOfAnother"
    ELSE IF \E i, j \in DOMAIN principals :
                i # j /\ principals[i].node_id = principals[j].node_id THEN "ListedTwice"
    ELSE "none"

\* signed_string: the domain of the kind, then the digest.
SignedString(kind, document) == <<kind, document>>

Signs(key, text) == <<"by", key, "over", text>>

\* SignatureVerifier::verify of RegistryPrincipals.
VerifySignature(principals, kind, document, sig) ==
    LET known == SelectSeq(principals, LAMBDA p : p.node_id = sig.signer)
        text  == SignedString(kind, document)
    IN  IF sig.kind # kind \/ sig.document # document \/ known = <<>> THEN Err("Unsigned")
        ELSE IF \/ sig.ed25519 # Signs(known[1].signing.ed25519, text)
                \/ sig.ml_dsa_65 # Signs(known[1].signing.ml_dsa_65, text)
        THEN Err("Unsigned")
        ELSE Ok(sig.signer)

-----------------------------------------------------------------------------
(***************************************************************************)
(* The gate.                                                               *)
(***************************************************************************)
Unverified == {"Changed", "ManifestRevoked", "SignerRevoked", "ReceiptsRevoked", "Unsigned",
               "Recipe", "HardwareClass", "FingerprintNotQualified", "Model"}

NoneRevoked == [manifests |-> {}, receipts |-> {}, signers |-> {}]

\* bound: the recipe that came with the manifest is the one it names, and the
\* two agree.
Bound(manifest, recipe) ==
    /\ manifest.recipe = recipe
    /\ manifest.model.source = recipe.model.source
    /\ manifest.model.weights = recipe.model.weights
    /\ manifest.runtime.image = recipe.runtime.image
    /\ manifest.hardware.hardware_class \in recipe.runtime.hardware_classes

\* classify: the one class this build knows, "" for any other.
Classify(accelerator) == IF accelerator \in {"gb10", "grace blackwell"} THEN "gb10" ELSE ""

\* hardware::check, the requirement of a recipe.
HardwareMeets(required, accelerator) == Classify(accelerator) = required

Verify(manifest, recipe, expected, sig, principals, revoked, here) ==
    LET signed == VerifySignature(principals, "release_manifest", manifest, sig) IN
         IF manifest # expected                     THEN Err("Changed")
         ELSE IF manifest \in revoked.manifests     THEN Err("ManifestRevoked")
         ELSE IF signed[1] = "err"                  THEN Err("Unsigned")
         ELSE IF signed[2] \in revoked.signers      THEN Err("SignerRevoked")
         ELSE IF manifest.receipts \subseteq revoked.receipts THEN Err("ReceiptsRevoked")
         ELSE IF ~Bound(manifest, recipe)           THEN Err("Recipe")
         ELSE IF Classify(here.accelerator) # manifest.hardware.hardware_class
                                                    THEN Err("HardwareClass")
         ELSE IF here.fingerprint \notin manifest.hardware.fingerprints
                                                    THEN Err("FingerprintNotQualified")
         ELSE IF manifest.model.source.repository # here.model
                                                    THEN Err("Model")
         ELSE Ok([digest |-> manifest, image |-> manifest.runtime.image, signer |-> signed[2]])

(***************************************************************************)
(* accept: what a list revokes, if it may be believed.  A list from the    *)
(* future has no age.                                                      *)
(***************************************************************************)
ListRefused == {"Unsigned", "SignedByARevokedSigner", "Rollback", "Stale"}

RevokedBy(list) ==
    [manifests |-> {s[2] : s \in {r \in list.revoked : r[1] = "release_manifest"}},
     receipts  |-> {s[2] : s \in {r \in list.revoked : r[1] = "compatibility_receipt"}},
     signers   |-> {s[2] : s \in {r \in list.revoked : r[1] = "signer"}}]

Age(now, issued) == IF now > issued THEN now - issued ELSE 0

\* Mutant: a list is as good as the next one.
AcceptAnyOrder(principals, list, sig, policy) ==
    LET signed  == VerifySignature(principals, "revocation_list", list, sig)
        revoked == RevokedBy(list)
    IN  IF signed[1] = "err"                  THEN Err("Unsigned")
        ELSE IF signed[2] \in revoked.signers THEN Err("SignedByARevokedSigner")
        ELSE IF Age(policy.now, list.issued_at) > policy.max_age THEN Err("Stale")
        ELSE Ok([revoked |-> revoked, sequence |-> list.sequence])

AcceptList(principals, list, sig, policy) ==
    LET signed  == VerifySignature(principals, "revocation_list", list, sig)
        revoked == RevokedBy(list)
    IN  IF signed[1] = "err"                  THEN Err("Unsigned")
        ELSE IF signed[2] \in revoked.signers THEN Err("SignedByARevokedSigner")
        ELSE IF list.sequence < policy.held   THEN Err("Rollback")
        ELSE IF Age(policy.now, list.issued_at) > policy.max_age THEN Err("Stale")
        ELSE Ok([revoked |-> revoked, sequence |-> list.sequence])
=============================================================================
