# A TLA+ model of phi-crypto

phi-crypto is the cryptographic core of the Phi network: a Rust crate that a Go
validator (through a C ABI), browsers (through WebAssembly) and a Flutter wallet
call. These modules model its control logic: what every entry point checks, in
which order, what it refuses, what state it keeps and what callers can rely on,
composed with the parties around it (holders, relays, chains, browsers).
The algebra (pairings, hash-to-curve, ECDSA, BIP-32) lives in vendored crates; it
is modelled symbolically, from the way the code in `src/src/` uses it.

Source paths below are relative to the repository root `src/`.

## 1. Inventory

| Component | Source | State it keeps | Operations |
|---|---|---|---|
| Parameter cache | `src/bbs.rs` 197-227 | process-wide `Mutex<BTreeMap<count, params>>`, poison flag | `params_for`, `derive_params` |
| Byte decoders and encoders | `src/bbs.rs` 69-162, `src/voting_snark.rs` 110-174, 466-504, `src/ffi.rs` 140-173 | per call: position, fields read, last index | `SelectiveProof::{to,from}_bytes`, `VoteProof::{to,from}_bytes`, `decode_revealed` |
| Selective disclosure | `src/bbs.rs` 249-394, `src/bbs_2023.rs` | none; credentials and proofs are with their holders | `generate_keypair`, `sign_credential`, `derive_proof`, `verify_proof`, for `phi-bbs-v1` and `bbs-2023` |
| Hash transcripts | `src/voting.rs`, `src/semaphore.rs`, `src/voting_snark.rs` 50-71 | none | `compute_nullifier`, `external_nullifier`, `nullifier`, `bind_nonce`, `bind_context` |
| Composed anonymous vote | `src/voting_snark.rs`, `src/ffi.rs` 279-323 | none; the chain keeps spent nullifiers | `prove_vote`, `verify_vote_proof`, `phi_voting_verify_vote_v1` |
| Semaphore vote and tally | `src/semaphore.rs`, `src/voting.rs` | none; the chain keeps accepted submissions | `bind_nonce`, `phi_semaphore_verify_vote`, `distinct_nullifiers`, `verify_threshold_tally` |
| WebAuthn verifier | `src/webauthn.rs` | none; the relying party keeps challenges | `verify_webauthn`, `verify_webauthn_details` |
| DIDs, signatures, seed | `src/did.rs`, `src/seed.rs` | none; the wallet keeps a key, its owner a phrase | `generate_keypair`, `sign`, `verify`, `did_from_public`, `generate_mnemonic`, `derive_k1_keypair` |
| Secret hygiene | `src/secret.rs`, `Zeroizing` throughout | copies of secrets in memory | `into_boundary_owned`, wrapping, wiping, drops on every return path |
| C ABI | `src/ffi.rs` | the caller's memory | `as_slice`, `as_str`, `guard`, seven exports |
| WebAssembly and Flutter wrappers | `src/wasm.rs`, `bindings/flutter/rust/src/api.rs` | none | fifteen functions each |
| Flutter bridge | `bindings/flutter/rust/src/frb_generated.rs` and its Dart half | Futures, ports, the pool's queue, answers under way | dispatcher, wire functions, encoders, decoders |
| Errors | `src/error.rs` | none | `Display`, `code` |
| Vendored crates | `vendor/` | | |

**How they interact.** Every phi-bbs-v1 and composed-vote operation calls
`params_for`, from any thread of the process: the cache is the crate's only shared
mutable state and the only place where threads meet. Everything that arrives from
outside as bytes goes through one of three decoders first. Both voting layers sit on
the selective-disclosure proof and on the hash transcripts; the tally counts what
the Semaphore layer accepted. The boundaries hold a little logic of their own
(dedup-key comparison, nullifier length, curve codes, revealed-list decoding), which
belongs to the component behind it. The three surfaces are hand-written and pass the
same questions on to the same functions; the phone's calls reach its wrappers through
generated glue, as untyped messages, on a pool of threads.

**What is hard.** The cache is shared by threads, and the Flutter bridge runs calls
concurrently and answers them in any order. Otherwise the crate is sequential and
stateless, and its difficulty is of another kind: what untrusted peers can do between two calls.
Proofs and assertions are repeated, delayed, re-labelled, combined and altered; byte
strings are chosen so that they run together; length words lie; suites, curves and
encodings are mixed; a wallet is lost and rebuilt from memory. `PROJECT.json` lists
each hazard at the line where it bites with the properties that cover it.

**What makes each part correct.** Cache: answers equal a fresh derivation, growth is
bounded, the race is harmless, a poisoned lock never blocks. Decoders: no read
leaves the buffer, exactly one encoding per message is accepted. Disclosure: what is
accepted was signed and is complete, honest proofs pass. Votes: one ballot per
voter, counted as cast, nobody's honest ballot is lost. WebAuthn: a login is backed by a
fresh, unframed, present-user ceremony. Identity: a DID names one key, recovery
gives the same key, signatures have one form. Bridge: every Future completes once, with
an outcome of its own call. Surfaces: all three give one answer to one question and
touch no memory but the output. Hygiene: no un-wiped copy of a secret outlives a call.

## 2. Plan

Built so far, in order of importance:

1. `ParamsService`, `ParamsCache`, `ParamsCacheProofs`: the concurrent core and its refinement.
2. `WireDecoder`, `WireCodec`, `WireDecoderProofs`: everything untrusted enters here.
3. `SelectiveDisclosure`, `SelectiveDisclosureProofs`: both suites behind one trait.
4. `Transcript`, `FramingProofs`: what is hashed, and what lists of parts flatten to, shared by
5. `AnonymousVote` (which refines `BallotBox`) and `SemaphoreVote`, each with its proofs, which compose prover, relay, boundary and chain.
6. `WebAuthn` and `DidIdentity`, with `IdentityProofs` about both.
7. `RemoteCalls`, `SseCodec`, `FlutterBridge`: the asynchronous bridge, its messages and its refinement.
8. `CoreApi`, `FlutterApi`, `WasmApi`, `CAbi`, composed by `Surfaces`; `BoundaryProofs` is about 7 and 8.
9. `SecretHygiene`.

Left:

- a run of `WebAuthn` with two ceremonies whose halves are mixed.

## 3. Modules and how they correspond to the code

An `MC...` module gives the constants of the module it extends their values.
Definitions named `...Skipped`, `...Unframed` and the like, marked "Mutant" in the
text, are deliberately wrong variants used to confirm that each property can fail;
no action refers to them.

**ParamsCache.** One thread per caller; `pc` walks the statements of `params_for`.
`Lock` is `params_cache().lock()` at either site; `Hit`, `Miss` and `Insert` end the
critical section when the Rust guard is dropped, `Derive` runs unlocked between the
two. `Panic` unwinds from a point inside, poisoning the mutex if it is held, to
`guard` in `ffi.rs`. (The release profile has `panic = "abort"` and loses the whole
process; the model covers the builds that unwind, the tests among them.) The
`DERIVATIONS` counter of the tests goes up on entry to `derive_params`, before anything that can
panic; `charged` is that counter, per thread and count, less the derivations that panicked, and stays at 2. `ParamsService` is the abstract
specification: each call is answered with `DeriveParams(count)`, atomically.

**WireDecoder / WireCodec.** One decoding call, one action per field; `Reject`
stands for every early return. A big-endian `u32` and a payload byte are both one
*cell*, so a lying length turns words into payload and back as in the code, while
buffers stay short. `usize` is bounded by `USIZE_MAX`, so `checked_add` can fail.
Which byte strings decode to a curve point is an external constant. `WireCodec` adds
`to_bytes`, as the concatenation of a message's parts (a cell, a framed payload or an
entry each), and the reference definition of a well-formed message. The casts `len() as u32` of
`to_bytes` are the identity here: no list or payload of the model, as none of a well-formed message,
is as long as 2^32.

**SelectiveDisclosure.** One session: key generation, signing, deriving, transit
(the count and the revealed list may be replaced, repeatedly), judgement over the
struct or the bytes. A proof records which key and claims its prover knew and the
challenge it answered; a backend accepts it when the verifier recomputes that
challenge. The two suites differ where the code does: bounds, issuer headers (bbs-2023
only; the trait passes the empty one, `phi_bbs2023_verify_proof` any), who checks the
signature, who looks at `message_count` and at repeated indices. A repeated index makes
the bbs-2023 backend panic (it indexes past its list of hidden claims); over bytes
`decode_revealed` refuses it first, which `BytesAreJudged` states; a Rust caller of
`Bbs2023Sha256::verify_proof` gets the panic, which the run `verifiers_fail_closed` shows.

**Transcript.** What is hashed, as sequences of cells. SHA-256 is taken as collision
free, so a digest is represented by its input; length words are kept (`Framed`), because
ambiguity of the framing is the hazard.

**AnonymousVote.** `ProveVote` is `prove_vote` with the caller's claims and key,
right or wrong; `ProveSplit` is a client of the holder's own that uses another
secret for the derivation half. `Altered` is what a relay can do: change count, list
or nullifier, or splice in the other half of another ballot. `Submit` is the C entry
point followed by the chain's dedup. The chain itself is outside the repository and
modelled from the comments at `voting_snark.rs:101` and `ffi.rs:319`. `BallotBox` is the abstract
specification: eligible voters cast votes and the box counts one of each voter per election. A
voter is the secret in a credential; a ballot is a vote cast when its credential is of the issuer
that its chain trusts, and a record is a vote counted.

**SemaphoreVote.** Holders bind their own or any nullifier: this layer does not tie
it to the credential, as `CHANGELOG.md` says ("not Sybil-resistant on its own"), and
`ThresholdCountsVoters` states exactly what is left. The empty nonce of
`semaphoreBindNonce` for a nullifier of wrong length is modelled.

**WebAuthn.** The relying party issues and withdraws challenges, pages of three
origins run ceremonies, a channel alters the result. The assumptions on browsers,
authenticators and the relying party, which the verifier cannot check, stand at the
head of the module.

**DidIdentity.** A point is a curve and an identity; `twin` says that its compressed
bytes are valid on the other curve too. The wallet registers under either code and
encoding, signs under either code, is lost, and is restored from a phrase and
passphrase typed perhaps differently. Its specification is called `DidSpec`, and so on,
so that `IdentityProofs` can extend it beside `WebAuthn`.

**FlutterBridge / SseCodec / RemoteCalls.** `Call` is one synchronous foreign call: Dart
opens a port, writes its message, and the dispatcher and the wire function decode it and
queue a task. Pool threads `Take` tasks in order, `Finish` them or `PanicInTask` in any order,
and `Deliver` is the isolate's event loop. The pool and the handler belong to
`flutter_rust_bridge`, whose Rust half is vendored with the bindings; its Dart half is external. `SseCodec` holds both generated halves:
messages are cells without names or types, functions are numbers, so that a wrong order or
number shows as another call. Each wire function is a table row (its name and its
parameters in decoding order), as is each Dart method. Dart's integers are cut to their
width as `putUint8`, `putUint32` and the list encoders do (`Narrowed`): a curve code of 256 is a
valid 0 by the time Rust sees it. `RemoteCalls` is the abstract specification: a Future is
made for a call and completes once with one of its outcomes. `TypedCall` and `TypedOutcome`
say which calls and outcomes the type checkers of Dart and Rust let through. `vote_prove` is behind a
feature that the generated glue was made without, and so has no number.

**CoreApi, FlutterApi, WasmApi, CAbi, Surfaces.** `Core` is any function from the name and
arguments of a core function to a result, so a wrapper is exactly what it does to
arguments and errors. `CAbi` adds the caller's memory: pointers, lengths, NULL, overlap, and
`guard`'s answer to a panic. `WebauthnArgs`, a constant, is what the caller passes to the export with
seven slices. `Surfaces` asks all three the same questions; `Parameters` is the signature each
function has on both app surfaces. Its specification is called `SSpec`, so that `BoundaryProofs` can
extend it beside `FlutterBridge`.

**SecretHygiene.** A function is the list of its steps that touch a secret, in source
order; `Fail` marks each `?`, `Grow` a buffer that may be reallocated while it holds a secret. A
holder wipes on drop (`Zeroizing`, key types of the curve crates) or does not. What a `drop`, a
reallocation or a return leaves un-wiped is `residue`. Secrets are keys, phrases, passphrases, claims,
and the credential signature in its holder's hands.

## 4. Runs

| Run | Checks | Bounds, and why they are enough |
|---|---|---|
| `params_cache` | `CacheSound`, `LockDiscipline`, `WarmCallsNeverDerive`, `RederivesOnlyAfterPanic`, `CacheOnlyGrows`, `ImplementsService`, `CallsReturn` | 2 threads, 2 cacheable counts and 1 above the bound: one thread inserts, panics or poisons between the other's two locks. More threads are covered by the proofs. No symmetry, as liveness is checked. |
| `wire_decoder` | `ReadsStayInBounds`, `EntriesInOrder`, `AcceptedIsCanonical`, `EncodingsAreAccepted` | every buffer of up to 8 cells with values 0..3 for each decoder, vote buffers of 10 cells so that two entries fit, `MAX_BBS_MESSAGES = 2`, `USIZE_MAX = 10` so that a length can overflow. A vote may not list index 0, so with this bound a vote of two entries is only ever refused; `DecodersKeepOrder` covers accepted ones. |
| `selective_disclosure` | `AcceptedEntriesWereSigned`, `AcceptedListIsComplete`, `HonestProofsVerify`, `BytesAreJudged` | up to 3 claims with a bound of 2, lists of up to 2 entries, an empty and another header: repeated indices, unsorted lists and counts on both sides of the bound. |
| `derived_bytes` | `DerivedProofsSurviveBytes`, violated | the same instance. |
| `verifiers_fail_closed` | `VerifiersFailClosed`, violated | the same instance. |
| `anonymous_vote` | `OneBallotPerSecret`, `RecordedAsCast`, `HonestBallotsCount`, `ImplementsBallotBox` | 2 proving runs suffice to repeat, mix and re-label; one secret with two credentials, one foreign issuer; ids chosen to run together when unframed. |
| `semaphore_vote` | `TypeOK`, `VotesAreAsBound`, `ThresholdCountsVoters`, `NullifiersAreSeparate` | 2 proofs, 3 accepted submissions per election: two votes and a repeat. |
| `webauthn` | `LoginsAreGenuine`, `NoReplay`, `OneSignatureValue`, `HonestLoginsSucceed` | 1 ceremony, 2 challenges, 3 origins of 2 relying parties, 2 keys: a replay needs two challenges; mixing two ceremonies is left. |
| `did_identity` | `DidsIdentifyPoints`, `RecoveryRestoresIdentity`, `SignaturesAreFirm` | 1 random key beside the seed keys, 2 DIDs (the property compares pairs), 3 entropies of which two share a checksum, 3 spellings of which two are one passphrase. |
| `flutter_bridge` | `CallsRoundTrip`, `TasksMeanTheirCalls`, `OneAnswerPerCall`, `ImplementsRemoteCalls`, `EveryFutureCompletes` | 18 calls (each exported function, and unknown curves, integers out of width, empty lists, errors), 2 at a time on 2 threads: enough to finish in the other order. `U8 = 4`, `U32 = 8` so that integers overflow. Results are free terms of their arguments, so that exchanged arguments show. |
| `surfaces` | `ChainAcceptsWhatAppsAccept`, `NullifierLandsInOut`, `BrowserAgreesWithPhone` | 3 cells of memory, a nullifier of 2: every placement of pointers and lengths, NULL, empty, overlapping, too short; each function asked of browser and phone. The seven arguments of the WebAuthn verifier have weights of their own in the verdict and vary one at a time, so that any two of one type, exchanged in one surface, show. |
| `secrets_left` | `ZeroizedAfterUse`, violated | 22 functions, each failing at any `?` or not at all. |

Deadlock is checked except where all bounded inputs can be used up or a call has
simply returned; the `.cfg` says which.

### What the three violations show

- `derived_bytes`: `bbs.rs:85` calls `from_bytes` the inverse of `to_bytes`, but a
  bbs-2023 proof of more than `MAX_BBS_MESSAGES` claims, which nothing forbids to
  make, encodes to bytes that `from_bytes` refuses. (The C entry point of bbs-2023
  does not use this encoding; `HonestProofsVerify` shows that it works up to that many
  *revealed* claims.)
- `verifiers_fail_closed`: `SECURITY.md:44` says that "Every verification entry point returns a
  safe negative on any error or malformed input". `Bbs2023Sha256::verify_proof`
  (`bbs_2023.rs:203`) passes the struct's list on unchecked. Where it names one claim twice the
  backend expects one hidden claim more than the proof has and indexes past them
  (`vendor/pairing_crypto/src/schemes/bbs/core/proof.rs:340`): a panic, which the `unwrap_or(false)` at
  `bbs_2023.rs:157` does not catch. No byte interface lets such a list through.
- `secrets_left`: `SECURITY.md:49` says "zeroized after use", `SECURITY.md:73` "Secret inputs are held
  in zeroizing memory" and `tests/secret_boundary.rs:2` "No secret leaves Rust as an extra, un-wiped
  copy". TLC's trace is a browser call that copied a claim and met one that is not a
  `Uint8Array`. TLC stops there; these are all the copies that some path of the 22 functions leaves behind:

| Where | What | When |
|---|---|---|
| `wasm.rs:30` | the claims copied so far by `claims_from_array`, which no caller has wrapped yet | error |
| `api.rs:175` | the signature `vote_prove` owns, never wrapped (`bbs_derive_proof` wraps its own, `api.rs:158`) | always |
| `bbs_2023.rs:116` | a clone of every claim, hidden ones too, made by `proof_gen` | always |
| `bbs_2023.rs:54` | `ikm`: the `?` on `KeyPair::new` returns before `ikm.zeroize()` (32 bytes are never refused in practice) | error |
| `bbs.rs:231` | prefixes of the issuer key: `ser` starts from an empty `Vec` and ark-ff writes a scalar eight bytes at a time | if the buffer moves as it grows |
| `seed.rs:40` | prefixes of the passphrase: `nfkd().collect::<String>()` grows before `Zeroizing::new` has it | if the buffer moves as it grows |
| `frb_generated.rs:777` | the `Vec` of a key or phrase, which the generated encoder copies out and frees (four wire functions) | success |

The other functions leave nothing: `did`'s key generation and phrase generation in the core, bbs-2023
signing, and on the phone signing, nullifiers, credential signing and deriving.

Not a violation of anything the model states, but to be known: a mistyped phrase is refused by the
8-bit BIP-39 checksum only, so of the wrong phrases made of list words one in 256 restores another identity
without an error, where the comment at `seed.rs:230` says that a typo "must FAIL". `Restore` allows it.

### Fairness

`params_cache` assumes weak fairness of each thread's own next step
inside `params_for`. A running thread is scheduled, and `derive_params` terminates.
Nothing is assumed of callers, panics or the mutex's order of service, since
`std::sync::Mutex` is not fair; `CallsReturn` is therefore stated for behaviours in
which new calls eventually stop, without which a waiting thread may be overtaken
for ever. `flutter_bridge` assumes weak fairness of every pool thread, taking and
finishing (or panicking), and of the event loop: the wrappers terminate, and neither pool nor loop
idles while it has work. Nothing obliges the app to call.

## 5. Proofs

Checked by TLAPS, for every value of the constants that satisfies the named
assumptions.

- **ParamsCacheProofs.** `IInv` joins the checked invariants and `TypeOK` with `CallInv` (what a
  thread's locals are at each `pc`), `WarmInv` (a warm call's entry is still there), `CountedInv` (the
  derivation a thread is in has been counted, so that its panic can be taken off again) and
  `DerivationInv` (a thread charged with a derivation of a count finds it cached, or is deriving it, or
  is about to insert it). The last two are why `RederivesOnlyAfterPanic` is not inductive by itself: it
  speaks of a counter, and only the cache and `pc` explain why it stops. From `IInv` follow
  `TypeCorrect`, `CacheIsSound`, `LockIsDisciplined`, `WarmCallsHit`,
  `StampedeIsBounded`, the action property `CacheIsMonotonic`, and
  `CacheIsTransparent`: every step of the cache is an abstract call, answer, abandonment
  or stutter.
- **WireDecoderProofs.** `LoopInv` says that `prev` bounds the indices pushed and that
  both announced counts are within the bound. `DecodersArePanicFree` holds for every
  buffer and every width of `usize`; `DecodersKeepOrder` for every input. What is decoded
  needs three more invariants. `ReadInv`: the cells before the position are the encoding of
  what was decoded so far, and `ParseInv`: what was decoded so far is well formed; at
  acceptance the position is the end, hence `AcceptedBuffersAreCanonical` (a buffer that is
  accepted is *the* encoding of a well-formed message). `FollowInv`: on the encoding of a
  well-formed message the decoder has read a beginning of that message and refused nothing;
  hence `EncodingsOfMessagesAreAccepted`. Both rest on the lemmas of `FramingProofs` about
  flattening a list of parts one part at a time.
- **SelectiveDisclosureProofs.** For both suites, any claims, headers and bounds. The
  invariant keeps what each step wrote until it is used: the credential is over claims the
  issuer's suite takes (`Signed`), the message still carries the derived proof whatever else
  was replaced (`InTransit`), the verdict is the verifier's on what arrived (`Judged`). A recomputed challenge fixes the
  revealed list and the count, so the entries are those the prover knew
  (`AcceptedEntriesAreSigned`) and all it chose (`AcceptedListsAreComplete`);
  `HonestProofsAreAccepted` and `BytesNeverPanic` go the other way. That
  the list `derive_proof` builds holds the revealed indices once each and in order is
  `RevealedListIsReveal`, from `NthEnumerates`.
- **FramingProofs.** What every codec here rests on. `FlattenSeq` of a longer list is that of the
  shorter one followed by the new part (`FlattenAppend`), and splits anywhere (`FlattenConcat`).
  These are inductions over a list's length; they are made with
  `NatSetInduction`, induction stated about a set of numbers instead of a predicate and
  derived from the least element of its complement. Then the transcripts: `Framed(b, rest)`
  determines `b` and `rest`
  (`FramedInjective`); from it `BindContextInjective`, `BindNonceInjective` and
  `NullifierInjective`, for byte strings of any length.
- **AnonymousVoteProofs.** `BallotInv` describes every ballot a prover can emit,
  `KeyInv` says that a recorded key is the nullifier of its voter's signed secret and is
  spent once. `AcceptedIsAsCast` is the heart: whatever a relay alters, the
  eligibility half still answers the challenge it was made for, so
  `BindContextInjective` gives chain, election and option, and the equality of responses
  gives the secret. Hence `OneVotePerSecret` and `BallotsAreAsCast`.
  `HonestBallotsAreCounted` follows `BallotInv` through every check of `verify_vote_proof`:
  an unaltered ballot passes them on the chain it was cast on, and fails one elsewhere.
  `VotingIsABallotBox` is the refinement: an emitted proof is a vote cast or not visible, and a
  recorded submission counts a cast vote of a voter who had none, since by `KeyInv` a second record of
  the secret would have had the dedup key that `Submit` found unspent.
- **SemaphoreVoteProofs.** `ProofInv` says which nonce each proof answers;
  `BindNonceInjective`, and that a nonce is never empty, give `VotesStayAsBound`.
  `NullifierInjective` gives `SeparateNullifiers`, and with the finiteness of what was
  submitted `ThresholdIsVoters`: honest voters each count once, and only made-up nullifiers
  add to them. `RecordsAreWellFormed` is the type invariant.
- **IdentityProofs.** WebAuthn: `MadeInv` says that each signature is over what the
  authenticator saw and the browser wrote, `SpentInv` that a challenge that logged somebody
  in is not outstanding again and belongs to no other login. `NoReplay` is not inductive
  without it. Hence `LoginsStayGenuine`, `AssertionsAreNotReplayed`,
  `SignaturesAreNotMalleable`, `HonestLoginsAreAccepted`. Identity: `RegistryInv` (a
  registered DID is its curve's tag and the canonical encoding of its point), `BackupInv` and
  `EnteredInv` (the key on the device is the one derived from what was typed in), `SignedInv`.
  Hence `DidsStandForPoints`, `OwnersRecoverTheirKeys`, `SignaturesStayFirm`.
- **BoundaryProofs**, the bridge. For any ports, threads, calls and messages, from the hypothesis
  `CodecRoundTrips` (the two halves agree). `IInv` joins type correctness, the fidelity of tasks
  and answers, and `AtMostOne`: a port has at
  most one task or answer under way, in the queue, with a thread or in the inbox. Without it
  a delivered answer could leave a second one behind for a Future that has completed. Hence
  `CarriersAreFaithful`, the refinement `BridgeImplementsRemoteCalls`, and
  `EachCallIsAnsweredOnce`: an open port has exactly one carrier, a closed one none.
- **BoundaryProofs**, the messages. `GeneratedHalvesAgree` proves that hypothesis of the generated
  code, for every call and outcome of the declared types, of whatever length and value; only
  `GeneratedCode` is assumed, which says that the bridge uses the generated halves and that calls and
  outcomes are typed. (`CallsAreTyped` has TLC evaluate the latter for the calls of the run.) The argument
  follows a cursor: `Lies(b, pos, s)` says that the cells `s` stand in the message after position
  `pos`, and for each type a `Reads...` lemma says that its decoder, started where an encoding
  stands, returns the value cut to its width and stops where the encoding ends. The two loops
  (`Lists`, `DecodeArgs`) are recursive functions; each is shown by `NatSetInduction` to hold after `k` items
  the first `k` values and the position `Off(k)` at which the next part begins, with the
  parts placed by `FlattenConcat`. `TablesAgree` compares the two tables row by row, and parameters are
  found again under their names because a row names each once (`CallArrives`). `AnswerReturns` is the way
  back. Hence `CallsRoundTripSafety`, and the theorems on the bridge without their hypothesis
  (`GeneratedBridgeIsFaithful`).
- **BoundaryProofs**, the surfaces. For any core, memory, cells, lengths and questions.
  `SurfacesInv` adds to the two properties of the C ABI that before a call memory is a row of `MEM` of the
  caller's cells, and that what was asked is a question. Without the first the properties are not
  inductive: a slice of an arbitrary memory need not be bytes, and what the copy into `out` leaves could
  not be computed. `SignatureAgrees`, `BbsProofAgrees` and `LoginAgrees` then compare the
  bodies with the wrappers, argument by argument: `ChainAcceptsSafety`. `NullifierIsWritten`
  computes what the copy into `out` leaves, overlapping or not: `NullifierLandsSafety`. `BrowserAnswers`
  goes through the fifteen functions, with `ArrayIsTheClaims` for the claims that the browser
  copies one by one: `BrowserAgreesSafety`.

The assumptions on constants, which TLC evaluates in each run, are of two kinds. Bounds
are natural numbers, with `MAX_BBS_MESSAGES` at least 2 in `AnonymousVote` (a ballot's
credential has a secret and a claim). Marks for "nothing" differ from what they stand
beside: `NoJobAssumption` for a pool thread without a task, `None` in `DidIdentity`. Beyond
these, byte strings are sequences of cells (`BytesAssumption`, `InputsAssumption`,
`MessagesAssumption`), maps between constants are functions on their sets, and normalizing a
passphrase twice is normalizing it once (`ConstantsAssumption`). For the boundaries, the C caller's lengths
and codes are natural numbers (`MemoryAssumption`) and what it passes to `phi_webauthn_verify` are regions of its
memory (`WebauthnAssumption`), a nullifier has `NULLIFIER_LEN` bytes, the `[u8; 32]` of the source
(`NullifierAssumption`), and a question has a function's parameters with claims where its
signature has them (`QuestionsAssumption`): the compilers of the callers see to that.

**Only model-checked:**

- liveness (`CallsReturn`, `EveryFutureCompletes`), which the prover does not reach;
- `SecretHygiene`: its property does not hold, and without constants TLC's search of its paths is
  complete.

## 6. What is not modelled

- The arithmetic in `vendor/`: unforgeability, zero knowledge, unlinkability and
  collision resistance are assumed, in the form each module's head states.
- Timing (constant-time comparisons, `blinded_mul`'s masking): only the results of
  these operations are modelled.
- The zero challenge `compute_challenge` refuses, of negligible probability.
- In the bridge: `IntoDart` implementations and the synchronous dispatcher (no exported
  function uses either), and the linkage at the end of the file.
- Copies of secrets that the compiler makes when it moves a value, and those in the
  message buffers of wasm-bindgen and the bridge.
- `CryptoError::code`, which nothing calls. Error texts are kept apart from each other and
  otherwise opaque.
- The release profile's `panic = "abort"` in the cache and the bridge, which are modelled as
  they behave when panics unwind; at the C boundary both are (`guard`).
