# TLA+ models of the NTLS (TLCP) handshake in Tongsuo

This directory models, checks and partly proves the NTLS handshake of the
Tongsuo fork in `src/tongsuo`: the dual-certificate protocol TLCP
(GB/T 38636), implemented by `ssl/statem_ntls/`. The handshake is the
repository's own core logic. Most of the rest is OpenSSL's, vendored lattice
cryptography, or glue and demos.

## 1. Inventory

| Component | State it keeps | Operations | What is hard | What makes it correct |
|---|---|---|---|---|
| Message flow machine, `ntls_statem.c` | flow state, read/write sub-state, work state, `init_num`, `rwstate` | `state_machine_ntls` and its reading and writing sub-machines | every read, write, flush and callback may return early and be resumed; two ends that wait for each other | each step is done exactly once; nothing stays unflushed while both read; the application waits for the right event |
| Server handshake, `ntls_statem_srvr.c` | hand state, `hit`, `renegotiate`, `certreqs_sent`, verify mode, the transcript buffer, keys, session | read and write transition tables, one handler per message | message orders no client of this repository produces; resumption by identifier or ticket; renegotiation; reuse of the object | a finished handshake was verified and runs under its own keys; required clients are authenticated |
| Client handshake, `ntls_statem_clnt.c` | the same, and what was learned of the server | the same | the same from an arbitrary server; HelloRequest at any time | the same for the server's certificate pair and its signed key exchange |
| Shared code, `ntls_statem_lib.c` | transcript, Finished values | message I/O, CertificateVerify, Finished, ChangeCipherSpec, the end of a handshake | the order of digesting, key switch and buffer release | both ends hash the same messages and switch keys at the same place |
| Dual certificate checking (client and server) | `peer_chain` | rotate, verify, rotate back, verify | a retry by the verify callback between the rotations | both certificates were verified, and the list keeps its order |
| Sessions, `ssl_sess.c` | reference counts, hash table and ordered list of the SSL_CTX, ticket keys | lookup, insert with eviction, flush, removal, re-timing, external cache callbacks, tickets | threads that share the SSL_CTX; overflowing time-outs; expiry and key rotation between connections; breaks before the Finished | references are exact, table and list agree; only complete sessions are resumable, and both ends agree on them |
| Record layer, `record/rec_layer_s3.c` | keys of both directions | alerts, stray records, re-entry into the machine | alerts between ChangeCipherSpec and Finished | a record is read under the keys it was written under |
| Extensions, `ntls_extensions*.c` | negotiated flags | parse and construct | flags that the two sides remember differently | the messages they announce are the messages sent |
| Key exchange suites (SM2, SM2DHE, hybrids with Kyber and others) | `tmp.pms`, `tmp.pkey`, hybrid slots | SKE and CKE per suite | slots that mean different things in different suites; length limits | both ends combine the same parts, all of this handshake |
| Version choice, SSL API, TLS 1.3 and DTLS machines, libcrypto, providers, PQMagic, Angie, demos, scripts | | | | not modelled, see section 7 |

Components interact by calls within one thread of an endpoint: the application
calls `SSL_do_handshake` or `SSL_read`, those call `state_machine_ntls`, which
calls transition tables and handlers, which call the record layer and the
application's callbacks. The two endpoints share nothing but the two byte
streams. Connections of one server share the `SSL_CTX` (session cache, ticket
keys), possibly from several threads, under its lock.

The hazards, each at its line and with the properties that watch it, are listed
in `PROJECT.json`.

## 2. Modules

| Module | Models |
|---|---|
| `NtlsWire` | messages, tickets, session identifiers, the two streams, the transcript digest |
| `NtlsServer` | the server's SSL object and session, the SSL_CTX cache and ticket key; one action per handler |
| `NtlsClient` | the client's SSL object and session; one action per handler |
| `NtlsHandshake` | both, interleaved over several connections that may break, with an aging cache |
| `NtlsServerOpen` | the server alone, against a client that says anything |
| `NtlsClientOpen` | the client alone, against a server that says anything |
| `NtlsMsgFlow` | the message flow machine of both ends at the grain of partial reads and writes |
| `NtlsTurns` | the abstract specification of that machine: whole messages, in turn, to the end |
| `NtlsPeerChain` | the rotation of the certificate list around the two verifications |
| `NtlsKex` | what the ServerKeyExchange and ClientKeyExchange of each kind of suite do with the slots of both SSL objects, over several handshakes |
| `NtlsSessCache` | the session cache of an SSL_CTX that several threads share, with an external cache behind it |
| `NtlsEndpointProofs` | lemmas about `NtlsServer` and `NtlsClient`: types, and the invariants that each keeps whatever its peer sends |
| `NtlsServerSafety`, `NtlsClientSafety` | theorems about `NtlsServerOpen` and `NtlsClientOpen` |
| `NtlsHandshakeProofs` | theorems about `NtlsHandshake` |
| `NtlsPeerChainProofs` | theorems about `NtlsPeerChain` |
| `NtlsSessCacheProofs` | theorems about `NtlsSessCache` |
| `NtlsMsgFlowProofs` | theorems about `NtlsMsgFlow`, the safety of its refinement of `NtlsTurns` included |
| `NtlsKexProofs` | theorems about `NtlsKex` |
| `MC...` | instances for TLC |

How they fit: `NtlsServer` and `NtlsClient` process a message in one step.
`NtlsMsgFlow` justifies this by implementing `NtlsTurns`
(`ImplementsTurns`): whatever the sockets do, messages are sent whole,
processed once and in order. `NtlsPeerChain` opens up the one handler whose
intermediate states survive a return to the application. `NtlsKex` opens up the
two handlers per side that the endpoint modules reduce to one secret: its
`MasterSecretAsPromised` is why that secret is the same at both ends.
`NtlsSessCache` opens up the cache that `NtlsServer` treats as a set of
sessions: its `CacheConsistent` and `ReferencesExact` are why a set is enough.

### State and actions against the code

The record `srv` (and `cli`) is the SSL object: `flow` is `statem.state`, `hand`
is `statem.hand_state`, `hit`, `renegotiate`, `helloReq`
(`request_state`), `ticketExpected`, `newCipher`, `ccs`
(`s3.change_cipher_spec`) and `buffer` (is `handshake_buffer` still there?)
have their code's meaning; `rkey` and `wkey` are the epochs of the two
directions, named by the master secret (0 for plaintext); `finSent` and
`finRead` are the non-zero lengths behind `SSL_IS_FIRST_HANDSHAKE`. `proved`
and `finOk` are history: a CertificateVerify, a Finished was verified.
`srvSess`/`cliSess` is `s->session`, and `srvHs`/`cliHs` the transcript.

A write action is enabled by `ServerWriting(h)`, the write transition to `h`, and
stands for the whole round TRANSITION, PRE_WORK, construct, SEND, POST_WORK; a
read action is enabled by `ServerReading(h)`, the read transition for the
message at hand under the right keys, and stands for the header, the body, the
handler, and its post processing. `ServerFatal` is `SSLfatal_ntls` with its alert and
the removal of the session from the cache.

In `NtlsKex` a buffer is a sequence of parts, each known by what it is, by the
handshake of the server key behind it and by the handshake of the client's
randomness; `pms`, `pkey`/`peerTmp` and `aigis` are `s3.tmp.pms`,
`s3.tmp.pkey`/`s3.peer_tmp` and `s3.tmp.aigis_kem_pkey`, and `group` is
`session->kex_group`. Each suite has one definition per handler
(`ServerSkeEccKyber`, `ClientCkeSm2dhe`, ...), and each handler is one action,
with its length and NULL checks as the choice between its result and an error.
`Clear` is `ssl3_clear`, at any point; `StartHandshake` leaves the slots alone, as
the code does.

In `NtlsSessCache` an object is an `SSL_SESSION` with its reference count;
`hash`, `list` and `store` are `ctx->sessions`, the list from head to tail, and
the external cache (with the behaviour of Angie's callbacks, which serialise a
session, hand out a new object and drop an entry by id). A section under
`ctx->lock` is one action; a callback or a free after the unlock is another.
`conn[t].pc` is where thread `t` is between two of them. `CalcTimeout` adds in
a `time_t` of which the largest value is `TIME_MAX`, and `TimeoutOvf` is the flag the code keeps.

In `NtlsMsgFlow` the functions `at`, `flow`, `sub`, `work`, `want`, `initNum`,
`wnum` and `digest` hold, for each endpoint, `statem.hand_state` (as a place in the
exchange), `statem.state`, `read_state` or `write_state`, `read_state_work`,
`s->rwstate`, `init_num`, `rlayer.wnum` and the messages fed to
`ssl3_finish_mac`; `bbio` and `net` are the buffering BIO and the socket, in
units of a few bytes. `log` is history.

Cryptography is ideal: a secret is a number, a signature is over the transcript
and names the chain it belongs to, a Finished names the transcript and the
secret, a record under other keys cannot be read.

Definitions named `Mut...` are deliberately wrong versions of the definition
that follows them. Nothing uses them: they record which plausible mistake each
property notices (`mutants` in `PROJECT.json`).

## 3. Runs

| Run | Instance | Shows |
|---|---|---|
| `handshake` | 1 connection under all settings of chains, verify modes, tickets, OCSP status, NPN; all suites, no SM2DHE suite or no suite in common; renegotiation by either application; and 3 connections that break at any step under the settings that resumption depends on (tickets, cache, verify mode, session id context), cache entries forgotten, one ticket key rotation | the transition tables of the two sides fit (`NoUnexpectedMessage`), compatible ends never fail, resumed or not, a verifying client finishes only with a verified and signing server and a server that requires it with a verified client, the transcript buffer lives as long as it is needed, every record is read under the keys it was written under, keys and `hit` agree on full, resumed and refused-resumption handshakes, resumable sessions match and are complete, a verifying server without a session id context refuses tickets and nothing else (`OnlyTicketsRefused`), every handshake settles (liveness) |
| `server_open` | 2 connections, arbitrary client, 2 secrets, 1 ticket key rotation | what a finished server may rely on, whatever the client sends; the inductive invariant of section 5 |
| `client_open` | 2 connections, arbitrary server, up to 2 key exchanges | the same for the client |
| `msg_flow` | messages of 2+2 units, a buffer of 6, a socket of 2; full, mutual and resumed exchanges | each step once, equal digests, no misread stream, nothing unflushed, refinement of `NtlsTurns` with its liveness |
| `peer_chain` | lists of 0 to 5 certificates, up to 2 retries per check, both sides | the order is restored and both certificates are verified, if no retry falls between the rotations |
| `kex` | 3 handshakes of any of the 7 kinds of suite, cleared at any point | both ends derive the promised secret, no check fails, the sessions of every suite but the ECC with Kyber ones record the same group; the inductive invariant of section 5 |
| `sess_cache` | 2 threads, 3 objects, 3 ids, a limit of 1, of 3 and no limit, an external cache of 1 entry, a `time_t` up to 3 | exact reference counts; hash table and list agree and are ordered by true expiry; the bound on the size; a flush leaves nothing expired |
| `renegotiation_refused` | violation | finding 1 |
| `clear_reuse` | violation | finding 2 |
| `verify_retry` | violation | finding 3 |
| `lookup_retry` | violation | finding 4 |
| `kex_groups` | violation | finding 5 |

Why the bounds are enough. Two suites tell the two classes the handshake control
distinguishes apart: those with and without a mandatory client certificate. Two connections
reach a resumption, a third one a resumption after a refused or broken one. How
often two endpoints meet depends on their settings (`MCMaxConns`): settings that
say nothing about resumption need one connection, in which the server's cache is
never looked into and its ticket key does not age. One
key rotation separates tickets that open from tickets that do not. In `msg_flow`
a message is smaller than the buffer, a flight is larger, and the socket holds
less than a message, so that writes block within a message, between messages
and in a flush. Lists of five have both certificates and more issuers than
rotations. Three handshakes in `kex` are enough for two earlier ones to leave
something in the slots, and the proofs lift the bound. In `sess_cache` three
objects under three ids fill a list with a head, a middle and a tail (no limit)
and force an eviction (limit 3); with a limit of 1 every session is added to an
empty list, or to a list that the loop has just emptied; two threads hold two objects with one id, which
the external cache gives them; with a largest time of 3 a session created at time 1 expires
at 3, and one created at time 2 overflows; a session re-timed
to 0 expires before the clock stops at 2. An entry of the external cache expires
only if the clock goes to 3, which leads to nothing but a miss and triples the
run; the configuration stops at 2. Threads, objects and ids are
symmetric: no definition chooses among them.

## 4. Fairness

`NtlsHandshake`: weak fairness of each endpoint's own progress. The applications
call `SSL_do_handshake` or `SSL_read` until they are done, and the transport
delivers what it does not lose. A lost connection is a step of its own that
ends the connection, so no fairness of renegotiation, breaks or cache aging is assumed.
`NtlsMsgFlow`: weak fairness of each endpoint's steps (an application called
back when its event occurs calls again), and strong fairness of `PostProcess`: a
callback may ask for any number of retries, not for infinitely many. The safety
specifications (`...Open`, `NtlsPeerChain`, `NtlsKex`, `NtlsSessCache`) have
none.

## 5. Proofs

For every set of suites, every set of server settings, every bound and every
client behaviour (`SuitesAssumption`, `ServerConfigsAssumption` and
`ServerOpenAssumption` only give the constants their types, ask for at least one
suite, and keep `NoSuite` from being one):

- `ServerTypeCorrect`: `Spec => []TypeOK`, action by action, from lemmas on what
  `Message`, `Digest`, `ServerEmit`, `ServerConsume` and `ServerFatal` produce.
- `ServerInvariant`: `Spec => []ServerInv`.
- `ServerFinishesVerified`, `ServerFinishesProtected`, `ServerWriteTotal`:
  `FinishedMeansVerified`, `FinishedMeansProtected` and `NoWriteError`, which
  follow from `ServerInv`.

None of the three is inductive: "finished implies verified" says nothing about
the states before the end. `ServerInv` strengthens them by what each hand state
implies. `Position` says which hand states a resting, a writing and a resumed
handshake may be in; `Progress` that a hand state behind the client's
Finished implies a verified one (`AfterClientFinished`), that one behind the
server's implies it was sent, and that an accepted certificate was proved unless
the handshake still is between Certificate and CertificateVerify; `Keys` that
the directions already switched run under the session's secret. The case that
needed care is a ClientHello past the first handshake, which both counts as
"behind the Finished" and is a reading state. The lemmas `WriteSources` and
`ReadSources` turn the transition tables around (from where can this hand state
be entered?), so that each action's step needs no table.

For every set of suites and every number of handshakes (`KexAssumption` only
types the two constants), in `NtlsKexProofs`:

- `KexInvariant`: `Spec => []KexInv`.
- `KexAgreement`, `KexTotal`, `KexGroups`: `MasterSecretAsPromised`,
  `KeyExchangeNeverFails` and `GroupsAgreeUnlessEccKyber`, which follow from it.
  The last claims nothing of the ECC with Kyber suites; what happens there is
  finding 5.

`KexInv` says for each stage of the exchange what the message in flight
(`Messages`) and the slots that the suite is going to read (`ServerFields`,
`ClientFields`) hold, as a function of suite and handshake number. It leaves the
slots that the suite does not read arbitrary: that is the point, since they hold what
an earlier handshake of another suite left there. The only such slot with a
claim is the server's `tmp.pkey`, which must be empty when the next
ServerKeyExchange is built. The lemmas `ServerCkeYields` and its like compute a
handler's result suite by suite; the step lemmas then need only the result.

Client authentication and resumption need more than `ServerInv`, because they
span connections: what a handshake leaves in the cache or in a ticket vouches for
a later one. In `NtlsServerSafety`:

- `SessionInvariant`: `Spec => []SessionInv`. `Resumables` says that every
  session in the cache and every ticket, held or on the wire, has a secret and, where a
  client certificate is required, a verified one; `Negotiated` ties the
  session's cipher and the verify mode to the negotiated suite; `Asked` says that the
  client has proved itself, or will still be asked, or owes the answer.
- `ServerChangeCipherSpecReady` (`ChangeCipherSpecReady`) and
  `ServerResumableAfterFinished` (`ResumableOnlyAfterFinished`, an action property).
- `ServerAuthenticatesClient`: `Spec => [](~srvCfg.reuse => ClientAuthenticated)`.
  The hypothesis is finding 2: an application that reuses an SSL object with
  `SSL_clear` gives the property up, as the run `clear_reuse` shows. `server_open`
  has only settings without reuse; for them theorem and run state the same.

For every set of suites and settings, every number of connections and key
exchanges and every server (`SuitesAssumption`, `ClientConfigsAssumption`,
`ClientOpenAssumption`: types only), in `NtlsClientSafety`:

- `ClientTypeCorrect`: `Spec => []TypeOK`; `ClientInvariant`: `Spec => []ClientInv`.
- `ClientFinishesVerified`, `ClientFinishesProtected`, `ClientWriteTotal`,
  `ClientAuthenticatesServer`, which follow from it.

`ClientInv` has the parts of `ServerInv` with the roles of the last two flights
exchanged by `hit` (`ClientReadSwitched`, `ServerFinishedRead`, ...). What it
needs beyond them is `SessionOfServer`: a session that a broken handshake left
behind is offered in the next connection, so a ticket needs an identifier, a
secret needs a peer, and a verifying client never keeps a refused peer; and
`BufferKept`, since a client whose transcript buffer is gone cannot write its
CertificateVerify.

For lists of any length and any number of retries (`PeerChainAssumption`), in
`NtlsPeerChainProofs`: `ChainInvariant`, `ChainOrderRestored`
(`OrderRestoredUnlessRetriedBetween`) and `ChainBothVerified`
(`BothVerifiedUnlessRetriedBetween`). `ChainInv` says that between the checks
the stack is the list rotated once, and after the second check the list itself;
`RotatedAndBack` proves that unshift(pop) takes push(shift) back. All of it is
conditional on no retry in the first check, which is finding 3.

For any number of threads and ids (finite sets), any objects, any cache size, any
`time_t` and any clock below its end (`SessCacheAssumption`), in
`NtlsSessCacheProofs`:

- `CacheInvariant`: `Spec => []CacheInv`.
- `CacheReferencesExact`, `CacheStaysConsistent`, `CacheStaysBounded`
  (`ReferencesExact`, `CacheConsistent`, `CacheBounded`) and `FlushDropsExpired`
  (`FlushLeavesNoneExpired`, an action property).

`CacheInv` is an invariant of the memory and of the connections. For the memory
(`MemoryInv`): table, list and owner name the same sessions (`Linked`), the
list is ordered (`Ordered`), and the count of an object is what the connections
hold plus one if it is cached (`Counted`), an object without references being
unused. For a connection: its `pc` tells which references it has (`Place`), and a
session on its way into the cache is known to nobody else and still resumable
(`Private`): without this, `SSL_CTX_add_session` could re-time an object that is
already in the list. The argument has two layers. Lemmas about the operators of
the code (`UnlinkInv`, `InsertInv`, `DiscardInv`, `FreeAllInv`, `AddSessionInv`,
`RelistInv`, `RemoveInv`) state what each does to `MemoryInv` when the
references held change from `held` to `held2`. `Advance` then says once for all
actions when a step of one thread keeps the invariant of the others: it changes
only cached objects, unused ones and those it has a reference to. The order of
the list rests on `TimeoutLessIsLess`: `timeoutcmp`, with its overflow flags, compares
true sums.

For every size of header, body, buffer and socket and any of the exchanges
(`MsgFlowAssumption`: the sizes are positive), in `NtlsMsgFlowProofs`:

- `FlowInvariant`: `Spec => []FlowInv`.
- `FlowTypeCorrect`, `FlowEachStepOnce`, `FlowDigestsAgree`, `FlowStreamFits`,
  `FlowFlushedBeforeWaiting`: the five invariants of the run `msg_flow`.
- `FlowImplementsTurns`: `Spec => Turns!Init /\ [][Turns!Next]_(Turns!vars)`, the
  safety part of `ImplementsTurns`. A unit written is a `Send` if it is the last
  of its message, processing a message is a `Process`, the end a `Finish`, and
  every other step a stutter.

`FlowInv` has a part for each endpoint alone (`LocalInv`) and one for what is
between them (`Stream`). `LocalInv` ties the sub-state to the place in the
exchange (`Place`), `init_num` and `wnum` to the sub-state (`Counts`), the
buffered units to an unfinished flight (`Buffered`), the keys, the digest and the
history to the messages passed. `Stream` says whose turn it is: one endpoint
writes, the other waits at the next message of the flight or is done (`Turn`),
until both are at the end (`Settled`). The units in the socket and the buffer of the one
who writes form a `Chain`: the first is the one the reader's counters ask for,
each is followed by the next, and after the last comes what the writer's counters
say is to be written. `StreamFits` alone is not inductive, since it speaks of the
first unit only. A unit written extends the chain (`ChainAppend`), a unit read
shortens it (`ChainTail`), a unit that moves from buffer to socket leaves it as
it is (`MoveAcross`), all other steps leave both ends of it alone (`QuietStep`). The turn changes
only in `ProcessMessage`, and there the chain must be empty: its first unit would
be of the peer's next message, and the flight is over. The proof computes the
exchanges' shape once (`ExchangeOK`): where each ChangeCipherSpec is, that a
flush comes exactly where a flight ends, and that what a handler returns agrees with it.

For every set of suites and settings, any number of connections, broken at any
step or not, any aging of the server's SSL_CTX, renegotiation and every
interleaving (`SuitesAssumption`, `ClientConfigsAssumption`,
`ServerConfigsAssumption`, `HandshakeAssumption`: types, and at least one
connection), in `NtlsHandshakeProofs`, for the client and the server connected
to each other:

- `HandshakeTypeCorrect`, and `EndpointsSound`: `ClientInv` and `ServerInv` hold
  here too. Their steps are proved in `NtlsEndpointProofs` from the actions of the
  endpoint and any message, so both the open systems and the composition use them.
- `HandshakeAuthenticatesServer` (`ServerAuthenticated`),
  `HandshakeKeepsBuffer` (`BufferKeptForCertVerify`, with the invariant
  `ServerBuffer`) and `HandshakeAuthenticatesClient`
  (`~srvCfg.reuse => ClientAuthenticated`), which follow from what each endpoint
  keeps for itself. The last rests on `HandshakeSessionsVouched`: `SessionInv` as
  above, and `HeldTicket`, which says that the ticket the client kept is one the
  server vouches for. The hypothesis is finding 2 again.
- `HandshakeInvariant`: `Spec => []HandshakeInv`, the invariant of the pair.
- `HandshakeTablesFit` (`NoUnexpectedMessage`), `HandshakeKeysInStep`
  (`KeysInStep`), `HandshakeAgreement` (`Agreement`) and
  `HandshakeResumablesMatch` (`~srvCfg.reuse => ResumableSessionsMatch`; only
  the conjuncts on `srvCfg.verify` need the hypothesis), which follow from it.
- `HandshakeCompatibleNeverFails`: `Spec => [](~srvCfg.reuse =>
  CompatibleNeverFails)`, and `HandshakeOnlyTicketsRefused`: `Spec =>
  [](~srvCfg.reuse => OnlyTicketsRefused)`, with the invariant `CalmOrRefused` on
  top of it.

The argument for the pair has five parts.

*Kinds of steps.* Each of the some thirty actions of an endpoint is reduced to
one of a few kinds: the client opens a handshake, asks for another, hears the
ServerHello, reads, writes, stays quiet or fails (`ClientKinds`), and likewise
the server (`ServerKinds`). A kind says what happens to the streams and which
flags may change; everything after this lemma is about kinds, not about handlers.

*Flows.* The messages of a direction have ranks. `ServerFlow` and `ClientFlow` say
that what is in flight leads, rank by rank, from the last message that its
reader read to the last that its writer wrote (`ToClientFlow`, `ToServerFlow`),
taking an optional message exactly if the flag for it is set: OCSP status,
CertificateRequest, ticket, CertificateVerify, NextProto. The two transition
tables are thus compared once each with the order of the ranks, never
with one another. Since a connection is half duplex, whoever reads knows that its
own last flight was read (`ClientReader`, `ServerReader`).

*What is agreed.* While the connection is alive (nobody failed, no alert is under
way), `AliveInv` says what is common to the ends at each rank: the
negotiated values (`HelloAgreed`), whether a certificate was asked for and sent
(`CertAgreed`), the key of each record (`KeysAgreed`), the secrets
(`SecretsAgreed`). `Resumption` relates what outlives a connection, the cache and the
client's session: the same name means the same secret and cipher. This is also
what a resumption relies on, so the two parts are proved together. A full handshake
on the client's side may not meet a cache entry of its own name before keys
were switched (`Unkeyed`), and a name is never drawn twice (`Drawn`).

*What is left when it breaks.* Once an endpoint failed or sent an alert,
`AliveInv` need not hold, but `Agreement` and `KeysInStep` must: `DeadInv` says
that the rest of each stream is an alert, after HelloRequests at most, under the
key its reader uses (`Closing`), and that what a finished endpoint was told stays
true (`Agreed`).

*Why nothing fails.* If the settings are compatible, whatever an endpoint checks
must succeed. `ClientNeverFails` and `ServerOnlyRefuses` go through the reasons for
a fatal alert one by one (`ClientFails`, `ServerFails`): a wrong key or type is
excluded by `HandshakeInv`, a lost buffer by `BufferKeptForCertVerify`, and the
rest by `Calm`: nobody begins another handshake (`Resting`); a message on the way
says what its sender's settings say (`Genuine`); the suite, the extensions and the
certificates in use are what both applications allow (`ServerAllowed`,
`ClientAllowed`); and the transcripts are equal where it matters. For this last
part, `Transcripts` says that the reader's transcript, extended by the messages it
has yet to read, is the writer's, and that each CertificateVerify or Finished
among them carries the transcript just before it (`Runs`). Equality at the Finished
alone is not inductive. A message written extends a run (`RunsAppend`), one read
shortens it (`RunsTail`), and when the direction changes nothing is in flight
and the two are equal (`RunsOver`).

One reason is left, if the server verifies clients and has no session id context
(`Contextless`): `ssl_get_prev_session` then makes any resumption a fatal error.
`NothingCached` says that such a server has an empty cache, since
`ssl_update_cache` skips the session and no step turns the verify mode off. What
is refused is therefore a ticket (the server does send them), at the
ClientHello: `ServerOnlyRefuses` proves it for every failing step of the server.
`Refused` describes what follows. The server is done, the only record for
the client is the alert, and reading it drops the client's session, so that a
new connection begins as calm as any other.

Both theorems exclude `SSL_clear` on a used server SSL object, because
`CompatibleNeverFails` is false there: an SM2DHE handshake sets
`SSL_VERIFY_PEER`, `SSL_clear` keeps it, and a later client of the same settings
that offers a session to a server without a session id context is refused by
`ssl_get_prev_session`. (TLC shows it within two connections if `sidCtx` is false
and `reuse` true.) The runs that check the two properties have no reuse; for them
theorem and run state the same.

The proof of the pair corrected `Agreement`. It used to say that a client whose peer has
finished holds the peer's secret until it fails. A client that renegotiates a session
without a name does not: `tls_construct_client_hello_ntls` calls
`ssl_get_new_session`, which replaces it by an empty one before the
ServerHello that will never come. The run that checks `Agreement` has no
renegotiation, so it did not show this; now the property excepts the state.

`ChainInv`, `ClientInv`, `SessionInv`, `CacheInv`, `FlowInv`, `HandshakeInv` and `Calm`
were model-checked before they were proved, on the instances of the corresponding
runs, and `FlowInv` and `HandshakeInv` with other settings as well.

Only model-checked: liveness (`EveryHandshakeSettles`, and the fairness part of
`ImplementsTurns`), which is out of the prover's reach.

## 6. Findings

1. *Renegotiation rejected and then answered.* After the server application's
   HelloRequest, `s->renegotiate` stays set. The ClientHello that follows is
   refused with a warning, and then the write transition does not take the
   branch "We must have rejected the renegotiation" but sends a ServerHello.
2. *SSL_clear and SM2DHE.* An SM2DHE suite turns on `SSL_VERIFY_CLIENT_ONCE`,
   and `certreqs_sent` is never reset: the second connection on one SSL object
   requests no certificate and finishes without one.
3. *Retry between the rotations.* A retry by the verify callback in the first of
   the client's two checks leaves `peer_chain` rotated; the next call rotates it
   once more, and signing and encryption certificate change places.
4. *Asynchronous session lookup.* `ssl_get_prev_session` returns -2, "Retry
   later", when the session callback asks for time. The TLS ClientHello handler
   suspends the handshake; the NTLS one takes -2 for "no session" and goes on
   with a new one.
5. *Two groups for one key exchange.* For an ECC with Kyber suite the server's
   comment is "Get curve ID for ECC part (secp256r1)", but the
   `tls1_shared_group` it calls returns SM2 (41) in every NTLS connection. The
   client, to "cache the agreed upon group", writes 23 (secp256r1). The sessions
   of the two ends record different groups (`GroupsAgree`); the message carries
   none, so the handshake itself succeeds.

Each is the counterexample of a violation run. `handshake` and `server_open` check
`ClientAuthenticated` where every connection has a new SSL object, and
`peer_chain` the rotation without the retry in question, and `kex` the groups of
all other suites.

Observations on the models that no line of the repository contradicts:

- A session cache of size N > 1 holds at most N - 1 sessions: the eviction loop of
  `SSL_CTX_add_session` compares with `>=` when the new session is already
  counted (`CacheBounded`).
- `SSL_SESSION_set_timeout` tests `owner` before the lock and uses it after: if
  another thread takes the session out of the cache in between, `owner` is NULL.
  The model has this as the end of the process (`crashed`). No property denies
  the state: the code does not exclude it, and nothing in the repository says
  that it does.
- A session that one thread removes can come back: between its unlock and
  `remove_session_cb` another thread may fetch it from the external cache, or the
  thread that created it may only now pass it to `new_session_cb`.
- The ClientKeyExchange limit of 2048 bytes is enough for every suite with an RSA
  modulus of 4096 bits, which `Bytes` assumes; the largest message is the one of
  Kyber with Aigis, 1764 bytes.

## 7. Not modelled

- In `NtlsKex`: failures of the primitives and of memory allocation, a peer that
  does not follow the code (the open modules have it, with one abstract secret),
  the 102400-byte limit of ServerKeyExchange, signatures beyond which text they cover.
- Version negotiation, ALPN, SNI and certificate callbacks (taken to succeed),
  custom extensions, CA name lists; byte formats and length checks (a message
  that does not decode is the one whose secret is 0, or of the wrong type).
- Application data, close_notify, record fragmentation, MAC and padding.
- What is dead code for this protocol version: HelloRetryRequest, early data,
  post-handshake authentication, cookies; EAP-FAST's session secret callback.
- Failures of memory allocation. In `NtlsSessCache`: external caches that share
  objects instead of copies, `SSL_SESSION_set_time` (the same code as
  `SSL_SESSION_set_timeout` for the other summand), the client's use of the
  cache, and settings that change while the cache is in use.
- The other state machines, libcrypto, providers, PQMagic, Angie, the demos. They
  are nearly all of the repository's 660 thousand lines: lattice and curve
  arithmetic, tables, generated headers, command line tools and a vendored web
  server, whose correctness is numeric or somebody else's. The models cover some
  7 of the 13 thousand lines under `ssl/statem_ntls/` (most of the others are
  extension parsing and tables) and half of `ssl_sess.c`.

## 8. Plan

Done: the wire, both endpoints, their composition, both open systems, the
message flow machine with its abstract specification, the certificate rotation,
the key exchange of all suites, the shared session cache; the safety theorems of
the server, the client, the two connected, the key exchange, the certificate
rotation, the session cache and the message flow machine. Left: version choice and the extension tables, as operators against a reference.
