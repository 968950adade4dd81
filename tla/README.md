# TLA+ models of litewallet-core

This directory holds TLA+ models of the C sources under `src/`. TLC checks them.
`PROJECT.json` lists:
- every component, with its status;
- every run, and the mutants that show each passing property can fail;
- the map from each definition to the source lines it translates;
- the findings;
- the hazards of the code that a model checker can reach.

## 1. The system

| Part | Source | State | Operations |
|---|---|---|---|
| Wallet state engine | `LWWallet.c` | `allTx` (set of known txs), `transactions` (sorted list of the wallet's txs), per-tx `blockHeight`/`timestamp`, `blockHeight` (tip), derived state: `utxos`, `spentOutputs`, `invalidTx`, `pendingTx`, `usedAddrs`, `balanceHist`, `balance`, `totalSent`, `totalReceived` | `LWWalletNew`, `RegisterTransaction`, `RemoveTransaction` (cascades), `UpdateTransactions`, `SetTxUnconfirmedAfter`; each state change ends with `_LWWalletUpdateBalance`, a full recomputation of the derived state |
| Address chains | `LWWallet.c`, `LWBIP32Sequence.h` | `externalChain`, `internalChain`, `allAddrs` | `LWWalletUnusedAddrs` (gap-limit growth), `LWWalletReceiveAddress`; called by Register after it unlocks |
| Queries | `LWWallet.c` | none | `IsValid`, `IsPending`, `IsVerified` (recursive over parents, locking per call), amounts, fees, `BalanceAfterTx` |
| Transaction builder | `LWWallet.c` | reads `utxos`, `balance`, `feePerKb` | `CreateTxForOutputs` (selection loop, restart on oversize), `_txFee`, `MinOutputAmount`, `MaxOutputAmount`, `SignTransaction` |
| Hash set | `LWSet.c` | table, size, itemCount | add (grows at load limit), remove (cluster cleanup), get, iterate, union, minus, intersect, clear |
| Bloom filter | `LWBloomFilter.c` | bit array, hash count, tweak | new (clamped sizes), insert, contains, parse, serialize |
| BIP39 | `LWBIP39Mnemonic.c` | none | encode, decode, validity, key derivation |
| Keys | `LWKey.c` | process-wide secp256k1 context (pthread_once) | key parsing, signing, addresses |
| Payment protocol | `LWPaymentProtocol.c` | message structs with unknown-field buffers | parse/serialize of request, payment, ack, encrypted message; encrypt/decrypt |
| Peer layer | `LWPeer.h` (declarations only) | none in `src` | calls Register, UpdateTransactions, SetTxUnconfirmedAfter, UnusedAddrs |

How they interact:
- The peer manager (not in `src`) is the wallet's environment. It registers txs as they are relayed, which are always unconfirmed. It passes the heights of txs in merkle blocks, and reorganises the chain.
- The wallet keeps every set in an `LWSet`.
- A coarse mutex, `wallet->lock`, serialises the public operations. Callbacks, and Register's address-chain extension, run after the lock is released. `RemoveTransaction` releases it and recurses on each dependent.

## 2. What is modelled

### `Wallet.tla`: the wallet state engine and the address chains

**Data.** A tx is a member of the constant set `TxIds`. Its inputs `Ins[t]` are records `[prev, n, sequence]` and its outputs `Outs[t]` are records `[address, amount]`.
- An address is `<<chain, index>>` for a wallet address. A foreign address is any other tuple.
- `lockTime` is a height.
- The two fields of a tx that the code changes, `blockHeight` and `timestamp`, are the variables `txBlockHeight` and `txTimestamp`.

**Scaling.**
- `TX_UNCONFIRMED` is 9, a number above every height and lockTime.
- Sequence numbers are scaled so that `UINT32_MAX` is 3. Then `2` is `UINT32_MAX - 1`, the non-RBF, lock-enabled value, and `0` signals RBF.
- Only these comparisons matter to the code, and the scaling keeps them.

**Actions.** Each public operation is one atomic action, because each holds `wallet->lock` for its whole state change.

| Action | Code |
|---|---|
| `RegisterTransaction` | `LWWalletRegisterTransaction`: nothing for a tx already in `allTx`, otherwise one of the two branches below |
| `RegisterWalletTx` | `LWWalletRegisterTransaction`, wallet branch: `_LWWalletInsertTx`, `_LWWalletUpdateBalance`, then both `LWWalletUnusedAddrs` calls |
| `RegisterOtherTx` | the non-wallet, unconfirmed branch |
| `RemoveTransaction` | the whole cascade: `DependentSeq` (and its set `Dependents`) is the tail scan that stops at a lower height, `Removed` is its recursion, and `RemoveGone` removes the txs and recomputes |
| `UpdateTransactions` | `UpdateTxStep` is one loop iteration: re-insert a wallet tx, or free a confirmed non-wallet tx. Recompute only if a tx was pending or invalid |
| `SetTxUnconfirmedAfter` | the unconfirmed suffix and the recomputation |
| `GenerateAddrs` | `LWWalletUnusedAddrs` called alone: the change address (gap 1) or a gap-limit call |
| `ReceiveAddress` | `LWWalletReceiveAddress`: `LWWalletUnusedAddrs` on the external chain with gap 1 |
| `Restart` | `LWWalletNew` with the txs the app stored through the callbacks, loaded in any order: each is inserted while both chains are still empty (they are grown only after the loop), so the chain-index tie-break of `TxCompare` decides nothing; then the chains are regrown over every address the stored outputs pay, and the recomputation runs with `blockHeight` 0. The wallet is NULL (no step) when the first tx loaded is not recognised. Non-wallet txs kept only in `allTx` are gone |

**Operators.**
- `UpdateBalance` is `_LWWalletUpdateBalance`: a left fold of `UpdateStep` over the list. Its parts are:
  - `InvalidIn`, the invalid test;
  - `PendingIn`, the pending test;
  - `WalletOutputs`, the UTXO append;
  - `ScanUtxos` and `ScanBalance`, the backward scan;
  - the totals.
- `IsAscending`, `TxChainIndex`, `TxCompare` and `InsertTx` translate the comparator and the insertion sort.
- `UnusedAddrs` and `GrowChain` translate the gap-limit loop. `UnusedAddrsCall` is one call of `LWWalletUnusedAddrs`. `GenerateAddrs` is the same call when it derives something; a call that derives nothing is a stuttering step.
- `Recompute` is a call of `_LWWalletUpdateBalance`. `RegisterLocked` is the locked section of Register for a wallet tx, without the chain extension.
- `WalletThreads` reuses `RegisterLocked`, `UnusedAddrsCall`, `DependentSeq` and `RemoveGone` as its locked sections.

**Queries.** `IsValid`, `IsPending` and `IsVerified` are the recursive queries `LWWalletTransactionIsValid`, `IsPending` and `IsVerified`. Each reads the current state and recurses on the inputs' txs found in `allTx`. `IsPending` reuses the tests of `PendingIn`, with `wallet->blockHeight`, as the code repeats them.

**Environment.**
- `Batches` are the hash lists of `UpdateTransactions` calls: one or two distinct txs.
- `ChainUpdate` states what a consistent chain passes:
  - it gives heights only to unconfirmed txs;
  - it confirms a tx only with or after its parents;
  - it never confirms two txs that spend one output.
- `TxUnconfirmedBefore` is `LWWalletTxUnconfirmedBefore`: the longest tail of the list whose heights are at least the argument.
- `Init` is `LWWalletNew` with no stored transactions: both chains are grown to their gap limits and the derived state is empty.

### `MCWallet.tla`: the universe

| Tx | What it does |
|---|---|
| A | receives 10 |
| C | spends A with change 3 |
| D | double-spends A with dust change |
| R | receives 5 with an RBF input |
| K | spends R |
| L | receives 5, locked to height 4 with sequence `UINT32_MAX - 1` |


### `WalletThreads.tla`: the wallet under its lock

Spec.md section 5 says that threads call the wallet in parallel, and that the mutex serialises their state changes. `WalletThreads` extends `Wallet` with a set of `Threads`. In the initial state, each thread picks a finite script of calls from `Scripts[th]`.

**Variables.**
- `script[th]` holds the calls that have not started.
- `stage[th]` is the chain that Register extends next after unlocking.
- `frames[th]` holds the Remove calls the thread is inside, innermost first. Each `Frame` is the call's argument and the dependents its loop has still to remove.

**Atomicity.** A locked section is one step. This is sound because the sections exclude one another, and a section neither waits nor calls out. What a call does after unlocking is a step of its own:

| Step | Code |
|---|---|
| `RegisterCall` | the locked section of `LWWalletRegisterTransaction` (lines 700-721). It takes one of three branches: a wallet tx (`RegisterLocked`), an unconfirmed other tx (`RegisterOtherTx`), or nothing |
| `RegisterExtend` | the two `LWWalletUnusedAddrs` calls after unlocking (lines 727-728), one step each, external first |
| `RemoveCall`, `RemoveSection` | one locked section of `LWWalletRemoveTransaction`. An unknown hash returns. A tx with dependents pushes a frame and unlocks (line 764). A tx without dependents removes itself and recomputes (lines 771-782) |
| `RemoveNext` | the unlocked loop (lines 766-769). It calls Remove on the next dependent, in the order of `wallet->transactions`, and then on the tx itself. That last call replaces the caller's frame, because the caller only returns after it |
| `UpdateCall`, `UnconfirmCall` | `LWWalletUpdateTransactions` and `LWWalletSetTxUnconfirmedAfter`, one locked section each. A call the chain cannot produce (`ChainUpdate`, or a reorg at or above the tip) is not made |

**Left out.** The callbacks, and the reads of Remove's notification (`AmountSentByTx`, `IsValid`, `TransactionForHash`), change no wallet state. Dropping them does not change which wallet states are reachable. The values they hand to the host are not modelled (see the hazards at `LWWallet.c:729`, `:785` and `:808`).

`MCWalletThreads` runs two threads over the A, R, K universe. The peer thread registers and confirms, in one of two scripts: `R, K, update R` or `A, K, R, update R, reorg to 0`. The app thread either removes R, or registers K and then removes R. With the second app script, this interleaving is reachable:
1. the app's Remove(R) collects K and unlocks;
2. it removes K;
3. the peer registers K again;
4. the last call on R finds K again.

### `LWSet.tla` and `ItemSet.tla`: the hash set

`ItemSet` is what an `LWSet` promises. It is a set `members` in which items with equal keys occur at most once. Its operations are add (replaces an equal item), remove, clear, union, minus and intersect.

`LWSet` is the linear-probing table of `LWSet.c`.
- A set value is a record `[table, size, count]`. The variables `table`, `size` and `itemCount` hold the wallet-visible set.
- `ProbeFrom` is the probe loop shared by add, remove and get.
- `Add` and `Grow` are mutually recursive, as `LWSetAdd` and `_LWSetGrow` are. Growth is a union of the old buckets into a new table.
- `Cleanup` is the loop of `LWSetRemove` that takes out and re-adds each item of the cluster after the removed bucket.
- `IntersectFrom` is the loop of `LWSetIntersect`. It removes items while scanning, and looks at a bucket again after a removal.
- Items are model values. `eq()` is equality of `Key`, and `hash()` is `Hash[Key[x]]`.

`MCLWSet` has items `a1` and `a2`, which share a key, and `b` to `g`. Their hashes collide modulo 3, 7 and 13, and some probe runs wrap around the end of the table. The table starts at 3 buckets (capacity 0) and grows to 7 and 13.

`LWSet` refines `ItemSet` through the mapping `members <- Contents`, the items in the table.

### `Builder.tla`: the transaction builder

The builder sees the wallet through what it reads:
- `utxos`, a sequence of amounts, whose sum is `wallet->balance`;
- `feePerKb`.

Every output pays a P2PKH script, so a tx is its number of inputs and its output amounts. `TxSize` is `LWTransactionSize` for such a tx. That function is not under `src/`, so `TxSize` is modelled from the standard sizes.

`uint64_t` arithmetic is modulo `WORD`. `WORD` is a scaled 2^64 (2^24), far above every amount, so a subtraction that underflows wraps as in the code.

| Definition | Code |
|---|---|
| `TxFee` | `_txFee` |
| `Select` | the selection loop: the size check, the fee after each input with its 100-satoshi round-off of the remaining wallet balance, the stop test |
| `Shrunk` | the restart's new outputs: reduce the last by the shortfall, or drop it |
| `CreateTx` | `LWWalletCreateTxForOutputs`: the restart recursion, the final funds check, the change output |
| `MinOutputAmount`, `MaxOutputAmount`, `FeeForTx`, `FeeForTxAmount` | the functions of those names |

Actions are `SetFeePerKb`, `CreateTxForOutputs` and `CreateTransaction` (one output). The creating actions record the request and the result.

`MCBuilder` has four wallets. The real sizes are kept (148-byte inputs, 34-byte outputs). `TX_MAX_SIZE` is scaled from 100000 to 500, so the third input triggers the restart, which with the real value needs several hundred inputs. Fee rates are 1000, 2000 and 5000 sat/kb, and there are five payments of one or two outputs. `MAX_DEPTH` 4 cuts off a restart recursion that does not end. Asserts are taken as compiled out: a restart that drops the only output calls the builder with no outputs, which then returns NULL.

### `Bloom.tla`: the Bloom filter

A filter is a record `[length, bits, hashFuncs, tweak, flags, elemCount]`. `bits` is the set of the indices of the set bits; bit `i` is bit `i % 8` of byte `i \div 8`, as in `filter[idx >> 3] & (1 << (7 & idx))`.

| Definition | Code |
|---|---|
| `NewFilter` | `LWBloomFilterNew`: clamp the length to 1..`BLOOM_MAX_FILTER_LENGTH`, `hashFuncs` from `length*8/elemCount*ln 2` truncated and capped at 50 |
| `Hash` | `_LWBloomFilterHash`: `Murmur(data, hashNum*0xfba4c795 + tweak) % (length*8)` |
| `InsertData`, `ContainsData` | the functions of those names |
| `Serialize`, `Parse` | the wire form: var-int length, the bytes, LE32 hash count, LE32 tweak, flags. Parse reads missing trailing fields as 0 |

Actions: `New` (a rebuilt filter), `Insert`, and `Reload`, which parses what `Serialize` wrote, as a filter sent to a peer is.

Abstractions:
- The length formula uses `log` of a double, so `RawLengths` gives its truncated values directly. `ln 2` is the fraction 693147/1000000.
- `LWMurmur3_32` is in `LWCrypto`, which is not under `src/`. It is the constant operator `Murmur`. `MCBloom` gives it a 16-bit mixing stand-in, and seeds are kept modulo `SEED_WORD` = 2^16. The low bits of `hashNum*0xfba4c795 + tweak` depend only on the low bits of the operands, so `HASH_MULT` is `0xfba4c795 % 2^16`.
- The var-int and LE helpers are in `LWAddress`/`LWInt`, not under `src/`. They are modelled from the Bitcoin wire format.

`MCBloom` has raw lengths 0, 1 and 3 against a maximum of 2, so both clamps fire. It has element counts 2, 3 and 20, giving 0 to 5 hash functions, tweaks 0 and 40000, three items, and `MAX_INSERTS` 3.

### `ProtoBuf.tla`, `PaymentProtocol.tla`, `EncryptedMessage.tla` and `PaymentSession.tla`: the payment protocol

The four modules are stacked: `ProtoBuf` is the field codec; `PaymentProtocol` extends it with the BIP70 messages; `EncryptedMessage` extends that with the BIP75 messages and the key operations they use; `PaymentSession` extends `EncryptedMessage` with the wallet's exchange as a state machine; and `MCPaymentProtocol` instantiates it.

`LWPaymentProtocol.c` writes and reads protocol buffers by hand. Bytes are sequences of `0..255`. A field is a key (`number*8 + wire type`) followed by a var-int, 8 or 4 little-endian bytes, or a length and data. `NULL` is a NULL pointer.

`ProtoBuf.tla` holds the static helpers:

| Definition | Code |
|---|---|
| `VarInt` (`VarIntLoop`), `SetVarInt` | `_ProtoBufVarInt` (0 for a var-int cut off by the buffer end), `_ProtoBufSetVarInt` |
| `Fixed`, `LEBytes` | `_ProtoBufFixed`, `_ProtoBufSetFixed` (raw little-endian bytes) |
| `LenDelim`, `Field` (`FieldValue`, `FieldOf`) | `_ProtoBufLenDelim` (data NULL when the length runs past the buffer), `_ProtoBufField` |
| `SetInt`, `SetBytes`, `SetString`, `CopyData` | the setters; `SetString` writes up to the first 0 byte, as `strlen` does |
| `UnknownBuf`, `UnknownScan`, `Unknown` | `_ProtoBufUnknown`: the 10-byte (+ data) image, truncated when it does not fit, the scan for the insertion point that removes an equal key, and the insert |

`UnknownBuf` takes `g`, the value of the uninitialized stack bytes past a truncated image (`StackBytes`). `FieldsOf` is a reference reader of a well-formed buffer, used only by properties.

`PaymentProtocol.tla` models Output, PaymentDetails, PaymentRequest, Payment and PaymentACK. A message is a record of its fields plus its `ProtoBufContext`: `defaults` is the set of field numbers whose `defaults[]` entry is 1, and `unknown` is the bytes of its unknown-field array. For each message there is `New`, the parse loop (`OutputFields`, `DetailsFields`, `RequestFields`, `PaymentFields`, `ACKFields`), `Parse` and `Serialize`. `LWTransaction` is not under `src`: a transaction is an index into the table `TxWire` of its wire bytes, `TxParse` returns the index of the bytes it is given (NULL for bytes no entry has), and `TxSerialize` returns them. `RequestDigest` is the serialization `LWPaymentProtocolRequestDigest` hashes, paired with the hash selected by `pkiType`. The strings the code compares against (`"main"`, `"none"`, `"x509+sha256"`, `"x509+sha1"`) are constants. `NONE` is a NULL message or `LW_TX_OUTPUT_NONE`. `HANG` is a parse that never returns.

`EncryptedMessage.tla` models InvoiceRequest, ProtocolMessage and EncryptedProtocolMessage the same way, and the `LWKey` calls they make. The cryptography is symbolic, with just the properties the code relies on:
- a key is `[id, secret, compressed]`, where `id` is the number of its key pair;
- `KeyPubKey` gives the 33-byte (prefix 2) or 65-byte (prefix 4) form as `<<2, id>>` or `<<4, id, id>>`, and `KeySetPubKey` turns either back into a public-only key whose compressed flag is set from the length;
- a signature is the signing pair's number followed by the bytes signed (SHA-256 taken as collision-free);
- `ECDH` is the set of the two pair numbers, the same whichever side holds the secret;
- the AEAD shifts every byte by a keystream of the shared secret and nonce, and appends a 16-byte tag over the secret, the nonce, the associated data and the ciphertext. `AEADDecrypt` gives 0 bytes when the tag does not match.

`EncryptedMessageCEK` is `_LWPaymentProtocolEncryptedMessageCEK`. The peer is the envelope's receiver, unless the caller's key serializes to the same bytes as the receiver key, in which case the peer is the sender. The associated data is the status code in decimal followed by the status message; `DecryptAD` rebuilds it, from the message alone when the code was not on the wire. The AEAD, and the message-type numbers of the header, are not under `src` and are modelled from spec.md.

The state is the request the wallet holds (`req`), the bytes it was parsed from (`src`, `NULL` when it was built locally), the Payment it sent (`payment`), the PaymentACK it parsed (`ack`) and that ACK's bytes (`ackSrc`). For BIP75 there are also:
- `keys`: the wallet's and the merchant's LWKeys, and the merchant's public key as the wallet learned it;
- `invoice`: the InvoiceRequest as the merchant parsed it;
- `delivered`: for each message of the exchange, what its sender sealed and what its receiver opened.

Actions:
- `Create`: `RequestNew` over `DetailsNew`, when nothing is held;
- `Receive`: `RequestParse` of a merchant's bytes, when nothing is held;
- `Relay`: serialize the held request and parse it again, as when it is stored and reloaded (before it is paid);
- `Pay`: `PaymentNew` with the request's merchant data, as BIP70 asks of the caller, and transactions, refund outputs and memo from `NewPayments`;
- `ReceiveAck`: `ACKParse` of an answer. The answer is either what a merchant running this code sends back (`Echoes`: it parses the serialized payment and wraps it with `ACKNew` and a memo) or a foreign ACK from `AckWires`;
- `SendInvoice` (BIP75): the wallet, holding a key of `WalletKeys` (compressed or not), serializes `InvoiceRequestNew` inside `MessageNew`. The merchant, holding a key of `MerchantKeys`, parses both;
- `ReceiveEncrypted`: the merchant seals a request of `EncWires` to the key from the InvoiceRequest (`EncryptedMessageNew`, then `Serialize`). The wallet parses the envelope, verifies it with the sender key it carries, keeps that key as the merchant's, decrypts with its own key, and parses the plaintext as a request;
- `ReceiveEncryptedAck`: the wallet seals its serialized payment to the merchant's key. The merchant opens it, answers with `ACKNew` of the payment it parsed (`MerchantAck`), and seals that to the sender key of the payment's envelope. The wallet opens the answer and parses it with `ACKParse`. `Create`, `Receive` and the plain `ReceiveAck` belong to an exchange in the clear, and are enabled only when no BIP75 keys are held;
- `Discard`: the Free functions; the exchange ends and nothing is held. A parse does not read what is held, so restricting `Create` and `Receive` to an empty state loses no parse result and keeps the state space small.

`MCPaymentProtocol` builds the wires from fields:
- up to one request-level field besides the details (a pki type, a signature, or unknown field 6 of type 64BIT);
- details of up to two fields from: two encoded Outputs (one with an unknown field 3), a network, a time, a memo, unknown 8 (32BIT) and unknown 20 (var-int), no unknown key repeated; and one details of unknown fields 8, 20, 8, the two 8s with different values;
- the details field inserted at every position, and every order of the fields.

`MCAckWires` holds three foreign ACKs: one whose payment has a transaction no table entry has, a refund output without a script, and unknown fields 6 and 9 (and an ACK-level unknown field 3); one without a payment; and one whose payment field is a var-int. For BIP75 there are the wallet's pair 1 and the merchant's pair 2, each compressed or uncompressed, so every combination of encodings meets in `EncryptedMessageCEK`. There is one InvoiceRequest, for 300 with a memo. There are two encrypted requests: one with an output and an unknown details field, and one with only a version. Two statuses are used, status 1 with no message and status 102 with message `OK`, and a single nonce. No other list repeats an unknown key. Two New argument sets are used: all defaults, and every field set. `StackBytes = {0}` and field numbers below 2048 keep every unknown image inside its 10-byte buffer. The truncation case is a hazard (`LWPaymentProtocol.c:150`).

## 3. Runs

Every wallet run uses timestamps `{0, 1}` and `TX_MIN_OUTPUT_AMOUNT` 2. The gap limits are 2 (external) and 1 (internal), except:
- `wallet_conflict` uses 2 and 2, so that the chains regrown by `Restart` reach every address of its universe (see the crash_recovery hazard at `LWWallet.c:263`: with internal gap 1, D's change address is lost at a restart, and a later confirmation frees D while it is listed);
- `wallet_threads` uses 1 and 1, so that R pays an address not yet generated and arrives as a non-wallet tx. With 2 and 2 every tx of `wallet_conflict` is recognised, so there `RegisterTransaction` always takes its wallet branch. `wallet_threads` takes the other branch. Heights are `{1, 2}`, except in `wallet_stale_derived`, which needs a tip of 3 for the lockTime 4 of L to pass.

**Bounds.** The gap limits are smaller than the code's 10 and 5. Growth of a chain depends only on which addresses are used, and the universe uses at most three addresses per chain. Two heights are enough for a reorg to leave some txs confirmed and make others unconfirmed. Each universe has at most three txs: the five-tx universe is beyond five minutes, because every state recomputes the whole fold.

**Fairness.** The atomic wallet runs assume no fairness: every step is a call from outside. `wallet_threads` assumes weak fairness of each thread's step (`WF_allVars(ThreadStep(th))`): a thread that can go on eventually does. The code justifies this:
- a locked section never blocks, so the lock is always released one step after it is taken;
- spec.md section 5 says no operation waits on I/O while holding the lock;
- a thread waiting for the lock is therefore enabled in every state where it is not running.

Strong fairness is not needed, because no thread step is ever disabled by another thread.

**Deadlock.** Deadlock is checked in every run:
- in the wallet, `Restart` is always enabled on an empty or recognised list;
- in `WalletThreads`, the threads stop when every script is done; `Terminating` is the program at rest;
- in the builder, `CreateTransaction` is always enabled;
- in the Bloom filter, `New` is always enabled;
- in `LWSet`, `LWSetClear` is always enabled;
- in the payment model, `Discard` is enabled whenever something is held (a request, or BIP75 keys) and `Create` when nothing is, until a parse hangs, which only the `payment_parse_hangs` wires reach.

**Symmetry.** Symmetry is not used, because txs and addresses are all distinguishable by their structure.

| Run | Universe | Checks | Result |
|---|---|---|---|
| `wallet_conflict` (`MCConflict.cfg`) | A, C, D | `TypeOK`, `UtxoSound`, `Accounting`, `ConflictFree`, `UnconfirmedTail` | pass, 2674 states |
| `wallet_threads` (`MCWalletThreads.cfg`) | A, R, K, two threads | `TypeOK`, `UtxoSound`, `Accounting`, `UnconfirmedTail`, `CallsReturn` | pass, 236 states |
| `wallet_topo_order` (`MCTopoOrder.cfg`) | A, R, K | `TopoOrder` (spec I2/P4) | violated |
| `wallet_stale_derived` (`MCStaleDerived.cfg`) | A, L, heights `{1, 2, 3}` | `DerivedFresh` (spec I1, I6, I9) | violated |
| `lwset_refines` (`MCLWSet.cfg`) | `MCLWSet` | `TypeOK`, `CountMatches`, `Reachable`, `OperationsRefine` | pass, 891 states |
| `builder` (`MCBuilder.cfg`) | `MCBuilder` | `TypeOK`, `FeeCovers`, `SizeBound` | pass, 192 states |
| `builder_restart_bounded` (`MCBuilderRestartBounded.cfg`) | `MCBuilder` | `RestartBounded` (spec 9, fee loop recursion) | violated |
| `builder_no_overpay` (`MCBuilderNoOverpay.cfg`) | `MCBuilder` | `NoOverpay` (spec 4.5) | violated |
| `bloom` (`MCBloom.cfg`) | `MCBloom` | `TypeOK`, `NoFalseNegative`, `RoundTrip` | pass, 348 states |
| `payment` (`MCPaymentProtocol.cfg`) | `MCWires`, `MCNewRequests`, `MCNewPayments`, `MCAckWires` | `TypeOK`, `UnknownKept`, `RelayKeeps`, `AckEchoesPayment`, `Delivered` | pass, 5233 states |
| `payment_parse_hangs` (`MCPaymentHang.cfg`) | `MCHangWires`, `MCHangAckWires` | `ParseTerminates` | violated |
| `payment_digest` (`MCPaymentDigest.cfg`) | `MCDigestWires` | `DigestStable` (spec.md 3, signature over the request) | violated |

The `LWSet` runs need no bound beyond the item set. The reachable tables are finite, and eight items force two growths.

### What the passing properties say

- **`UtxoSound`.** Every UTXO is an output of a counted tx, meaning a listed tx that is neither invalid nor pending. It pays a wallet address, no counted tx spends it, and no UTXO appears twice. This holds for every arrival order, including a child listed before its parent, because the backward scan runs on every counted tx.
- **`Accounting`.** One history entry per listed tx. The last entry is the balance. The balance is the sum of the UTXOs. Received minus sent equals the balance.
- **`CountMatches`.** `itemCount` is the number of occupied buckets, and one bucket always stays empty, so every probe loop ends.
- **`Reachable`.** Every stored item is found from its home bucket, after removals whose cleanup wraps around the table.
- **`OperationsRefine`.** Each table operation implements the same operation of `ItemSet` on the contents (the refinement mapping `members <- Contents`); since `Init` maps to the empty abstract set, the table implements `ItemSet`. In particular, intersect keeps exactly the items of the other set, although its cleanup refills the bucket just scanned.
- **`FeeCovers`.** A created tx, also one built after restarts, pays at least `_txFee` of its final size, change output included, at the rate it was built with.
- **`SizeBound`.** A created tx is no larger than `TX_MAX_SIZE`.
- **`NoFalseNegative`.** Every item inserted since the filter was built is matched, also after serialize and parse. This needs insert, contains and the byte layout to agree on the bit index, and the hash count and the tweak to survive the wire.
- **`RoundTrip`.** Parsing what `Serialize` wrote gives back the filter, except `elemCount`, which is not serialized.
- **`UnconfirmedTail`.** `LWWalletTxUnconfirmedBefore(TX_UNCONFIRMED)`, with which the peer manager finds the txs to publish again, returns every listed unconfirmed tx. The list stays ordered by height across insertion, re-insertion on confirmation, reorg, removal and restart.
- **`TypeOK`** includes that `transactions` holds only txs in `allTx`: a listed tx is never freed. This is what a restart with a lost change address breaks.
- **`CallsReturn`** (liveness). Every call a thread starts returns. Remove's unlocked recursion ends even when the other thread registers a dependent again between the recursive calls. This holds because each script is finite. A peer that relayed K again after every removal would keep Remove(R) looping, since nothing in the code bounds the rescans. `wallet_threads` also checks that the wallet invariants hold in every interleaving of locked sections and unlocked tails.
- **`ConflictFree`.** Of two listed txs that spend one output, at most one is valid. This holds across confirmation of either, reorg and removal.

- **`UnknownKept`.** For a request parsed from any wire, no unknown field is lost or made up: the request-level and the details-level unknown arrays hold the last occurrence of every unknown key of the input, and only unknown fields of the input. The same holds for a parsed ACK and the payment inside it. This needs the scan of `_ProtoBufUnknown` to remove nothing but an equal key. The property does not claim one copy per key, or key order: the wires include details with unknown keys 8, 20, 8, which the code keeps as 8 (later value), 20, 8 (earlier value), because the scan stops at the first greater key before it reaches the earlier 8 (the insertion point of the `payment_digest` finding). A reader that takes the last occurrence of a key then sees the earlier value.
- **`RelayKeeps`** (spec P9). Serializing a held request and parsing it again gives the same request up to the order of unknown fields. This holds at every level: version and pki defaults, network, times, the Outputs with their amount defaults, and the unknown fields.
- **`AckEchoesPayment`.** When the ACK is a merchant's echo, its payment is the payment the wallet sent, up to the order of unknown fields. This takes `PaymentSerialize`, `PaymentParse`, `PaymentSerialize` again inside `ACKSerialize`, and `ACKParse` to agree; in particular, merchant data that is present but empty (the second request of `MCNewRequests`) must be written, because NULL and empty are told apart. Under BIP75 the ACK's bytes are what the wallet decrypted, so the property also covers the encrypted exchange.
- **`Delivered`** (spec P13, S7). In a BIP75 exchange every message reaches its receiver as its sender wrote it. This covers the InvoiceRequest in its ProtocolMessage, and the request, payment and ACK in their envelopes. For an envelope it needs sender and receiver to derive the same key: `_LWPaymentProtocolEncryptedMessageCEK` must pick the other party as the ECDH peer on both sides, for every mix of compressed and uncompressed keys. The associated data of `New` and `Decrypt` must agree, and the signature must verify over the serialization with an empty signature field. A mutant that always takes the receiver as the peer breaks it.

### What the violations show (see `findings` in PROJECT.json)

- **`TopoOrder`.** The trace is: K arrives, A arrives, R arrives. The list becomes `[K, A, R]`, because `_LWWalletTxCompare` returns 0 for A and K (both pay external address 0) and -1 for A and R, so the sift of R stops behind A. K is then counted although its parent R is RBF-pending.
- **`DerivedFresh`.** The derived state should be a scan of the current list at the current heights. L is locked to height 4 and registered as pending. An update of another tx raises the tip to 3, and L is now spendable by `IsPending`. Nobody in the batch was pending, so nothing is recomputed, and L stays in `pendingTx` and out of the balance. The same condition leaves `balanceHist` and the totals in the old order after a confirmation moves A before C.
- **`RestartBounded`.** With UTXOs 4000, 3000 and 2550 at 5000 sat/kb, a payment of 5000 restarts. The new output is set from the shortfall, and that shortfall's fee carries a round-off that depends on the amount. The output alternates between 5050 and 5100, and the recursion never ends.
- **`NoOverpay`.** With UTXOs of 3000 each at 5000 sat/kb, a payment of 2000 restarts with a surplus smaller than the minimum output. The `uint64_t` shortfall wraps, and the payee receives 4100.
- **`ParseTerminates`.** The 4 bytes `34 2 16 0` are a request whose details are `16 0`, an outputs field of wire type var-int. `LWPaymentProtocolDetailsParse` passes `data` NULL and the rest of the buffer as the length to `_LWPaymentProtocolOutputParse`. Its loop does not test `buf`, no read moves `off`, and the parse never returns. An outputs field whose length runs past its buffer does the same. A Payment's `refund_to` field reaches the same loop (`LWPaymentProtocol.c:720`); with only well-formed request wires, TLC reaches the hang in four steps through `Create`, `Pay` and `ReceiveAck` of the ACK `10 2 24 0`, whose payment is `24 0`.
- **`DigestStable`.** A signed request's details carry unknown fields 8 and 20, in key order. When the scan of `_ProtoBufUnknown` finds no key at or above the new one, it leaves `o` at the start of the last field, not at the end. So 20 is inserted before 8, and the parsed request serializes its details as `160 1 1 69 9 0 0 0`. The digest is over bytes the merchant never signed, so a correct signature fails to verify.
- Seen, and kept as a hazard rather than a run: spec P3 (no UTXO is spent). D (dust, hence pending) spends A's output, and that output stays in `utxos` and in the balance although it is in `spentOutputs`.
- Seen, and kept as a hazard rather than a run: spec I6 for height lockTimes. `LWWalletUpdateTransactions(..., TX_UNCONFIRMED, ts)` sets `wallet->blockHeight` to `TX_UNCONFIRMED`, and a tx locked to a height the chain never reaches is then counted as spendable.
- Seen, and kept as a hazard rather than a run: address reuse. Spec.md line 49 says `usedAddrs` holds every output address in `allTx`. The code adds only the outputs of counted txs (`LWWallet.c:200`). With gap limits 1 and 1, A is registered, and then R, a pending tx paying external address 1. `LWWalletReceiveAddress` then returns address 1, which R already pays.
- Seen, and kept as a hazard rather than a run: spec 4.4.2. D arrives before A, is kept as a non-wallet tx, and once A is registered D is the wallet's but is never listed.
- Seen, and kept as a hazard rather than a run: a truncated unknown field. With field 2048 of wire type 64BIT and stack bytes `{0, 77}`, the 10-byte buffer of `_ProtoBufUnknown` cuts the value, and `UnknownKept` fails (value 1 kept as 0).
- Seen, and kept as a hazard rather than a run: a restart does not preserve the balance. With A, R and K registered (balance 10, K pending because it spends the RBF tx R), a restart that loads K, A, R lists K first and counts it (balance 14). This is the comparator problem of `TopoOrder`, reached through `LWWalletNew`.
- Seen, and kept as a hazard rather than a run: P10 fails. With UTXOs 1000, 1000 and 9000, `FeeForTxAmount` is 1000 at 1000 sat/kb and 0 at 2000 sat/kb. `MaxOutputAmount` counts a UTXO that the size limit keeps the builder from reaching, and a NULL tx is reported as fee 0.
- Seen, and kept as a hazard rather than a run: spec.md says the CEK peer is chosen by comparing compressed public keys, but the code compares the keys in the form their flags give. In a scratch copy where the merchant addresses the request to the uncompressed form of a compressed wallet key, `Delivered` fails, because the wallet takes its own key as the peer (`LWPaymentProtocol.c:1190`).
- Seen, and kept as a hazard rather than a run: the `LWSet` load factor. `LWSetAdd` grows only when `itemCount > ((size + 2) / 3) * 2`. For 7 buckets that is 6 items, so the table holds 5 or 6 items in 7 buckets, above the 2/3 that the comment and spec.md 4.1 state. Probing still ends (`CountMatches`).

## 4. Plan for the rest of the project

In order of importance:

1. **Wallet threads.**
   - Done: the lock, Register's unlocked chain extension, Remove's unlocked recursion, and `CallsReturn` under weak fairness.
   - Still to do: the values the callbacks hand to the host (a stale `balanceChanged`, the `notifyUser` flag of Remove). These are violations that need run slots. Also still to do is composing the builder, which unlocks around its restart (`LWWallet.c:585`), with the threads.
2. **Queries.**
   - The classification queries are done.
   - The notification of Remove.
   - `BalanceAfterTx`, `AmountReceivedFromTx` and `AmountSentByTx` against the history. A first attempt shows that they disagree with the balance history whenever the list order breaks (`TopoOrder`, `DerivedFresh`). Every run slot is in use, so checking this needs a slot to be freed.
   - Address reuse through `ReceiveAddress` (seen, see above). It needs a run slot.
3. **`LWSet`.** Done. The rest is the read-only scans (`LWSetIterate`, `LWSetAll`, `LWSetIntersects`).
4. **Builder.** Done, except `SignTransaction`, which is key derivation and ECDSA.
5. **Payment protocol.** BIP70 and BIP75 are done, in the clear and encrypted. Still to do: envelopes from a foreign sender (the receiver key in its other encoding, the status code omitted), which need a run slot.
6. **Arithmetic.** BIP39 packing as operators checked against a reference definition. The Bloom filter and the restart (`LWWalletNew` with stored txs) are done.

## 5. Not modelled

- Cryptography: hashes, secp256k1, AEAD, scrypt and PBKDF2. These are out of TLC's reach. `EncryptedMessage` replaces the key, signature, ECDH and AEAD operations with symbolic stand-ins that keep what the code relies on: equality of key encodings, which pair signed, symmetry of ECDH, and a tag that fails on the wrong key or associated data. WIF, BIP38 and address encodings of `LWKey.c` are string conversion and are not modelled.
- The peer layer: only its header is in `src`. Its calls are the environment of `Wallet`.
- `LWLocalAmount` and `LWBitcoinAmount`, which use doubles.
- BIP39 (`LWBIP39Mnemonic.c`). Encode and decode are pure functions over a SHA-256 checksum, and key derivation is PBKDF2. A round-trip check would need a run of its own, and all twelve runs are in use for questions about state.
- Epoch lockTimes, which are compared against `time(NULL)`. With the height lockTimes of the model, the test is always false.
- BIP32 derivation failure. It needs a key outside the curve order.
- `LWPaymentProtocolRequestCert`, `InvoiceRequestCert`, `InvoiceRequestDigest` and the certificate chain: DER parsing and X.509 checks happen outside `src`.
- The hashes of `RequestDigest` and the signature check. The model compares the bytes that would be hashed.
- Heap ownership. `LWPaymentProtocolPaymentFree` never frees the payment struct, and `ACKParse` drops an earlier payment when the field repeats. Both are leaks, listed as hazards. `Discard` models the Free calls only by their effect on what the wallet holds.
- The allocation-size paths of the serializers (`buf` NULL or too short). The model serializes into a buffer of the size the first call returned, as every caller in the file does.
