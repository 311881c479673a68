------------------------------- MODULE Codecs -------------------------------
(***************************************************************************)
(* The byte layouts of the index rows (db/rocksdb.go, rocksdb_*.go,        *)
(* db/fiat.go, the Syscoin serializers): what each pack function writes,   *)
(* what each unpack function reads, and the shortcuts that read a row      *)
(* without unpacking all of it; and what goes into the filter of a block.  *)
(*                                                                         *)
(* A byte is a number below 256 and a buffer a sequence of bytes.  A big   *)
(* integer is the sequence of its big-endian bytes, <<>> for zero, a       *)
(* string the sequence of its bytes, a txid or hash the sequence of        *)
(* TxidLen bytes, a 32-bit number its value.  Every unpack operator        *)
(* answers [v |-> what it read, l |-> how many bytes it took].  The        *)
(* receiver d of the Go methods is a record of the two switches that       *)
(* change the layouts (the extended index and Syscoin assets), and of      *)
(* whether the serializers of the Syscoin parser are meant.                *)
(***************************************************************************)
EXTENDS Naturals, Integers, Sequences, SequencesExt, FiniteSets

CONSTANTS
    TxidLen,    \* PackedTxidLen of the chain parser
    AddrLen,    \* eth.EthereumTypeAddressDescriptorLen
    MaxName,    \* maxContractNameSymbolBytes
    WordBytes,  \* wordBytes: bytes of a big.Word
    MaxWords    \* maxPackedBigintWords

Nil == <<>>
Refused == [refused |-> TRUE]
Zeros(n) == [i \in 1..n |-> 0]
Drop(buf, l) == SubSeq(buf, l + 1, Len(buf))
Take(buf, l) == SubSeq(buf, 1, l)
Got(v, l) == [v |-> v, l |-> l]

\* n items one after the other, each read by Unpack.
Times(n, buf, Unpack(_)) ==
    LET Read[i \in 0..n] ==
            IF i = 0 THEN Got(<<>>, 0)
            ELSE LET u == Unpack(Drop(buf, Read[i - 1].l))
                 IN Got(Append(Read[i - 1].v, u.v), Read[i - 1].l + u.l)
    IN Read[n]

\* Items read by Unpack as long as at least min bytes are left.
WhileLeft(buf, min, Unpack(_)) ==
    LET Read[l \in 0..Len(buf)] ==
            IF Len(buf) - l < min THEN <<>>
            ELSE LET u == Unpack(Drop(buf, l)) IN <<u.v>> \o Read[l + u.l]
    IN Read[0]

Joined(items, Pack(_)) ==
    FoldLeft(LAMBDA buf, item: buf \o Pack(item), <<>>, items)

-----------------------------------------------------------------------------
(* Numbers, strings and byte strings. *)

\* vlq.PutUint: groups of seven bits, the most significant first.
PutUint[n \in Nat] ==
    IF n < 128 THEN <<n>>
    ELSE [PutUint[n \div 128] EXCEPT ![Len(PutUint[n \div 128])] = @ + 128]
         \o <<n % 128>>

\* vlq.Uint.
Uint(buf) ==
    LET last == CHOOSE i \in DOMAIN buf :
                    buf[i] < 128 /\ \A j \in 1..(i - 1) : buf[j] >= 128
    IN Got(FoldLeft(LAMBDA n, b: 128 * n + (b % 128), 0, Take(buf, last)), last)

packVaruint(i) == PutUint[i]
unpackVaruint(buf) == Uint(buf)

\* vlq.PutInt and vlq.Int: the sign travels in the lowest bit.
packVarint(i) == PutUint[IF i < 0 THEN -2 * i - 1 ELSE 2 * i]
unpackVarint(buf) ==
    LET u == Uint(buf)
    IN Got(IF u.v % 2 = 1 THEN -((u.v + 1) \div 2) ELSE u.v \div 2, u.l)

packUint(i) == <<i \div 16777216, (i \div 65536) % 256, (i \div 256) % 256, i % 256>>
unpackUint(buf) == ((buf[1] * 256 + buf[2]) * 256 + buf[3]) * 256 + buf[4]

\* Go's ^ on a 32-bit number, on its bytes.
Complement(bytes) == [i \in DOMAIN bytes |-> 255 - bytes[i]]

\* ^ on an int: used to mark a length.
Flip(n) == -n - 1

packVarBytes(value) == packVaruint(Len(value)) \o value
unpackVarBytes(buf) ==
    LET n == unpackVaruint(buf)
    IN Got(SubSeq(buf, n.l + 1, n.l + n.v), n.l + n.v)

packString(s) == packVaruint(Len(s)) \o s
unpackString(buf) ==
    LET n == unpackVaruint(buf)
    IN Got(SubSeq(buf, n.l + 1, n.l + n.v), n.l + n.v)

\* A number longer than MaxWords words loses its least significant words.
packBigint(bi) ==
    LET words == (Len(bi) + WordBytes - 1) \div WordBytes
        cut == IF words > MaxWords THEN words - MaxWords ELSE 0
        kept == Take(bi, Len(bi) - cut * WordBytes)
    IN <<Len(kept)>> \o kept
packedBigintLen(buf) == buf[1] + 1
unpackBigint(buf) == Got(SubSeq(buf, 2, packedBigintLen(buf)), packedBigintLen(buf))

unpackVaruintSafe(buf) ==
    IF \E i \in DOMAIN buf : buf[i] < 128 THEN Uint(buf) ELSE Refused
unpackStringSafe(buf) ==
    LET n == unpackVaruintSafe(buf)
    IN IF n = Refused THEN Refused
       ELSE IF n.l + n.v > Len(buf) THEN Refused ELSE unpackString(buf)

\* The Syscoin serializers of the parser write the length of a number as a
\* varuint, the database as one byte.
PackBigint(bi) == packVaruint(Len(bi)) \o bi
UnpackBigint(buf) == unpackVarBytes(buf)
PackBig(d, bi) == IF d.legacy THEN PackBigint(bi) ELSE packBigint(bi)
UnpackBig(d, buf) == IF d.legacy THEN UnpackBigint(buf) ELSE unpackBigint(buf)

-----------------------------------------------------------------------------
(* Asset information of an input, output or utxo: Nil or [guid, value]. *)

appendAssetInfo(d, info) ==
    IF info = Nil THEN packVaruint(0)
    ELSE packVaruint(1) \o packVaruint(info.guid) \o PackBig(d, info.value)

unpackAssetInfo(d, buf) ==
    LET flag == unpackVaruint(buf)
        guid == unpackVaruint(Drop(buf, flag.l))
        value == UnpackBig(d, Drop(buf, flag.l + guid.l))
    IN IF flag.v = 0 THEN Got(Nil, flag.l)
       ELSE Got([guid |-> guid.v, value |-> value.v], flag.l + guid.l + value.l)

packedAssetInfoLen(buf) ==
    LET flag == unpackVaruint(buf)
        guid == unpackVaruint(Drop(buf, flag.l))
    IN IF flag.v = 0 THEN flag.l
       ELSE flag.l + guid.l + packedBigintLen(Drop(buf, flag.l + guid.l))

AssetSuffix(d, info) == IF d.assets THEN appendAssetInfo(d, info) ELSE <<>>
AssetSuffixOf(d, buf) == IF d.assets THEN unpackAssetInfo(d, buf) ELSE Got(Nil, 0)
AssetSuffixLen(d, buf) == IF d.assets THEN packedAssetInfoLen(buf) ELSE 0

-----------------------------------------------------------------------------
(* TxAddresses.  An input is [addr, value, txid, vout, asset], an output    *)
(* [addr, value, spent, txid, index, height, asset]; txid is Nil for a      *)
(* coinbase input and for an unspent output.                                *)

appendTxInput(d, txi) ==
    LET coinbase == d.ext /\ txi.txid = Nil
    IN (IF ~d.ext THEN packVaruint(Len(txi.addr))
        ELSE packVarint(IF coinbase THEN Flip(Len(txi.addr)) ELSE Len(txi.addr)))
       \o txi.addr \o PackBig(d, txi.value)
       \o (IF d.ext /\ ~coinbase THEN txi.txid \o packVaruint(txi.vout) ELSE <<>>)
       \o AssetSuffix(d, txi.asset)

unpackTxInput(d, buf) ==
    LET n == IF d.ext THEN unpackVarint(buf) ELSE unpackVaruint(buf)
        coinbase == n.v < 0
        al == n.l + (IF coinbase THEN Flip(n.v) ELSE n.v)
        value == UnpackBig(d, Drop(buf, al))
        at == al + value.l
        linked == d.ext /\ ~coinbase
        vout == unpackVaruint(Drop(buf, at + TxidLen))
        end == at + (IF linked THEN TxidLen + vout.l ELSE 0)
        asset == AssetSuffixOf(d, Drop(buf, end))
    IN Got([addr |-> SubSeq(buf, n.l + 1, al), value |-> value.v,
            txid |-> IF linked THEN Take(Drop(buf, at), TxidLen) ELSE Nil,
            vout |-> IF linked THEN vout.v ELSE 0, asset |-> asset.v],
           end + asset.l)

packedTxInputLen(d, buf) ==
    LET n == IF d.ext THEN unpackVarint(buf) ELSE unpackVaruint(buf)
        coinbase == n.v < 0
        al == n.l + (IF coinbase THEN Flip(n.v) ELSE n.v)
        at == al + buf[al + 1] + 1
        end == at + (IF d.ext /\ ~coinbase
                     THEN TxidLen + unpackVaruint(Drop(buf, at + TxidLen)).l ELSE 0)
    IN end + AssetSuffixLen(d, Drop(buf, end))

appendTxOutput(d, txo) ==
    packVarint(IF txo.spent THEN Flip(Len(txo.addr)) ELSE Len(txo.addr))
    \o txo.addr \o PackBig(d, txo.value)
    \o (IF d.ext /\ txo.spent
        THEN txo.txid \o packVaruint(txo.index) \o packVaruint(txo.height) ELSE <<>>)
    \o AssetSuffix(d, txo.asset)

unpackTxOutput(d, buf) ==
    LET n == unpackVarint(buf)
        spent == n.v < 0
        al == n.l + (IF spent THEN Flip(n.v) ELSE n.v)
        value == UnpackBig(d, Drop(buf, al))
        at == al + value.l
        linked == d.ext /\ spent
        where == Times(2, Drop(buf, at + TxidLen), unpackVaruint)
        end == at + (IF linked THEN TxidLen + where.l ELSE 0)
        asset == AssetSuffixOf(d, Drop(buf, end))
    IN Got([addr |-> SubSeq(buf, n.l + 1, al), value |-> value.v, spent |-> spent,
            txid |-> IF linked THEN Take(Drop(buf, at), TxidLen) ELSE Nil,
            index |-> IF linked THEN where.v[1] ELSE 0,
            height |-> IF linked THEN where.v[2] ELSE 0, asset |-> asset.v],
           end + asset.l)

packedTxOutputLen(d, buf) ==
    LET n == unpackVarint(buf)
        spent == n.v < 0
        al == n.l + (IF spent THEN Flip(n.v) ELSE n.v)
        at == al + buf[al + 1] + 1
        end == at + (IF d.ext /\ spent
                     THEN TxidLen + Times(2, Drop(buf, at + TxidLen), unpackVaruint).l
                     ELSE 0)
    IN end + AssetSuffixLen(d, Drop(buf, end))

packTxAddresses(d, ta) ==
    (IF d.assets THEN packVaruint(ta.version) ELSE <<>>)
    \o packVaruint(ta.height)
    \o (IF d.ext THEN packVaruint(ta.vsize) ELSE <<>>)
    \o packVaruint(Len(ta.inputs))
    \o Joined(ta.inputs, LAMBDA i: appendTxInput(d, i))
    \o packVaruint(Len(ta.outputs))
    \o Joined(ta.outputs, LAMBDA o: appendTxOutput(d, o))
    \o (IF d.assets THEN packVarBytes(ta.memo) ELSE <<>>)

unpackTxAddresses(d, buf) ==
    LET None == Got(0, 0)
        version == IF d.assets THEN unpackVaruint(buf) ELSE None
        height == unpackVaruint(Drop(buf, version.l))
        l1 == version.l + height.l
        vsize == IF d.ext THEN unpackVaruint(Drop(buf, l1)) ELSE None
        ins == unpackVaruint(Drop(buf, l1 + vsize.l))
        l2 == l1 + vsize.l + ins.l
        inputs == Times(ins.v, Drop(buf, l2), LAMBDA b: unpackTxInput(d, b))
        outs == unpackVaruint(Drop(buf, l2 + inputs.l))
        l3 == l2 + inputs.l + outs.l
        outputs == Times(outs.v, Drop(buf, l3), LAMBDA b: unpackTxOutput(d, b))
    IN [version |-> version.v, height |-> height.v, vsize |-> vsize.v,
        inputs |-> inputs.v, outputs |-> outputs.v,
        memo |-> IF d.assets THEN unpackVarBytes(Drop(buf, l3 + outputs.l)).v ELSE Nil]

\* One output of a stored row, skipping everything before it.
GetTxAddressesOutput(d, buf, vout) ==
    LET l1 == (IF d.assets THEN unpackVaruint(buf).l ELSE 0)
        l2 == l1 + Times(IF d.ext THEN 2 ELSE 1, Drop(buf, l1), unpackVaruint).l
        ins == unpackVaruint(Drop(buf, l2))
        SkipIn(b) == Got(0, packedTxInputLen(d, b))
        SkipOut(b) == Got(0, packedTxOutputLen(d, b))
        l3 == l2 + ins.l + Times(ins.v, Drop(buf, l2 + ins.l), SkipIn).l
        outs == unpackVaruint(Drop(buf, l3))
        l4 == l3 + outs.l
    IN IF Len(buf) < 3 \/ vout >= outs.v THEN Nil
       ELSE unpackTxOutput(d, Drop(buf, l4 + Times(vout, Drop(buf, l4), SkipOut).l)).v

\* The end an outpoint names: a negative vout is the complement of an input.
AddrDescForOutpoint(d, buf, vout) ==
    LET ta == unpackTxAddresses(d, buf)
        Ends == IF vout < 0 THEN ta.inputs ELSE ta.outputs
        i == IF vout < 0 THEN Flip(vout) ELSE vout
    IN IF Len(Ends) <= i THEN Nil
       ELSE [addr |-> Ends[i + 1].addr, value |-> Ends[i + 1].value,
             asset |-> Ends[i + 1].asset]

-----------------------------------------------------------------------------
(* AddrBalance: counters, asset balances in the order the map yields them,  *)
(* and the utxos, of which one with a negative vout is dropped.             *)

PackUtxo(d, u) ==
    u.txid \o packVaruint(u.vout) \o packVaruint(u.height) \o PackBig(d, u.value)
    \o AssetSuffix(d, u.asset)

packAddrBalance(d, ab) ==
    packVaruint(ab.txs) \o PackBig(d, ab.sent) \o PackBig(d, ab.balance)
    \o (IF ~d.assets THEN <<>>
        ELSE packVaruint(Len(ab.assets))
             \o Joined(ab.assets, LAMBDA a:
                    packVaruint(a.guid) \o PackBig(d, a.balance) \o PackBig(d, a.sent)
                    \o packVaruint(a.transfers)))
    \o Joined(SelectSeq(ab.utxos, LAMBDA u: u.vout >= 0), LAMBDA u: PackUtxo(d, u))

UnpackUtxo(d, buf) ==
    LET where == Times(2, Drop(buf, TxidLen), unpackVaruint)
        value == UnpackBig(d, Drop(buf, TxidLen + where.l))
        l == TxidLen + where.l + value.l
        asset == AssetSuffixOf(d, Drop(buf, l))
    IN Got([txid |-> Take(buf, TxidLen), vout |-> where.v[1], height |-> where.v[2],
            value |-> value.v, asset |-> asset.v], l + asset.l)

UnpackAssetBalance(d, buf) ==
    LET guid == unpackVaruint(buf)
        amounts == Times(2, Drop(buf, guid.l), LAMBDA b: UnpackBig(d, b))
        transfers == unpackVaruint(Drop(buf, guid.l + amounts.l))
    IN Got([guid |-> guid.v, balance |-> amounts.v[1], sent |-> amounts.v[2],
            transfers |-> transfers.v], guid.l + amounts.l + transfers.l)

unpackAddrBalance(d, buf, withUtxos) ==
    LET txs == unpackVaruint(buf)
        sums == Times(2, Drop(buf, txs.l), LAMBDA b: UnpackBig(d, b))
        l1 == txs.l + sums.l
        n == IF d.assets THEN unpackVaruint(Drop(buf, l1)) ELSE Got(0, 0)
        assets == Times(n.v, Drop(buf, l1 + n.l), LAMBDA b: UnpackAssetBalance(d, b))
        rest == Drop(buf, l1 + n.l + assets.l)
    IN [txs |-> txs.v, sent |-> sums.v[1], balance |-> sums.v[2], assets |-> assets.v,
        utxos |-> IF withUtxos
                  THEN WhileLeft(rest, TxidLen + (IF d.legacy THEN 4 ELSE 3), LAMBDA b: UnpackUtxo(d, b)) ELSE <<>>]

-----------------------------------------------------------------------------
(* Rows of an address: txs with the indexes of the ends the address has in  *)
(* them.  The lowest bit of an index says that it is the last one of a tx.  *)

packTxIndexes(txi) ==
    Joined(Reverse(txi), LAMBDA t:
        t.txid \o FoldLeftDomain(LAMBDA buf, i:
                     buf \o packVarint(2 * t.indexes[i] + (IF i = Len(t.indexes) THEN 1 ELSE 0)),
                     <<>>, t.indexes))

UnpackIndexes(buf) ==
    LET Read[l \in 0..Len(buf)] ==
            LET u == unpackVarint(Drop(buf, l))
                rest == Read[l + u.l]
            IN IF u.v % 2 = 1 THEN Got(<<u.v \div 2>>, l + u.l)
               ELSE Got(<<u.v \div 2>> \o rest.v, rest.l)
    IN Read[0]

UnpackTxIndex(buf) ==
    LET u == UnpackIndexes(Drop(buf, TxidLen))
    IN Got([txid |-> Take(buf, TxidLen), indexes |-> u.v], TxidLen + u.l)

\* Mutant: the order of the stored transactions is taken as it is.
MutunpackTxIndexes(buf) == WhileLeft(buf, TxidLen + 1, UnpackTxIndex)

unpackTxIndexes(buf) == Reverse(WhileLeft(buf, TxidLen + 1, UnpackTxIndex))

-----------------------------------------------------------------------------
(* The undo rows of a block: each tx with the outpoints it spends; an input *)
(* without a txid is stored with the zero txid.                             *)

packOutpoints(outpoints) ==
    Joined(outpoints, LAMBDA o: o.txid \o packVarint(o.index))

UnpackOutpoint(buf) ==
    LET vout == unpackVarint(Drop(buf, TxidLen))
    IN Got([txid |-> Take(buf, TxidLen), index |-> vout.v], TxidLen + vout.l)

unpackNOutpoints(buf) ==
    LET n == unpackVaruint(buf)
        items == Times(n.v, Drop(buf, n.l), UnpackOutpoint)
    IN Got(items.v, n.l + items.l)

storeAndCleanupBlockTxs(txs) ==
    Joined(txs, LAMBDA tx:
        tx.txid \o packVaruint(Len(tx.vin))
        \o packOutpoints([i \in DOMAIN tx.vin |->
               [tx.vin[i] EXCEPT !.txid = IF @ = Nil THEN Zeros(TxidLen) ELSE @]]))

getBlockTxs(buf) ==
    WhileLeft(buf, 1, LAMBDA b:
        LET o == unpackNOutpoints(Drop(b, TxidLen))
        IN Got([txid |-> Take(b, TxidLen), vin |-> o.v], TxidLen + o.l))

-----------------------------------------------------------------------------
(* Rows of the height column; a hash of another length is cut or padded.    *)

packBlockInfo(bi) ==
    LET b == bi.hash
        fitted == IF Len(b) > TxidLen THEN Take(b, TxidLen)
                  ELSE b \o Zeros(TxidLen - Len(b))
    IN fitted \o packUint(bi.time) \o packVaruint(bi.txs) \o packVaruint(bi.size)

unpackBlockInfo(buf) ==
    LET counts == Times(2, Drop(buf, TxidLen + 4), unpackVaruint)
    IN IF Len(buf) < TxidLen + 4 + 2 THEN Nil
       ELSE [hash |-> Take(buf, TxidLen), time |-> unpackUint(Drop(buf, TxidLen)),
             txs |-> counts.v[1], size |-> counts.v[2]]

-----------------------------------------------------------------------------
(* Contracts of an address on an EVM chain: [contract, standard, txs, value,*)
(* ids, multi] with standard 0 fungible, 1 non-fungible, 2 multi token.     *)

PackAddrContract(ac) ==
    ac.contract \o packVaruint(ac.standard + 4 * ac.txs)
    \o CASE ac.standard = 0 -> packBigint(ac.value)
         [] ac.standard = 1 -> packVaruint(Len(ac.ids)) \o Joined(ac.ids, packBigint)
         [] OTHER -> packVaruint(Len(ac.multi))
                     \o Joined(ac.multi, LAMBDA m: packBigint(m.id) \o packBigint(m.value))

PackCounters(acs) ==
    packVaruint(acs.total) \o packVaruint(acs.plain) \o packVaruint(acs.internal)

packAddrContractsV6(acs) == PackCounters(acs) \o Joined(acs.contracts, PackAddrContract)

packAddrContracts(acs) ==
    PackCounters(acs) \o packVaruint(Len(acs.contracts))
    \o Joined(acs.contracts, PackAddrContract)

UnpackIdValue(buf) ==
    LET p == Times(2, buf, unpackBigint) IN Got([id |-> p.v[1], value |-> p.v[2]], p.l)

UnpackAddrContract(buf) ==
    LET txs == unpackVaruint(Drop(buf, AddrLen))
        standard == txs.v % 4
        l == AddrLen + txs.l
        value == unpackBigint(Drop(buf, l))
        n == unpackVaruint(Drop(buf, l))
        ids == Times(n.v, Drop(buf, l + n.l), unpackBigint)
        multi == Times(n.v, Drop(buf, l + n.l), UnpackIdValue)
        blank == [contract |-> Take(buf, AddrLen), standard |-> standard,
                  txs |-> txs.v \div 4, value |-> Nil, ids |-> <<>>, multi |-> <<>>]
    IN CASE standard = 0 -> Got([blank EXCEPT !.value = value.v], l + value.l)
         [] standard = 1 -> Got([blank EXCEPT !.ids = ids.v], l + n.l + ids.l)
         [] OTHER -> Got([blank EXCEPT !.multi = multi.v], l + n.l + multi.l)

Contracts(n, list) ==
    [total |-> n[1], plain |-> n[2], internal |-> n[3], contracts |-> list]

unpackAddrContractsV6(buf) ==
    LET n == Times(3, buf, unpackVaruint)
    IN Contracts(n.v, WhileLeft(Drop(buf, n.l), 1, UnpackAddrContract))

unpackAddrContracts(buf) ==
    LET n == Times(4, buf, unpackVaruint)
    IN Contracts(n.v, WhileLeft(Drop(buf, n.l), 1, UnpackAddrContract))

unpackAddrContractsHeader(buf) == Contracts(Times(3, buf, unpackVaruint).v, Nil)

\* A number that stays packed until it is needed: its slice, and whether
\* get has decoded it.
Packed(buf) == Got([slice |-> Take(buf, packedBigintLen(buf)), read |-> FALSE],
                   packedBigintLen(buf))
get(b) == [b EXCEPT !.read = TRUE]
Repacked(b) == IF b.read THEN packBigint(unpackBigint(b.slice).v) ELSE b.slice

\* The contracts of a row with every number left packed.
partiallyUnpackAddrContracts(buf) ==
    LET n == Times(4, buf, unpackVaruint)
        One(b) ==
            LET txs == unpackVaruint(Drop(b, AddrLen))
                l == AddrLen + txs.l
                many == unpackVaruint(Drop(b, l))
                lead == IF txs.v % 4 = 0 THEN 0 ELSE many.l
                numbers == Times(CASE txs.v % 4 = 0 -> 1 [] txs.v % 4 = 1 -> many.v
                                   [] OTHER -> 2 * many.v, Drop(b, l + lead), Packed)
            IN Got([contract |-> Take(b, AddrLen), standard |-> txs.v % 4,
                    txs |-> txs.v \div 4, numbers |-> numbers.v], l + lead + numbers.l)
    IN Contracts(n.v, WhileLeft(Drop(buf, n.l), 1, One))

packUnpackedAddrContracts(acs) ==
    PackCounters(acs) \o packVaruint(Len(acs.contracts))
    \o Joined(acs.contracts, LAMBDA ac:
           ac.contract \o packVaruint(ac.standard + 4 * ac.txs)
           \o (CASE ac.standard = 0 -> <<>>
                 [] ac.standard = 1 -> packVaruint(Len(ac.numbers))
                 [] OTHER -> packVaruint(Len(ac.numbers) \div 2))
           \o Joined(ac.numbers, Repacked))

-----------------------------------------------------------------------------
(* Undo rows and internal data of EVM transactions.  An address that is not *)
(* AddrLen bytes long is stored as the zero address.                        *)

appendAddress(a) == IF Len(a) # AddrLen THEN Zeros(AddrLen) ELSE a

packBlockTx(tx) ==
    tx.txid \o appendAddress(tx.from) \o appendAddress(tx.to)
    \o packVaruint(Len(tx.contracts))
    \o Joined(tx.contracts, LAMBDA c:
           appendAddress(c.from) \o appendAddress(c.to) \o appendAddress(c.contract)
           \o packVaruint(c.standard)
           \o IF c.standard = 2
              THEN packVaruint(Len(c.multi))
                   \o Joined(c.multi, LAMBDA m: packBigint(m.id) \o packBigint(m.value))
              ELSE packBigint(c.value))

UnpackAddress(buf) == Got(Take(buf, AddrLen), AddrLen)

UnpackTransfer(buf) ==
    LET who == Times(3, buf, UnpackAddress)
        standard == unpackVaruint(Drop(buf, who.l))
        l == who.l + standard.l
        n == unpackVaruint(Drop(buf, l))
        multi == Times(n.v, Drop(buf, l + n.l), UnpackIdValue)
        value == unpackBigint(Drop(buf, l))
        isMulti == standard.v = 2
    IN Got([from |-> who.v[1], to |-> who.v[2], contract |-> who.v[3],
            standard |-> standard.v, multi |-> IF isMulti THEN multi.v ELSE <<>>,
            value |-> IF isMulti THEN Nil ELSE value.v],
           l + IF isMulti THEN n.l + multi.l ELSE value.l)

unpackBlockTx(buf) ==
    LET who == Times(2, Drop(buf, TxidLen), UnpackAddress)
        n == unpackVaruint(Drop(buf, TxidLen + who.l))
        l == TxidLen + who.l + n.l
        contracts == Times(n.v, Drop(buf, l), UnpackTransfer)
    IN IF Len(buf) < TxidLen + 2 * AddrLen THEN Refused
       ELSE Got([txid |-> Take(buf, TxidLen), from |-> who.v[1], to |-> who.v[2],
                 contracts |-> contracts.v], l + contracts.l)

getBlockTxsEthereumType(buf) == WhileLeft(buf, 1, unpackBlockTx)

\* Four messages the node often repeats are stored as one byte each, which
\* reads back as our wording.  Wording i of the node is the symbol 300 + i
\* and ours 400 + i; every other message is stored as it is.
PackInternalTransactionError(e) ==
    IF Len(e) = 1 /\ e[1] \in 301..304 THEN <<e[1] - 300>> ELSE e
UnpackInternalTransactionError(data) ==
    [i \in DOMAIN data |-> IF data[i] \in 1..4 THEN data[i] + 400 ELSE data[i]]

packEthInternalData(data) ==
    packVaruint((data.type % 2) + 2 * Len(data.transfers))
    \o (IF data.type = 1 THEN appendAddress(data.contract) ELSE <<>>)
    \o Joined(data.transfers, LAMBDA t:
           <<t.type>> \o appendAddress(t.from) \o appendAddress(t.to) \o packBigint(t.value))
    \o data.error

UnpackInternalTransfer(buf) ==
    LET who == Times(2, Drop(buf, 1), UnpackAddress)
        value == unpackBigint(Drop(buf, 1 + who.l))
    IN Got([type |-> buf[1], from |-> who.v[1], to |-> who.v[2], value |-> value.v],
           1 + who.l + value.l)

unpackEthInternalData(buf) ==
    LET v == unpackVaruint(buf)
        create == v.v % 2 = 1
        l == v.l + IF create THEN AddrLen ELSE 0
        transfers == Times(v.v \div 2, Drop(buf, l), UnpackInternalTransfer)
    IN [type |-> v.v % 2, contract |-> IF create THEN SubSeq(buf, v.l + 1, l) ELSE Nil,
        transfers |-> transfers.v,
        error |-> UnpackInternalTransactionError(Drop(buf, l + transfers.l))]

\* The queue of blocks whose internal data failed: hash, retries, message.
StoreBlockInternalDataErrorEthereumType(e) == e.hash \o <<e.retries>> \o e.message

unpackBlockInternalDataError(val) ==
    IF Len(val) > TxidLen + 1
    THEN [hash |-> Take(val, TxidLen), retries |-> val[TxidLen + 1],
          message |-> Drop(val, TxidLen + 1)]
    ELSE [hash |-> Nil, retries |-> 0, message |-> Nil]

-----------------------------------------------------------------------------
(* Function signatures, contract rows and protocol rows. *)

packFourByteKey(fourBytes, id) == packUint(fourBytes) \o packUint(id)

packFourByteSignature(sig) == packString(sig.name) \o Joined(sig.parameters, packString)

unpackFourByteSignature(buf) ==
    LET name == unpackString(buf)
    IN [name |-> name.v, parameters |-> WhileLeft(Drop(buf, name.l), 1, unpackString)]

\* UTF-8, with 128..191 the bytes that continue a character and 192..223 the
\* ones that start a character of two bytes.
ValidString(s) ==
    \A i \in DOMAIN s :
        /\ s[i] \in 128..191 => i > 1 /\ s[i - 1] >= 192
        /\ s[i] >= 192 => i < Len(s) /\ s[i + 1] \in 128..191

clampUTF8(s, max) ==
    IF Len(s) <= max THEN s
    ELSE Take(s, CHOOSE n \in 0..max :
                     /\ ValidString(Take(s, n))
                     /\ \A m \in (n + 1)..max : ~ValidString(Take(s, m)))

packContractInfo(c) ==
    packString(clampUTF8(c.name, MaxName)) \o packString(clampUTF8(c.symbol, MaxName))
    \o packString(c.standard) \o packVaruint(c.decimals)
    \o packVaruint(c.created) \o packVaruint(c.destructed)

unpackContractInfo(buf) ==
    LET strings == Times(3, buf, unpackString)
        numbers == Times(3, Drop(buf, strings.l), unpackVaruint)
    IN [name |-> strings.v[1], symbol |-> strings.v[2], standard |-> strings.v[3],
        decimals |-> numbers.v[1], created |-> numbers.v[2], destructed |-> numbers.v[3]]

protocolByContractKey(protocol, addr) == <<0, protocol>> \o addr
protocolByHeightKey(protocol, height, addr) == <<1, protocol>> \o packUint(height) \o addr
packErcProtocolValue(height, payload) == packVaruint(height) \o payload
unpackErcProtocolValue(buf) ==
    LET h == unpackVaruintSafe(buf)
    IN IF h = Refused THEN Refused ELSE [height |-> h.v, payload |-> Drop(buf, h.l)]

-----------------------------------------------------------------------------
(* Fiat tickers: the rates in the order the map yields them, each           *)
(* [key, rate] with the four bytes of the float.                            *)

PackRates(rates) ==
    packVaruint(Len(rates)) \o Joined(rates, LAMBDA x: packString(x.key) \o x.rate)

packCurrencyRatesTicker(t) == PackRates(t.rates) \o PackRates(t.tokens)

UnpackRate(buf) ==
    LET key == unpackString(buf)
    IN Got([key |-> key.v, rate |-> Take(Drop(buf, key.l), 4)], key.l + 4)

unpackRates(buf) ==
    LET n == unpackVaruint(buf)
        rates == Times(n.v, Drop(buf, n.l), UnpackRate)
    IN Got(rates.v, n.l + rates.l)

\* Upper case letters are the bytes 65..90.
ToLower(s) == [i \in DOMAIN s |-> IF s[i] \in 65..90 THEN s[i] + 32 ELSE s[i]]

unpackCurrencyRatesTicker(buf, token) ==
    LET rates == unpackRates(buf)
        tokens == unpackRates(Drop(buf, rates.l)).v
        match == {i \in DOMAIN tokens : tokens[i].key \in {token, ToLower(token)}}
        first == CHOOSE i \in match : \A j \in match : i <= j
    IN [rates |-> rates.v,
        tokens |-> IF token = Nil THEN tokens
                   ELSE IF match = {} THEN <<>>
                   ELSE <<[key |-> token, rate |-> tokens[first].rate]>>]

\* CurrencyRatesTicker.findTokenRate of a whole ticker.
findTokenRate(tokens, token) ==
    LET With(key) == SelectSeq(tokens, LAMBDA x: x.key = key)
    IN IF With(token) # <<>> THEN With(token)[1].rate
       ELSE IF With(ToLower(token)) # <<>> THEN With(ToLower(token))[1].rate ELSE Nil

-----------------------------------------------------------------------------
(* Rows of Syscoin assets, and the serializers the Syscoin parser keeps for *)
(* the rows the database writes.                                            *)

Legacy == [ext |-> FALSE, assets |-> TRUE, legacy |-> TRUE]
PackTxAddresses(ta) == packTxAddresses(Legacy, ta)
UnpackTxAddresses(buf) == unpackTxAddresses(Legacy, buf)
PackAddrBalance(ab) == packAddrBalance(Legacy, ab)
UnpackAddrBalance(buf, withUtxos) == unpackAddrBalance(Legacy, buf, withUtxos)

PackAssetKey(guid, height) == packVaruint(guid) \o Complement(packUint(height))
UnpackAssetKey(buf) ==
    LET guid == unpackVaruint(buf)
    IN [guid |-> guid.v, height |-> unpackUint(Complement(Drop(buf, guid.l)))]

PackAssetTxIndex(txs) ==
    packVaruint(Len(txs)) \o Joined(txs, LAMBDA t: packUint(t.type) \o t.txid)
UnpackAssetTxIndex(buf) ==
    LET n == unpackVaruint(buf)
    IN Times(n.v, Drop(buf, n.l), LAMBDA b:
           Got([type |-> unpackUint(b), txid |-> Take(Drop(b, 4), TxidLen)], 4 + TxidLen)).v

\* The parser's address rows also carry the kind of each tx and its assets.
PackTxIndexes(txi) ==
    Joined(Reverse(txi), LAMBDA t:
        packVaruint(t.type) \o packTxIndexes(<<t>>)
        \o packVaruint(Len(t.assets)) \o Joined(t.assets, packVaruint))
UnpackTxIndexType(buf) == unpackVaruint(buf)
UnpackTxIndexAssets(buf) ==
    LET n == unpackVaruint(buf)
        guids == Times(n.v, Drop(buf, n.l), unpackVaruint)
    IN Got(guids.v, n.l + guids.l)
UnpackLegacyIndex(buf) ==
    LET type == UnpackTxIndexType(buf)
        t == UnpackTxIndex(Drop(buf, type.l))
        assets == UnpackTxIndexAssets(Drop(buf, type.l + t.l))
    IN Got([type |-> type.v, txid |-> t.v.txid, indexes |-> t.v.indexes,
            assets |-> assets.v], type.l + t.l + assets.l)

\* The wire form of the asset itself is the library's and is taken whole.
PackAsset(a) == packVaruint(a.transactions) \o packVarBytes(a.meta) \o a.obj
UnpackAsset(buf) ==
    LET n == unpackVaruint(buf)
        meta == unpackVarBytes(Drop(buf, n.l))
    IN [transactions |-> n.v, meta |-> meta.v, obj |-> Drop(buf, n.l + meta.l)]

-----------------------------------------------------------------------------
(* Keys.  The height is complemented so that newer blocks come first.       *)

packAddressKey(addr, height) == addr \o Complement(packUint(height))
unpackAddressKey(key) ==
    IF Len(key) <= 4 THEN Refused
    ELSE [addr |-> Take(key, Len(key) - 4),
          height |-> unpackUint(Complement(Drop(key, Len(key) - 4)))]

\* bytes.Compare(a, b) < 0.
Before(a, b) ==
    \E n \in 0..Len(a) :
        /\ n <= Len(b) /\ Take(a, n) = Take(b, n)
        /\ \/ n = Len(a) /\ n < Len(b)
           \/ n < Len(a) /\ n < Len(b) /\ a[n + 1] < b[n + 1]

\* The keys an iterator meets from start on, in order.
Seek(keys, start) ==
    SetToSortSeq({k \in keys : ~Before(k, start)}, Before)

Until(list, Over(_)) ==
    IF \E i \in DOMAIN list : Over(list[i])
    THEN Take(list, (CHOOSE i \in DOMAIN list :
                        Over(list[i]) /\ \A j \in 1..(i - 1) : ~Over(list[j])) - 1)
    ELSE list

\* The heights of an address between lower and higher; keys of another
\* length belong to other descriptors and are skipped.
AddressScan(keys, addr, lower, higher) ==
    LET stop == packAddressKey(addr, lower)
        met == Until(Seek(keys, packAddressKey(addr, higher)), LAMBDA k: Before(stop, k))
        own == SelectSeq(met, LAMBDA k: Len(k) = Len(addr) + 4)
    IN [i \in DOMAIN own |-> unpackAddressKey(own[i]).height]

\* The heights of an asset; nothing but the bounds tells its keys apart.
AssetScan(keys, guid, lower, higher) ==
    LET stop == PackAssetKey(guid, lower)
        met == Until(Seek(keys, PackAssetKey(guid, higher)), LAMBDA k: Before(stop, k))
    IN [i \in DOMAIN met |-> UnpackAssetKey(met[i]).height]

\* The contracts whose protocol row was written between lower and higher.
disconnectErcProtocolRange(keys, protocol, lower, higher) ==
    LET end == <<1, protocol>> \o packUint(higher + 1)
        met == Until(Seek(keys, <<1, protocol>> \o packUint(lower)), LAMBDA k: ~Before(k, end))
    IN {Drop(met[i], 6) : i \in {i \in DOMAIN met : Len(met[i]) > 6}}

\* The ids of the signatures stored for four bytes.
FourByteScan(keys, fourBytes) ==
    LET met == Until(Seek(keys, packUint(fourBytes)),
                     LAMBDA k: Before(packUint(fourBytes), Take(k, 4)))
    IN [i \in DOMAIN met |-> unpackUint(Drop(met[i], 4))]

-----------------------------------------------------------------------------
(* One row or one set of keys is looked at in every state. *)

VARIABLE row

CodecInit == row = [kind |-> "none"]

Look(rows) == row.kind = "none" /\ row' \in rows

ReadBack(r) ==
    LET v == r.v IN
    CASE r.kind = "tx" ->
            unpackTxAddresses(r.d, packTxAddresses(r.d, v)) = v
      [] r.kind = "balance" ->
            LET kept == [v EXCEPT !.utxos = SelectSeq(@, LAMBDA u: u.vout >= 0)]
                buf == packAddrBalance(r.d, v)
            IN /\ unpackAddrBalance(r.d, buf, TRUE) = kept
               /\ unpackAddrBalance(r.d, buf, FALSE) = [kept EXCEPT !.utxos = <<>>]
      [] r.kind = "indexes" ->
            /\ unpackTxIndexes(packTxIndexes(v)) = [i \in DOMAIN v |->
                   [txid |-> v[i].txid, indexes |-> v[i].indexes]]
            /\ Reverse(WhileLeft(PackTxIndexes(v), 1, UnpackLegacyIndex)) = v
      [] r.kind = "undo" ->
            getBlockTxs(storeAndCleanupBlockTxs(v)) =
                [i \in DOMAIN v |-> [v[i] EXCEPT !.vin = [j \in DOMAIN @ |->
                    IF @[j].txid = Nil THEN [@[j] EXCEPT !.txid = Zeros(TxidLen)] ELSE @[j]]]]
      [] r.kind = "block" ->
            LET bi == unpackBlockInfo(packBlockInfo(v))
            IN /\ [bi EXCEPT !.hash = v.hash] = v
               /\ Len(v.hash) = TxidLen => bi.hash = v.hash
      [] r.kind = "contracts" ->
            /\ unpackAddrContracts(packAddrContracts(v)) = v
            /\ unpackAddrContractsV6(packAddrContractsV6(v)) = v
      [] r.kind = "ethundo" ->
            LET Stored(a) == IF a = Nil THEN Zeros(AddrLen) ELSE a
            IN getBlockTxsEthereumType(Joined(v, packBlockTx)) =
                   [i \in DOMAIN v |-> [v[i] EXCEPT !.from = Stored(@), !.to = Stored(@)]]
      [] r.kind = "internal" ->
            unpackEthInternalData(packEthInternalData(
                [v EXCEPT !.error = PackInternalTransactionError(@)])) =
            [v EXCEPT !.error = IF @ = <<301>> THEN <<401>> ELSE @]
      [] r.kind = "queued" ->
            unpackBlockInternalDataError(StoreBlockInternalDataErrorEthereumType(v)) = v
      [] r.kind = "signature" ->
            unpackFourByteSignature(packFourByteSignature(v)) = v
      [] r.kind = "contract" ->
            LET c == unpackContractInfo(packContractInfo(v))
            IN /\ [c EXCEPT !.name = v.name] = v
               /\ IsPrefix(c.name, v.name) /\ ValidString(c.name)
               /\ c.name # v.name => Len(v.name) > MaxName /\ Len(c.name) \in {MaxName - 1, MaxName}
      [] r.kind = "protocol" ->
            LET p == unpackErcProtocolValue(packErcProtocolValue(v.height, packString(v.asset)))
            IN p # Refused /\ p.height = v.height /\ unpackStringSafe(p.payload).v = v.asset
      [] r.kind = "ticker" ->
            unpackCurrencyRatesTicker(packCurrencyRatesTicker(v), Nil) = v
      [] r.kind = "asset" ->
            /\ UnpackAsset(PackAsset(v.asset)) = v.asset
            /\ UnpackAssetTxIndex(PackAssetTxIndex(v.txs)) = v.txs
      [] OTHER -> TRUE

\* What is written is what is read back: the rows of transactions, balances,
\* blocks, contracts, internal data, signatures, protocols, tickers and
\* assets survive packing and unpacking in every layout, apart from what the
\* layout leaves out on purpose (spent utxos, a clamped name, the wording of
\* a common error, a hash of another length).
RowsReadBack == [][ReadBack(row')]_row

Agree(r) ==
    LET v == r.v IN
    CASE r.kind = "tx" ->
            LET buf == packTxAddresses(r.d, v)
                Ext == [r.d EXCEPT !.ext = TRUE]
            IN /\ \A i \in 0..Len(v.outputs) :
                     /\ GetTxAddressesOutput(r.d, buf, i) =
                            IF i < Len(v.outputs) THEN v.outputs[i + 1] ELSE Nil
                     /\ (AddrDescForOutpoint(r.d, buf, i) = Nil) <=> (i = Len(v.outputs))
               /\ \A i \in 1..Len(v.inputs) :
                     AddrDescForOutpoint(r.d, buf, -i).addr = v.inputs[i].addr
               /\ r.d.assets /\ ~r.d.ext => UnpackTxAddresses(buf) = v
               /\ r.d.assets /\ ~r.d.ext => PackTxAddresses(v) = buf
      [] r.kind = "balance" ->
            r.d.assets =>
                LET kept == [v EXCEPT !.utxos = SelectSeq(@, LAMBDA u: u.vout >= 0)]
                IN /\ UnpackAddrBalance(packAddrBalance(r.d, v), TRUE) = kept
                   /\ unpackAddrBalance(r.d, PackAddrBalance(v), TRUE) = kept
      [] r.kind = "contracts" ->
            LET buf == packAddrContracts(v)
                part == partiallyUnpackAddrContracts(buf)
                Touched(all) == [part EXCEPT !.contracts = [i \in DOMAIN @ |->
                    [@[i] EXCEPT !.numbers = [j \in DOMAIN @ |->
                        IF all \/ j = 1 THEN get(@[j]) ELSE @[j]]]]]
            IN /\ unpackAddrContractsHeader(buf) = [v EXCEPT !.contracts = Nil]
               /\ \A acs \in {part, Touched(FALSE), Touched(TRUE)} :
                      packUnpackedAddrContracts(acs) = buf
               /\ packAddrContracts(unpackAddrContractsV6(packAddrContractsV6(v))) = buf
      [] r.kind = "ticker" ->
            LET buf == packCurrencyRatesTicker(v)
            IN \A token \in r.tokens :
                  findTokenRate(unpackCurrencyRatesTicker(buf, token).tokens, token) =
                  findTokenRate(v.tokens, token)
      [] OTHER -> TRUE

\* A shortcut answers what the whole row says: one output found by skipping
\* the rest of its row, the counters of an address without its contracts, a
\* record repacked with only some of its numbers decoded, the rate of one
\* token, the migrated layout of an older row, and the rows of the database
\* read by the serializers of the Syscoin parser and the other way round.
ShortcutsAgree == [][Agree(row')]_row

Exact(r) ==
    LET v == r.v
        Sorted(S, Op(_, _)) == SetToSortSeq(S, Op)
        Within(S) == {h \in S : h \in r.lower..r.higher}
    IN
    CASE r.kind = "addresskeys" ->
            \A k \in v :
                AddressScan({packAddressKey(x.of, x.height) : x \in v},
                            k.of, r.lower, r.higher) =
                Sorted(Within({x.height : x \in {x \in v : x.of = k.of}}), LAMBDA a, b: a > b)
      [] r.kind = "assetkeys" ->
            \A k \in v :
                AssetScan({PackAssetKey(x.of, x.height) : x \in v},
                          k.of, r.lower, r.higher) =
                Sorted(Within({x.height : x \in {x \in v : x.of = k.of}}), LAMBDA a, b: a > b)
      [] r.kind = "protocolkeys" ->
            disconnectErcProtocolRange(
                UNION {{protocolByContractKey(1, x.of), protocolByHeightKey(1, x.height, x.of)}
                       : x \in v}, 1, r.lower, r.higher) =
            {x.of : x \in {x \in v : x.height \in r.lower..r.higher}}
      [] r.kind = "fourbytekeys" ->
            \A k \in v :
                FourByteScan({packFourByteKey(x.of, x.height) : x \in v}, k.of) =
                Sorted({x.height : x \in {x \in v : x.of = k.of}}, LAMBDA a, b: a < b)
      [] OTHER -> TRUE

\* A scan over the keys of a column meets exactly the rows it asks for: those
\* of one address, asset, four-byte signature or range of heights, however
\* the keys of the others are mixed between them, the newest block first.
ScansExact == [][Exact(row')]_row

-----------------------------------------------------------------------------
(* The data of the Golomb filter of a block (bchain/golomb.go), as the     *)
(* indexing of the block feeds it: the outputs of all transactions, then   *)
(* the outputs they spend.  The coding of the finished set is left out.    *)

CONSTANTS
    FilterBlocks,    \* the blocks: sequences of [txid, outputs, spends, ordinal]; spends are [txid, desc]
    TaprootDescs,    \* the descriptors that are taproot
    FilterScripts    \* the settings: "", "taproot", "taproot-noordinals"

VARIABLES
    filtered,   \* the block whose filter is computed
    gf,         \* the GolombFilter: [scripts, data, ordinalTxIds, all], all a set of <<txid, descriptor>>
    fed         \* the descriptors still to be added, in order: <<descriptor, tx>>

fvars == <<filtered, gf, fed>>

ignoreNonTaproot(f) == f.scripts \in {"taproot", "taproot-noordinals"}
ignoreOrdinals(f) == f.scripts = "taproot-noordinals"

NewGolombFilter(scripts) == [scripts |-> scripts, data |-> {}, ordinalTxIds |-> {}, all |-> {}]

\* processAddressesBitcoinType calls AddAddrDesc for every output of the block, then for every output spent.
FeedOf(block) ==
    FlattenSeq([i \in DOMAIN block |-> [j \in DOMAIN block[i].outputs |-> <<block[i].outputs[j], block[i]>>]])
    \o FlattenSeq([i \in DOMAIN block |-> [j \in DOMAIN block[i].spends |-> <<block[i].spends[j].desc, block[i]>>]])

FilterInit ==
    /\ filtered = <<>>
    /\ \E scripts \in FilterScripts : gf = NewGolombFilter(scripts)
    /\ fed = <<>>

FilterBegin ==
    /\ filtered = <<>>
    /\ \E block \in FilterBlocks : filtered' = block /\ fed' = FeedOf(block)
    /\ UNCHANGED gf

\* The transaction and the ones it spends.
markTxAndParentsAsOrdinals(f, tx) ==
    [f EXCEPT !.ordinalTxIds = @ \cup {tx.txid} \cup {tx.spends[i].txid : i \in DOMAIN tx.spends}]

AddAddrDesc ==
    /\ fed # <<>>
    /\ LET ad == fed[1][1]
           tx == fed[1][2]
       IN gf' = IF ignoreNonTaproot(gf) /\ ad \notin TaprootDescs THEN gf
                ELSE IF ignoreOrdinals(gf) /\ tx.ordinal THEN markTxAndParentsAsOrdinals(gf, tx)
                ELSE IF ignoreOrdinals(gf) THEN [gf EXCEPT !.all = @ \cup {<<tx.txid, ad>>}]
                ELSE [gf EXCEPT !.data = @ \cup {ad}]
    /\ fed' = Tail(fed)
    /\ UNCHANGED filtered

\* Compute adds what was held back of transactions that are not marked.
FilterData(f) == f.data \cup {m[2] : m \in {m \in f.all : m[1] \notin f.ordinalTxIds}}

FilterNext == FilterBegin \/ AddAddrDesc

\* A wallet that tests a block's filter misses none of its scripts and downloads no block for an ordinal: the filter
\* holds every script the setting covers that a transaction of the block creates or spends, except those of a
\* transaction that carries ordinal data and of a transaction of the same block that one spends, in either order.
FilterExact ==
    filtered # <<>> /\ fed = <<>> =>
        LET scripts(tx) == Range(tx.outputs) \cup {tx.spends[i].desc : i \in DOMAIN tx.spends}
            txs == Range(filtered)
            covered(d) == gf.scripts = "" \/ d \in TaprootDescs
            marked(tx) == tx.ordinal /\ \E d \in scripts(tx) : covered(d)
            ordinal(tx) == \/ marked(tx)
                           \/ \E t \in txs : marked(t) /\ tx.txid \in {t.spends[i].txid : i \in DOMAIN t.spends}
        IN FilterData(gf) =
               UNION {{d \in scripts(tx) : covered(d)} :
                      tx \in {tx \in txs : gf.scripts = "taproot-noordinals" => ~ordinal(tx)}}
=============================================================================
