-------------------------- MODULE ConfigFileProofs --------------------------
(***************************************************************************)
(* Proofs about ConfigFile, for any number of overlapping invocations, any *)
(* passwords and any values the users write.                               *)
(***************************************************************************)
EXTENDS ConfigFile, TLAPS

-----------------------------------------------------------------------------
(* Load *)

Fields == {"server", "key", "id", "serverID", "hash", "compress", "name",
           "target", "password", "protocol", "enabled", "zstd"}

ZstdValues == [min : Int, chunk : Int, level : Int]

LEMMA OrderFacts ==
    /\ Full = 12
    /\ WriteOrder[1] = "server" /\ WriteOrder[2] = "key" /\ WriteOrder[3] = "id"
    /\ WriteOrder[4] = "serverID" /\ WriteOrder[5] = "hash"
    /\ WriteOrder[6] = "compress" /\ WriteOrder[7] = "name"
    /\ WriteOrder[8] = "target" /\ WriteOrder[9] = "password"
    /\ WriteOrder[10] = "protocol" /\ WriteOrder[11] = "enabled"
    /\ WriteOrder[12] = "zstd"
  BY DEF Full, WriteOrder

\* Every value the limits of Load leave is in the range its header gives.
LEMMA ZstdInRange ==
    ASSUME NEW z \in ZstdValues
    PROVE  InRange(NormalZstd(z)) /\ NormalZstd(z) \in ZstdValues
  <1> DEFINE b == Clamp(OrDefault(z.chunk, 32), 8, 128)
             a == Clamp(OrDefault(z.min, 256), 32, 2048)
             l == Clamp(OrDefault(z.level, 20), 1, 20)
             n == IF a >= b * 1024 THEN Clamp(b * 1024 - 1, 32, a) ELSE a
  <1>1. z.chunk \in Int /\ z.min \in Int /\ z.level \in Int
    BY DEF ZstdValues
  <1>2. /\ OrDefault(z.chunk, 32) \in Int /\ OrDefault(z.min, 256) \in Int
        /\ OrDefault(z.level, 20) \in Int
    BY <1>1 DEF OrDefault
  <1>3. b \in 8 .. 128
    BY <1>2 DEF Clamp
  <1>4. a \in 32 .. 2048
    BY <1>2 DEF Clamp
  <1>5. l \in 1 .. 20
    BY <1>2 DEF Clamp
  <1>6. NormalZstd(z) = [min |-> n, chunk |-> b, level |-> l]
    BY DEF NormalZstd
  <1> HIDE DEF a, b, l
  <1>7. n \in 32 .. 2048 /\ n < b * 1024
    BY <1>3, <1>4 DEF Clamp
  <1> HIDE DEF n
  <1> QED BY <1>3, <1>5, <1>6, <1>7 DEF InRange, ZstdValues

LEMMA NotUnset == \A x \in Int : x >= 0 => x # Unset
  BY SMT DEF Unset

LEMMA ZstdRecordFixed ==
    ASSUME NEW a \in Int, NEW b \in Int, NEW l \in Int,
           InRange([min |-> a, chunk |-> b, level |-> l])
    PROVE  LET z == [min |-> a, chunk |-> b, level |-> l]
           IN  NormalZstd(z) = z /\ Configured(z) = z
  <1> DEFINE z == [min |-> a, chunk |-> b, level |-> l]
  <1>1. b \in 8 .. 128 /\ a \in 32 .. 2048 /\ l \in 1 .. 20 /\ a < b * 1024
    BY DEF InRange
  <1>2. ~(a >= b * 1024)
    BY <1>1
  <1>3. b # Unset /\ a # Unset /\ l # Unset
    <2>1. b >= 0 /\ a >= 0 /\ l >= 0
      BY <1>1
    <2> QED BY <2>1, NotUnset, Zenon
  <1>4. OrDefault(b, 32) = b /\ OrDefault(a, 256) = a /\ OrDefault(l, 20) = l
    BY <1>3 DEF OrDefault
  <1>5. Clamp(b, 8, 128) = b /\ Clamp(a, 32, 2048) = a /\ Clamp(l, 1, 20) = l
    BY <1>1 DEF Clamp
  <1>6. NormalZstd(z) = z
    BY <1>2, <1>4, <1>5 DEF NormalZstd
  <1>7. Configured(z) = z
    <2>1. ~(b <= 0) /\ ~(a <= 0)
      BY <1>1
    <2>2. z.chunk = b /\ z.min = a
      OBVIOUS
    <2>3. z \in ZstdValues
      BY DEF ZstdValues
    <2> HIDE DEF z
    <2>4. [z EXCEPT !.chunk = b, !.min = a] = z
      BY <2>2, <2>3 DEF ZstdValues
    <2>5. Configured(z) = [z EXCEPT !.chunk = b, !.min = a]
      BY <1>2, <2>1, <2>2 DEF Configured
    <2> QED BY <2>4, <2>5
  <1> QED BY <1>6, <1>7

\* A value in its range is not changed any more, by Load or at the start.
LEMMA ZstdFixed ==
    ASSUME NEW z \in ZstdValues, InRange(z)
    PROVE  NormalZstd(z) = z /\ Configured(z) = z
  <1>1. PICK a \in Int, b \in Int, l \in Int :
            z = [min |-> a, chunk |-> b, level |-> l]
    BY DEF ZstdValues
  <1> QED BY <1>1, ZstdRecordFixed

LEMMA ConfigFields == \A c \in Configs : DOMAIN c = Fields
  BY DEF Configs, Fields

\* Records of the file that agree on every line are the same.
LEMMA ConfigEquality ==
    ASSUME NEW c \in Configs, NEW d \in Configs, \A f \in Fields : c[f] = d[f]
    PROVE  c = d
  <1>1. /\ c.server = d.server /\ c.key = d.key /\ c.id = d.id
        /\ c.serverID = d.serverID /\ c.hash = d.hash
        /\ c.compress = d.compress /\ c.name = d.name /\ c.target = d.target
        /\ c.password = d.password /\ c.protocol = d.protocol
        /\ c.enabled = d.enabled /\ c.zstd = d.zstd
    BY DEF Fields
  <1>2. c = [server |-> c.server, key |-> c.key, id |-> c.id,
             serverID |-> c.serverID, hash |-> c.hash, compress |-> c.compress,
             name |-> c.name, target |-> c.target, password |-> c.password,
             protocol |-> c.protocol, enabled |-> c.enabled, zstd |-> c.zstd]
    BY DEF Configs
  <1>3. d = [server |-> d.server, key |-> d.key, id |-> d.id,
             serverID |-> d.serverID, hash |-> d.hash, compress |-> d.compress,
             name |-> d.name, target |-> d.target, password |-> d.password,
             protocol |-> d.protocol, enabled |-> d.enabled, zstd |-> d.zstd]
    BY DEF Configs
  <1> QED BY <1>1, <1>2, <1>3, Zenon

LEMMA ConstantFacts ==
    /\ MaxKeys \in Nat /\ MaxEdits \in Nat /\ MaxRuns \in Nat
    /\ Zstds \subseteq ZstdValues
  BY ConfigAssumption, Zenon DEF ZstdValues

LEMMA ZeroConfig == Zero \in Configs /\ Zero.key = Zero.id /\ ~Zero.serverID /\ ~Zero.server
  <1>1. Unset \in Int
    BY SMT DEF Unset
  <1>2. NoZstd \in ZstdValues
    BY <1>1, SMT DEF NoZstd, ZstdValues
  <1>3. 0 \in 0 .. MaxKeys
    BY ConstantFacts
  <1> QED BY <1>2, <1>3 DEF Zero, Configs, ZstdValues

\* What Decode finds in the first upto lines.
LEMMA DecodedFacts ==
    ASSUME cfg \in Configs, upto \in Absent .. Full
    PROVE  /\ Decoded.server = IF upto >= 1 THEN cfg.server ELSE FALSE
           /\ Decoded.key = IF upto >= 2 THEN cfg.key ELSE 0
           /\ Decoded.id = IF upto >= 3 THEN cfg.id ELSE 0
           /\ Decoded.serverID = IF upto >= 4 THEN cfg.serverID ELSE FALSE
           /\ Decoded.hash = IF upto >= 5 THEN cfg.hash ELSE ""
           /\ Decoded.compress = IF upto >= 6 THEN cfg.compress ELSE "unset"
           /\ Decoded.name = IF upto >= 7 THEN cfg.name ELSE FALSE
           /\ Decoded.target = IF upto >= 8 THEN cfg.target ELSE FALSE
           /\ Decoded.password = IF upto >= 9 THEN cfg.password ELSE ""
           /\ Decoded.protocol = IF upto >= 10 THEN cfg.protocol ELSE FALSE
           /\ Decoded.enabled = IF upto >= 11 THEN cfg.enabled ELSE FALSE
           /\ Decoded.zstd = IF upto >= 12 THEN cfg.zstd ELSE NoZstd
           /\ DOMAIN Decoded = Fields
  <1>1. upto \in Int /\ upto <= 12
    BY OrderFacts DEF Absent
  <1>2. \A i \in 1 .. upto : i \in {1, 2, 3, 4, 5, 6, 7, 8, 9, 10, 11, 12}
    BY <1>1
  <1>3. DOMAIN cfg = Fields
    BY ConfigFields
  <1>4. DOMAIN Decoded = Fields
    BY <1>3 DEF Decoded
  <1>5. \A f \in Fields :
           Decoded[f] = IF \E i \in 1 .. upto : WriteOrder[i] = f THEN cfg[f] ELSE Zero[f]
    BY <1>3 DEF Decoded
  <1> DEFINE There(n) == \E i \in 1 .. upto : WriteOrder[i] = WriteOrder[n]
  <1>6. \A n \in 1 .. 12 : There(n) <=> upto >= n
    BY <1>1, <1>2, OrderFacts
  <1> HIDE DEF Decoded
  <1>7. \A n \in 1 .. 12 :
           Decoded[WriteOrder[n]] =
             IF upto >= n THEN cfg[WriteOrder[n]] ELSE Zero[WriteOrder[n]]
    BY <1>5, <1>6, OrderFacts DEF Fields
  <1>8. /\ Zero.server = FALSE /\ Zero.key = 0 /\ Zero.id = 0
        /\ Zero.serverID = FALSE /\ Zero.hash = "" /\ Zero.compress = "unset"
        /\ Zero.name = FALSE /\ Zero.target = FALSE /\ Zero.password = ""
        /\ Zero.protocol = FALSE /\ Zero.enabled = FALSE /\ Zero.zstd = NoZstd
    BY DEF Zero
  <1> HIDE DEF Zero
  <1>f1. Decoded.server = IF upto >= 1 THEN cfg.server ELSE FALSE
    <2>1. Decoded[WriteOrder[1]] =
            IF upto >= 1 THEN cfg[WriteOrder[1]] ELSE Zero[WriteOrder[1]]
      BY <1>7
    <2> QED BY <2>1, <1>8, OrderFacts, Zenon
  <1>f2. Decoded.key = IF upto >= 2 THEN cfg.key ELSE 0
    <2>1. Decoded[WriteOrder[2]] =
            IF upto >= 2 THEN cfg[WriteOrder[2]] ELSE Zero[WriteOrder[2]]
      BY <1>7
    <2> QED BY <2>1, <1>8, OrderFacts, Zenon
  <1>f3. Decoded.id = IF upto >= 3 THEN cfg.id ELSE 0
    <2>1. Decoded[WriteOrder[3]] =
            IF upto >= 3 THEN cfg[WriteOrder[3]] ELSE Zero[WriteOrder[3]]
      BY <1>7
    <2> QED BY <2>1, <1>8, OrderFacts, Zenon
  <1>f4. Decoded.serverID = IF upto >= 4 THEN cfg.serverID ELSE FALSE
    <2>1. Decoded[WriteOrder[4]] =
            IF upto >= 4 THEN cfg[WriteOrder[4]] ELSE Zero[WriteOrder[4]]
      BY <1>7
    <2> QED BY <2>1, <1>8, OrderFacts, Zenon
  <1>f5. Decoded.hash = IF upto >= 5 THEN cfg.hash ELSE ""
    <2>1. Decoded[WriteOrder[5]] =
            IF upto >= 5 THEN cfg[WriteOrder[5]] ELSE Zero[WriteOrder[5]]
      BY <1>7
    <2> QED BY <2>1, <1>8, OrderFacts, Zenon
  <1>f6. Decoded.compress = IF upto >= 6 THEN cfg.compress ELSE "unset"
    <2>1. Decoded[WriteOrder[6]] =
            IF upto >= 6 THEN cfg[WriteOrder[6]] ELSE Zero[WriteOrder[6]]
      BY <1>7
    <2> QED BY <2>1, <1>8, OrderFacts, Zenon
  <1>f7. Decoded.name = IF upto >= 7 THEN cfg.name ELSE FALSE
    <2>1. Decoded[WriteOrder[7]] =
            IF upto >= 7 THEN cfg[WriteOrder[7]] ELSE Zero[WriteOrder[7]]
      BY <1>7
    <2> QED BY <2>1, <1>8, OrderFacts, Zenon
  <1>f8. Decoded.target = IF upto >= 8 THEN cfg.target ELSE FALSE
    <2>1. Decoded[WriteOrder[8]] =
            IF upto >= 8 THEN cfg[WriteOrder[8]] ELSE Zero[WriteOrder[8]]
      BY <1>7
    <2> QED BY <2>1, <1>8, OrderFacts, Zenon
  <1>f9. Decoded.password = IF upto >= 9 THEN cfg.password ELSE ""
    <2>1. Decoded[WriteOrder[9]] =
            IF upto >= 9 THEN cfg[WriteOrder[9]] ELSE Zero[WriteOrder[9]]
      BY <1>7
    <2> QED BY <2>1, <1>8, OrderFacts, Zenon
  <1>f10. Decoded.protocol = IF upto >= 10 THEN cfg.protocol ELSE FALSE
    <2>1. Decoded[WriteOrder[10]] =
            IF upto >= 10 THEN cfg[WriteOrder[10]] ELSE Zero[WriteOrder[10]]
      BY <1>7
    <2> QED BY <2>1, <1>8, OrderFacts, Zenon
  <1>f11. Decoded.enabled = IF upto >= 11 THEN cfg.enabled ELSE FALSE
    <2>1. Decoded[WriteOrder[11]] =
            IF upto >= 11 THEN cfg[WriteOrder[11]] ELSE Zero[WriteOrder[11]]
      BY <1>7
    <2> QED BY <2>1, <1>8, OrderFacts, Zenon
  <1>f12. Decoded.zstd = IF upto >= 12 THEN cfg.zstd ELSE NoZstd
    <2>1. Decoded[WriteOrder[12]] =
            IF upto >= 12 THEN cfg[WriteOrder[12]] ELSE Zero[WriteOrder[12]]
      BY <1>7
    <2> QED BY <2>1, <1>8, OrderFacts, Zenon
  <1> QED BY <1>4, <1>f1, <1>f2, <1>f3, <1>f4, <1>f5, <1>f6, <1>f7, <1>f8, <1>f9, <1>f10, <1>f11, <1>f12, Zenon

LEMMA DecodedConfig ==
    ASSUME cfg \in Configs, upto \in Absent .. Full
    PROVE  Decoded \in Configs
  <1>1. \A f \in Fields : Decoded[f] \in {cfg[f], Zero[f]}
    BY ConfigFields DEF Decoded
  <1>2. Decoded = [f \in Fields |-> Decoded[f]]
    BY ConfigFields DEF Decoded
  <1> HIDE DEF Decoded
  <1>3. /\ Decoded.server \in BOOLEAN /\ Decoded.key \in 0 .. MaxKeys
        /\ Decoded.id \in 0 .. MaxKeys /\ Decoded.serverID \in BOOLEAN
        /\ Decoded.hash \in Passwords \cup {""}
        /\ Decoded.compress \in {"unset", "on", "off"}
        /\ Decoded.name \in BOOLEAN /\ Decoded.target \in BOOLEAN
        /\ Decoded.password \in Passwords \cup {"", "123"}
        /\ Decoded.protocol \in BOOLEAN /\ Decoded.enabled \in BOOLEAN
        /\ Decoded.zstd \in [min : Int, chunk : Int, level : Int]
    BY <1>1, ZeroConfig DEF Configs, Fields
  <1> QED BY <1>2, <1>3 DEF Configs, Fields

\* Load after its defaults and limits.
LEMMA LoadedFacts ==
    ASSUME cfg \in Configs, upto \in Absent .. Full
    PROVE  /\ Loaded \in Configs
           /\ \A f \in Fields \ {"compress", "zstd"} : Loaded[f] = Decoded[f]
           /\ Loaded.zstd = NormalZstd(Decoded.zstd)
           /\ Loaded.compress = IF Decoded.server /\ Decoded.compress = "unset"
                                THEN "on"
                                ELSE IF Decoded.compress = "unset" THEN "off"
                                ELSE Decoded.compress
           /\ Loaded.compress # "unset"
           /\ InRange(Loaded.zstd)
  <1> DEFINE x == IF Decoded.server /\ Decoded.compress = "unset" THEN "on"
                  ELSE IF Decoded.compress = "unset" THEN "off"
                  ELSE Decoded.compress
             z == NormalZstd(Decoded.zstd)
  <1>1. Decoded \in Configs
    BY DecodedConfig
  <1>2. Loaded = [Decoded EXCEPT !.compress = x, !.zstd = z]
    BY DEF Loaded
  <1> HIDE DEF Decoded
  <1>3. Decoded.compress \in {"unset", "on", "off"} /\ Decoded.zstd \in ZstdValues
    BY <1>1 DEF Configs, ZstdValues
  <1>4. x \in {"unset", "on", "off"} /\ x # "unset"
    BY <1>3
  <1>5. z \in ZstdValues /\ InRange(z)
    BY <1>3, ZstdInRange
  <1> HIDE DEF x, z
  <1>6. Loaded \in Configs
    BY <1>1, <1>2, <1>4, <1>5 DEF Configs, ZstdValues
  <1>7. DOMAIN Decoded = Fields
    BY <1>1, ConfigFields
  <1>8. \A f \in Fields \ {"compress", "zstd"} : Loaded[f] = Decoded[f]
    BY <1>2, <1>7
  <1>9. Loaded.compress = x /\ Loaded.zstd = z
    BY <1>2, <1>7 DEF Fields
  <1> QED BY <1>4, <1>5, <1>6, <1>8, <1>9 DEF x, z

\* A file from which a server may start has its first ten lines.
LEMMA ValidFile ==
    ASSUME cfg \in Configs, upto \in Absent .. Full, Valid(Loaded)
    PROVE  /\ upto \in 10 .. 12
           /\ Loaded.server = cfg.server /\ Loaded.key = cfg.key
           /\ Loaded.id = cfg.id /\ Loaded.hash = cfg.hash
           /\ Loaded.password = cfg.password
           /\ Loaded.name = cfg.name
           /\ Loaded.enabled => cfg.enabled
  <1>1. \A f \in Fields \ {"compress", "zstd"} : Loaded[f] = Decoded[f]
    BY LoadedFacts
  <1>2. /\ Loaded.protocol = Decoded.protocol /\ Loaded.server = Decoded.server
        /\ Loaded.key = Decoded.key /\ Loaded.id = Decoded.id
        /\ Loaded.hash = Decoded.hash /\ Loaded.password = Decoded.password
        /\ Loaded.enabled = Decoded.enabled /\ Loaded.name = Decoded.name
    BY <1>1 DEF Fields
  <1>3. Loaded.protocol
    BY DEF Valid
  <1>4. upto \in Int /\ upto <= 12
    BY OrderFacts DEF Absent
  <1>5. upto >= 10
    BY <1>2, <1>3, <1>4, DecodedFacts
  <1>6. upto >= 1 /\ upto >= 2 /\ upto >= 3 /\ upto >= 5 /\ upto >= 7 /\ upto >= 9
    BY <1>4, <1>5
  <1>7. /\ Decoded.server = cfg.server /\ Decoded.key = cfg.key
        /\ Decoded.id = cfg.id /\ Decoded.hash = cfg.hash
        /\ Decoded.password = cfg.password /\ Decoded.name = cfg.name
        /\ Decoded.enabled => cfg.enabled
    BY <1>6, DecodedFacts, Zenon
  <1>8. upto \in 10 .. 12
    BY <1>4, <1>5
  <1> QED BY <1>2, <1>7, <1>8, Zenon

\* Loading the whole of a file that the limits and defaults no longer change.
LEMMA WholeFile ==
    ASSUME cfg \in Configs, upto = Full, InRange(cfg.zstd), cfg.compress # "unset"
    PROVE  Loaded = cfg
  <1>1. upto \in Absent .. Full /\ upto = 12
    BY OrderFacts DEF Absent
  <1>2. \A f \in Fields : Decoded[f] = cfg[f]
    BY <1>1, DecodedFacts DEF Fields
  <1>3. cfg.zstd \in ZstdValues
    BY DEF Configs, ZstdValues
  <1>4. \A f \in Fields : Loaded[f] = cfg[f]
    <2>1. Decoded.zstd = cfg.zstd /\ Decoded.compress = cfg.compress
      BY <1>2 DEF Fields
    <2>2. Loaded.zstd = cfg.zstd
      BY <1>1, <1>3, <2>1, LoadedFacts, ZstdFixed
    <2>3. Loaded.compress = cfg.compress
      BY <1>1, <2>1, LoadedFacts
    <2> QED BY <1>1, <1>2, <2>2, <2>3, LoadedFacts
  <1> QED BY <1>1, <1>4, LoadedFacts, ConfigEquality

-----------------------------------------------------------------------------
(* What the operations make of a configuration *)

\* With the peer ID of its key, once it has services, and a server's without
\* that of a server to connect to.
Consistent(c) ==
    /\ c.name => c.key = c.id
    /\ c.server => ~c.serverID

\* Consistent, in its ranges, and a server's compression decided.
Good(c) ==
    /\ InRange(c.zstd)
    /\ c.server => c.compress # "unset"
    /\ Consistent(c)

LEMMA LoadedGood ==
    ASSUME cfg \in Configs, upto \in Absent .. Full, Consistent(cfg)
    PROVE  Good(Loaded)
  <1>1. \A f \in Fields \ {"compress", "zstd"} : Loaded[f] = Decoded[f]
    BY LoadedFacts
  <1>2. /\ Loaded.name = Decoded.name
        /\ Loaded.key = Decoded.key /\ Loaded.id = Decoded.id
        /\ Loaded.server = Decoded.server /\ Loaded.serverID = Decoded.serverID
    BY <1>1 DEF Fields
  <1>5. Loaded.server => ~Loaded.serverID
    BY <1>2, DecodedFacts, Zenon DEF Consistent
  <1>3. CASE upto >= 7
    <2>1. upto >= 2 /\ upto >= 3
      BY <1>3 DEF Absent
    <2>2. Loaded.name => Loaded.key = Loaded.id
      BY <1>2, <1>3, <2>1, DecodedFacts, Zenon DEF Consistent
    <2> QED BY <1>5, <2>2, LoadedFacts DEF Good, Consistent
  <1>4. CASE ~(upto >= 7)
    <2>1. ~Loaded.name
      BY <1>2, <1>4, DecodedFacts, Zenon
    <2> QED BY <1>5, <2>1, LoadedFacts DEF Good, Consistent
  <1> QED BY <1>3, <1>4

LEMMA IdentityConfig ==
    ASSUME NEW c \in Configs, NEW k \in 0 .. MaxKeys
    PROVE  /\ WithIdentity(c, k) \in Configs
           /\ \A f \in Fields \ {"key", "id"} : WithIdentity(c, k)[f] = c[f]
           /\ WithIdentity(c, k).key = k /\ WithIdentity(c, k).id = k
           /\ Good(c) => Good(WithIdentity(c, k))
  <1>1. WithIdentity(c, k) \in Configs
    BY DEF WithIdentity, Configs
  <1>2. DOMAIN c = Fields
    BY ConfigFields
  <1>3. \A f \in Fields \ {"key", "id"} : WithIdentity(c, k)[f] = c[f]
    BY <1>2 DEF WithIdentity
  <1>4. WithIdentity(c, k).key = k /\ WithIdentity(c, k).id = k
    BY <1>2 DEF WithIdentity, Fields
  <1> HIDE DEF WithIdentity
  <1>5. /\ WithIdentity(c, k).zstd = c.zstd /\ WithIdentity(c, k).server = c.server
        /\ WithIdentity(c, k).compress = c.compress
        /\ WithIdentity(c, k).serverID = c.serverID
    BY <1>3 DEF Fields
  <1> QED BY <1>1, <1>3, <1>4, <1>5, Zenon DEF Good, Consistent

LEMMA HashedConfig ==
    ASSUME NEW c \in Configs, NEW h \in Passwords \cup {""}
    PROVE  /\ [c EXCEPT !.hash = h] \in Configs
           /\ \A f \in Fields \ {"hash"} : [c EXCEPT !.hash = h][f] = c[f]
           /\ Good(c) => Good([c EXCEPT !.hash = h])
  <1> DEFINE d == [c EXCEPT !.hash = h]
  <1>1. d \in Configs
    BY DEF Configs
  <1>2. DOMAIN c = Fields
    BY ConfigFields
  <1>3. \A f \in Fields \ {"hash"} : d[f] = c[f]
    BY <1>2
  <1> HIDE DEF d
  <1>4. /\ d.zstd = c.zstd /\ d.server = c.server /\ d.compress = c.compress
        /\ d.name = c.name /\ d.key = c.key /\ d.id = c.id
        /\ d.serverID = c.serverID
    BY <1>3 DEF Fields
  <1>5. Good(c) => Good(d)
    BY <1>4, Zenon DEF Good, Consistent
  <1> QED BY <1>1, <1>3, <1>5 DEF d

LEMMA ExampleZstd ==
    LET z == [min |-> 256, chunk |-> 32, level |-> 20]
    IN  z \in ZstdValues /\ InRange(z)
  BY DEF ZstdValues, InRange

LEMMA NewConfigGood ==
    ASSUME NEW k \in 0 .. MaxKeys, NEW server \in BOOLEAN,
           NEW h \in Passwords \cup {""}
    PROVE  NewConfig(k, server, h) \in Configs /\ Good(NewConfig(k, server, h))
  <1> DEFINE c == NewConfig(k, server, h)
             z == [min |-> 256, chunk |-> 32, level |-> 20]
  <1>1. Zero \in Configs
    BY ZeroConfig
  <1>2. z \in ZstdValues /\ InRange(z)
    BY ExampleZstd
  <1> HIDE DEF Zero, z
  <1>3. c \in Configs
    <2> DEFINE a == [Zero EXCEPT !.server = server, !.key = k, !.id = k]
               b == [a EXCEPT !.serverID = ~server, !.hash = h,
                              !.compress = IF server THEN "on" ELSE "unset"]
    <2>0. a \in Configs
      BY <1>1 DEF Configs
    <2> HIDE DEF a
    <2>1. b \in Configs
      BY <2>0 DEF Configs
    <2> USE DEF a
    <2>2. c = [b EXCEPT !.name = TRUE, !.target = TRUE,
                        !.password = IF server THEN "123" ELSE "",
                        !.protocol = TRUE, !.zstd = z]
      BY <1>1 DEF NewConfig, Configs, z
    <2> HIDE DEF b, c
    <2> QED BY <1>2, <2>1, <2>2 DEF Configs, ZstdValues
  <1>4. c.zstd = z
    BY <1>1 DEF NewConfig, Configs, z
  <1>5. c.key = k /\ c.id = k /\ c.server = server
    BY <1>1 DEF NewConfig, Configs
  <1>6. /\ c.compress = IF server THEN "on" ELSE "unset"
        /\ c.serverID = ~server
    BY <1>1 DEF NewConfig, Configs
  <1> HIDE DEF c
  <1>7. Good(c)
    BY <1>2, <1>4, <1>5, <1>6 DEF Good, Consistent
  <1> QED BY <1>3, <1>7 DEF c

LEMMA SavedFacts ==
    ASSUME NEW c \in Configs
    PROVE  /\ Saved(c) \in Configs
           /\ Good(c) => Good(Saved(c))
           /\ Good(c) /\ c.server => Saved(c) = c
  <1> DEFINE d == Saved(c)
  <1>1. d \in Configs
    BY DEF Saved, Configs
  <1>2. DOMAIN c = Fields
    BY ConfigFields
  <1>3. \A f \in Fields \ {"compress", "serverID"} : d[f] = c[f]
    BY <1>2 DEF Saved
  <1>4. d.compress = IF c.server THEN c.compress ELSE "unset"
    BY <1>2 DEF Saved, Fields
  <1>8. d.serverID = (~c.server /\ c.serverID)
    BY <1>2 DEF Saved, Fields
  <1> HIDE DEF d
  <1>5. /\ d.zstd = c.zstd /\ d.server = c.server
        /\ d.name = c.name /\ d.key = c.key /\ d.id = c.id
    BY <1>3 DEF Fields
  <1>6. Good(c) => Good(d)
    BY <1>4, <1>5, <1>8, Zenon DEF Good, Consistent
  <1>7. Good(c) /\ c.server => d = c
    <2> SUFFICES ASSUME Good(c), c.server PROVE d = c
      OBVIOUS
    <2>2. d.serverID = c.serverID
      <3>1. c.serverID = FALSE
        BY DEF Good, Consistent, Configs
      <3> QED BY <1>8, <3>1
    <2>1. \A f \in Fields : d[f] = c[f]
      BY <1>3, <1>4, <2>2
    <2> QED BY <1>1, <2>1, ConfigEquality
  <1> QED BY <1>1, <1>6, <1>7 DEF d

-----------------------------------------------------------------------------
(* The inductive invariant *)

\* The invocation holds a configuration: it has loaded or made one.
Holds(p) == pc[p] # "idle" /\ (pc[p] = "ask" => op[p] # "generate")

\* The file: a whole configuration once the program has written it, except
\* while it is truncated.
FileGood ==
    /\ Consistent(cfg)
    /\ settled => upto \in {0, Full} /\ Good(cfg)

\* A copy that nothing was written over still is what the file holds, but for
\* the fields its operation changes.
Fresh(p) ==
    (pc[p] \in {"ask", "save"} /\ op[p] # "generate" /\ ~stale[p])
        => \A f \in DOMAIN cfg \ Changes(op[p]) : mem[p][f] = Loaded[f]

\* A server that found the program's own file is about to write it again.
Settling(p) ==
    (/\ pc[p] \in {"save", "write"} /\ op[p] = "run" /\ ~stale[p]
     /\ settled /\ ~NeedsIdentity(cfg)) => Saved(mem[p]) = cfg

CopyGood(p) ==
    /\ Holds(p) => Good(mem[p])
    /\ Fresh(p) /\ Settling(p)

\* The types, without the ranges.
Types ==
    /\ cfg \in Configs /\ upto \in Absent .. Full
    /\ cut \in BOOLEAN /\ settled \in BOOLEAN
    /\ pc \in [Procs -> {"idle", "ask", "save", "write"}]
    /\ op \in [Procs -> {"run", "generate", "passwd", "regen"}]
    /\ mem \in [Procs -> Configs]
    /\ stale \in [Procs -> BOOLEAN]
    /\ keys \in 0 .. MaxKeys /\ edits \in 0 .. MaxEdits /\ runs \in 0 .. MaxRuns

FileInv ==
    /\ Types
    /\ FileGood
    /\ \A p \in Procs : CopyGood(p)

LEMMA FileInvInit == Init => FileInv
  <1> SUFFICES ASSUME Init PROVE FileInv
    OBVIOUS
  <1>1. Types
    <2>1. /\ 0 \in 0 .. MaxKeys /\ 0 \in 0 .. MaxEdits /\ 0 \in 0 .. MaxRuns
          /\ Absent \in Absent .. Full
      BY ConstantFacts, OrderFacts DEF Absent
    <2>2. cfg \in Configs /\ mem \in [Procs -> Configs]
      BY ZeroConfig DEF Init
    <2>3. stale \in [Procs -> BOOLEAN]
      BY DEF Init
    <2>4. /\ pc \in [Procs -> {"idle", "ask", "save", "write"}]
          /\ op \in [Procs -> {"run", "generate", "passwd", "regen"}]
      BY DEF Init
    <2> QED BY <2>1, <2>2, <2>3, <2>4 DEF Init, Types
  <1>2. FileGood
    BY ZeroConfig DEF Init, FileGood, Consistent
  <1>3. \A p \in Procs : pc[p] = "idle"
    BY DEF Init
  <1>4. \A p \in Procs : CopyGood(p)
    BY <1>3 DEF CopyGood, Holds, Fresh, Settling
  <1> QED BY <1>1, <1>2, <1>4 DEF FileInv

LEMMA SameLoaded ==
    ASSUME UNCHANGED <<cfg, upto>>
    PROVE  Loaded' = Loaded
  BY DEF Loaded, Decoded

\* A step of one invocation that leaves the file alone leaves the others' copies.
LEMMA Alone ==
    ASSUME FileInv, UNCHANGED fileVars, NEW p \in Procs,
           \A q \in Procs \ {p} : /\ pc'[q] = pc[q] /\ op'[q] = op[q]
                                  /\ mem'[q] = mem[q] /\ stale'[q] = stale[q],
           Types', CopyGood(p)'
    PROVE  FileInv'
  <1>1. cfg' = cfg /\ upto' = upto /\ settled' = settled
    BY DEF fileVars
  <1>2. FileGood'
    BY <1>1 DEF FileInv, FileGood
  <1>3. ASSUME NEW q \in Procs, q # p PROVE CopyGood(q)'
    <2>1. Loaded' = Loaded
      BY <1>1, SameLoaded
    <2>2. CopyGood(q)
      BY DEF FileInv
    <2> HIDE DEF Loaded
    <2> QED BY <1>1, <1>3, <2>1, <2>2, Zenon DEF CopyGood, Holds, Fresh, Settling
  <1> QED BY <1>2, <1>3 DEF FileInv

\* A step that writes the file makes every other copy stale.
LEMMA Overwritten ==
    ASSUME FileInv, NEW q \in Procs, stale'[q] = TRUE,
           pc'[q] = pc[q], op'[q] = op[q], mem'[q] = mem[q]
    PROVE  CopyGood(q)'
  BY Zenon DEF FileInv, CopyGood, Holds, Fresh, Settling

\* An invocation that is not running claims nothing.
LEMMA NotRunning ==
    ASSUME NEW q \in Procs, pc'[q] = "idle"
    PROVE  CopyGood(q)'
  BY DEF CopyGood, Holds, Fresh, Settling

LEMMA InvokeStep ==
    ASSUME FileInv, NEW p \in Procs,
           NEW o \in {"run", "generate", "passwd", "regen"}, Invoke(p, o)
    PROVE  FileInv'
  <1> USE DEF Goes
  <1>1. /\ cfg' = cfg /\ upto' = upto /\ settled' = settled /\ cut' = cut
        /\ UNCHANGED fileVars /\ edits' = edits
    BY DEF Invoke, fileVars
  <1>2. runs' \in 0 .. MaxRuns
    <2>1. runs \in 0 .. MaxRuns /\ runs < MaxRuns /\ runs' = runs + 1
      BY DEF FileInv, Types, Invoke
    <2> QED BY <2>1, ConstantFacts
  <1>3. Loaded \in Configs /\ Good(Loaded)
    BY LoadedFacts, LoadedGood DEF FileInv, Types, FileGood
  <1>4. Loaded' = Loaded
    BY <1>1, SameLoaded
  <1>5. DOMAIN cfg = Fields
    BY ConfigFields DEF FileInv, Types
  <1>6. stale' = [stale EXCEPT ![p] = FALSE]
    BY DEF Invoke
  <1>7. stale' \in [Procs -> BOOLEAN]
    BY <1>6, Zenon DEF FileInv, Types
  <1>8. \A q \in Procs \ {p} : stale'[q] = stale[q]
    BY <1>6 DEF FileInv, Types
  <1> HIDE DEF Loaded
  <1> SUFFICES /\ Types' /\ CopyGood(p)'
               /\ \A q \in Procs \ {p} :
                     pc'[q] = pc[q] /\ op'[q] = op[q] /\ mem'[q] = mem[q]
    BY <1>1, <1>8, Alone
  <1>9. CASE StartsGenerating(p, o)
    <2>1. /\ pc' = [pc EXCEPT ![p] = "ask"] /\ op' = [op EXCEPT ![p] = "generate"]
          /\ mem' = mem /\ keys' = keys
      BY <1>9 DEF StartsGenerating
    <2>2. Types'
      BY <1>1, <1>2, <1>7, <2>1 DEF FileInv, Types
    <2>3. pc'[p] = "ask" /\ op'[p] = "generate"
      BY <2>1 DEF FileInv, Types
    <2>4. CopyGood(p)'
      BY <2>3 DEF CopyGood, Holds, Fresh, Settling
    <2> QED BY <2>1, <2>2, <2>4 DEF FileInv, Types
  <1>10. CASE StartsChanging(p, o)
    <2>1. /\ pc' = [pc EXCEPT ![p] = "ask"] /\ op' = [op EXCEPT ![p] = o]
          /\ mem' = [mem EXCEPT ![p] = Loaded] /\ keys' = keys
          /\ o \in {"passwd", "regen"}
      BY <1>10 DEF StartsChanging
    <2>2. Types'
      BY <1>1, <1>2, <1>3, <1>7, <2>1 DEF FileInv, Types
    <2>3. pc'[p] = "ask" /\ op'[p] = o /\ mem'[p] = Loaded
      BY <2>1 DEF FileInv, Types
    <2>4. CopyGood(p)'
      BY <1>3, <1>4, <2>3 DEF CopyGood, Holds, Fresh, Settling
    <2> QED BY <2>1, <2>2, <2>4 DEF FileInv, Types
  <1>11. CASE StartsRunning(p, o)
    <2>1. /\ pc' = [pc EXCEPT ![p] = "save"] /\ op' = [op EXCEPT ![p] = "run"]
          /\ Valid(Loaded) /\ Loaded.server
      BY <1>11 DEF StartsRunning
    <2>2. PICK c : /\ c \in Configs /\ Good(c)
                   /\ \A f \in Fields \ {"key", "id"} : c[f] = Loaded[f]
                   /\ ~NeedsIdentity(Loaded) => c = Loaded
                   /\ mem' = [mem EXCEPT ![p] = c]
                   /\ keys' \in 0 .. MaxKeys
      <3>1. CASE NeedsIdentity(Loaded)
        <4>1. /\ keys \in 0 .. MaxKeys /\ keys < MaxKeys /\ keys' = keys + 1
              /\ mem' = [mem EXCEPT ![p] = WithIdentity(Loaded, keys + 1)]
          BY <1>11, <3>1 DEF StartsRunning, FileInv, Types
        <4>2. keys + 1 \in 0 .. MaxKeys
          BY <4>1, ConstantFacts
        <4> QED BY <1>3, <3>1, <4>1, <4>2, IdentityConfig
      <3>2. CASE ~NeedsIdentity(Loaded)
        <4>1. mem' = [mem EXCEPT ![p] = Loaded] /\ keys' = keys
          BY <1>11, <3>2 DEF StartsRunning
        <4> QED BY <1>3, <4>1 DEF FileInv, Types
      <3> QED BY <3>1, <3>2
    <2>3. Types'
      BY <1>1, <1>2, <1>7, <2>1, <2>2 DEF FileInv, Types
    <2>4. pc'[p] = "save" /\ op'[p] = "run" /\ mem'[p] = c
      BY <2>1, <2>2 DEF FileInv, Types
    <2>5. Fresh(p)'
      BY <1>1, <1>4, <1>5, <2>2, <2>4 DEF Fresh, Changes
    <2>6. Settling(p)'
      <3> SUFFICES ASSUME settled, ~NeedsIdentity(cfg) PROVE Saved(c) = cfg
        BY <1>1, <2>4 DEF Settling, NeedsIdentity
      <3>1. upto \in 10 .. 12 /\ Loaded.server = cfg.server
        BY <2>1, ValidFile DEF FileInv, Types
      <3>2. upto = Full /\ Good(cfg)
        BY <3>1, OrderFacts DEF FileInv, FileGood
      <3>3. Loaded = cfg
        BY <2>1, <3>1, <3>2, WholeFile DEF FileInv, Types, Good
      <3>4. c = cfg /\ cfg.server
        BY <2>1, <2>2, <3>1, <3>3
      <3> QED BY <2>2, <3>2, <3>4, SavedFacts
    <2>7. CopyGood(p)'
      BY <2>2, <2>4, <2>5, <2>6 DEF CopyGood
    <2> QED BY <2>1, <2>2, <2>3, <2>7 DEF FileInv, Types
  <1> QED BY <1>9, <1>10, <1>11 DEF Invoke

LEMMA AnswerStep ==
    ASSUME FileInv, NEW p \in Procs, Answer(p)
    PROVE  FileInv'
  <1>1. /\ cfg' = cfg /\ upto' = upto /\ settled' = settled /\ cut' = cut
        /\ UNCHANGED fileVars /\ edits' = edits /\ runs' = runs
        /\ op' = op /\ stale' = stale /\ pc[p] = "ask"
        /\ pc' = [pc EXCEPT ![p] = "save"]
    BY DEF Answer, fileVars, Goes
  <1>2. Loaded' = Loaded
    BY <1>1, SameLoaded
  <1>3. DOMAIN cfg = Fields
    BY ConfigFields DEF FileInv, Types
  <1>4. mem[p] \in Configs /\ op[p] \in {"run", "generate", "passwd", "regen"}
    BY DEF FileInv, Types
  <1>5. op[p] # "generate" => Good(mem[p])
    BY <1>1 DEF FileInv, CopyGood, Holds
  <1>6. op[p] # "run"
    BY DEF Answer, GenerateAnswered, PasswordAnswered, RegenerateAnswered
  <1>7. keys < MaxKeys => keys + 1 \in 0 .. MaxKeys
    BY ConstantFacts DEF FileInv, Types
  <1>8. \A w \in Answers : HashPassword(w) \in Passwords \cup {""}
    BY DEF Answers, HashPassword
  <1>9. PICK c : /\ c \in Configs /\ Good(c)
                 /\ op[p] # "generate" =>
                       \A f \in Fields \ Changes(op[p]) : c[f] = mem[p][f]
                 /\ mem' = [mem EXCEPT ![p] = c]
                 /\ keys' \in 0 .. MaxKeys
    <2>1. CASE GenerateAnswered(p)
      <3>1. keys' \in 0 .. MaxKeys /\ keys + 1 \in 0 .. MaxKeys
        BY <1>7, <2>1 DEF GenerateAnswered
      <3>2. "" \in Passwords \cup {""}
        OBVIOUS
      <3>3. \/ \E w \in Answers :
                  mem' = [mem EXCEPT ![p] = NewConfig(keys + 1, TRUE, HashPassword(w))]
            \/ mem' = [mem EXCEPT ![p] = NewConfig(keys + 1, FALSE, "")]
        BY <2>1 DEF GenerateAnswered
      <3>4. op[p] = "generate"
        BY <2>1 DEF GenerateAnswered
      <3> QED BY <1>8, <3>1, <3>2, <3>3, <3>4, NewConfigGood
    <2>2. CASE PasswordAnswered(p)
      <3>1. PICK w \in Answers : mem' = [mem EXCEPT ![p].hash = HashPassword(w)]
        BY <2>2 DEF PasswordAnswered
      <3> DEFINE c == [mem[p] EXCEPT !.hash = HashPassword(w)]
      <3>2. mem' = [mem EXCEPT ![p] = c]
        BY <3>1
      <3>3. op[p] = "passwd" /\ keys' = keys
        BY <2>2 DEF PasswordAnswered
      <3>4. /\ c \in Configs /\ Good(c)
            /\ \A f \in Fields \ {"hash"} : c[f] = mem[p][f]
        BY <1>4, <1>5, <1>8, <3>3, HashedConfig
      <3> HIDE DEF c
      <3> QED BY <3>2, <3>3, <3>4 DEF Changes, FileInv, Types
    <2>3. CASE RegenerateAnswered(p)
      <3>1. /\ keys' \in 0 .. MaxKeys /\ keys + 1 \in 0 .. MaxKeys
            /\ op[p] = "regen"
            /\ mem' = [mem EXCEPT ![p] = WithIdentity(mem[p], keys + 1)]
        BY <1>7, <2>3 DEF RegenerateAnswered
      <3>2. Changes(op[p]) = {"key", "id"}
        BY <3>1 DEF Changes
      <3>3. Good(mem[p])
        BY <1>5, <3>1
      <3>4. LET c == WithIdentity(mem[p], keys + 1)
            IN  /\ c \in Configs /\ Good(c)
                /\ \A f \in Fields \ {"key", "id"} : c[f] = mem[p][f]
        BY <1>4, <3>1, <3>3, IdentityConfig
      <3> QED BY <3>1, <3>2, <3>4
    <2> QED BY <2>1, <2>2, <2>3 DEF Answer
  <1>10. Types'
    BY <1>1, <1>9 DEF FileInv, Types
  <1>11. pc'[p] = "save" /\ mem'[p] = c
    BY <1>1, <1>9 DEF FileInv, Types
  <1> HIDE DEF Loaded
  <1>12. Fresh(p)'
    <2>1. Fresh(p)
      BY DEF FileInv, CopyGood
    <2> QED BY <1>1, <1>2, <1>3, <1>9, <1>11, <2>1 DEF Fresh
  <1>13. CopyGood(p)'
    BY <1>1, <1>6, <1>9, <1>11, <1>12 DEF CopyGood, Settling
  <1>14. \A q \in Procs \ {p} : /\ pc'[q] = pc[q] /\ op'[q] = op[q]
                                /\ mem'[q] = mem[q] /\ stale'[q] = stale[q]
    BY <1>1, <1>9 DEF FileInv, Types
  <1> QED BY <1>1, <1>10, <1>13, <1>14, Alone

LEMMA EndsFacts ==
    ASSUME Types, NEW p \in Procs, Ends(p)
    PROVE  /\ pc' \in [Procs -> {"idle", "ask", "save", "write"}]
           /\ op' \in [Procs -> {"run", "generate", "passwd", "regen"}]
           /\ mem' \in [Procs -> Configs]
           /\ pc'[p] = "idle"
           /\ \A q \in Procs \ {p} :
                 pc'[q] = pc[q] /\ op'[q] = op[q] /\ mem'[q] = mem[q]
  BY ZeroConfig DEF Types, Ends, Goes

\* Cancel and SaveFails.
LEMMA GivesUpStep ==
    ASSUME FileInv, NEW p \in Procs, Cancel(p) \/ SaveFails(p)
    PROVE  FileInv'
  <1>1. /\ cfg' = cfg /\ upto' = upto /\ settled' = settled /\ cut' = cut
        /\ UNCHANGED fileVars /\ edits' = edits /\ runs' = runs /\ keys' = keys
        /\ stale' = stale /\ Ends(p)
    BY DEF Cancel, SaveFails, fileVars
  <1>2. Types
    BY DEF FileInv
  <1>3. Types'
    BY <1>1, <1>2, EndsFacts DEF Types
  <1>4. pc'[p] = "idle" /\ \A q \in Procs \ {p} :
            pc'[q] = pc[q] /\ op'[q] = op[q] /\ mem'[q] = mem[q]
    BY <1>1, <1>2, EndsFacts
  <1>5. CopyGood(p)'
    BY <1>4, NotRunning
  <1> QED BY <1>1, <1>3, <1>4, <1>5, Alone

LEMMA OthersStaleFacts ==
    ASSUME Types, NEW p \in Procs, OthersStale(p)
    PROVE  /\ stale' \in [Procs -> BOOLEAN]
           /\ stale'[p] = stale[p]
           /\ \A q \in Procs \ {p} : pc[q] # "idle" => stale'[q] = TRUE
  <1>1. stale' = [q \in Procs |-> stale[q] \/ (q # p /\ pc[q] # "idle")]
    BY DEF OthersStale
  <1>2. \A q \in Procs : stale[q] \in BOOLEAN
    BY DEF Types
  <1>3. stale' \in [Procs -> BOOLEAN]
    BY <1>1, <1>2, Zenon
  <1>4. stale'[p] = stale[p]
    BY <1>1, <1>2
  <1>5. \A q \in Procs \ {p} : pc[q] # "idle" => stale'[q] = TRUE
    BY <1>1, <1>2
  <1> QED BY <1>3, <1>4, <1>5

LEMMA TruncatesStep ==
    ASSUME FileInv, NEW p \in Procs, SaveTruncates(p)
    PROVE  FileInv'
  <1>1. /\ cfg' = cfg /\ upto' = 0 /\ settled' = settled /\ cut' = FALSE
        /\ op' = op /\ mem' = mem /\ keys' = keys /\ edits' = edits /\ runs' = runs
        /\ pc[p] = "save" /\ pc' = [pc EXCEPT ![p] = "write"] /\ OthersStale(p)
    BY DEF SaveTruncates, Goes
  <1>2. Types
    BY DEF FileInv
  <1>3. 0 \in Absent .. Full
    BY OrderFacts DEF Absent
  <1>4. /\ stale' \in [Procs -> BOOLEAN] /\ stale'[p] = stale[p]
        /\ \A q \in Procs \ {p} : pc[q] # "idle" => stale'[q] = TRUE
    BY <1>1, <1>2, OthersStaleFacts
  <1>5. Types'
    BY <1>1, <1>2, <1>3, <1>4 DEF Types
  <1>6. FileGood'
    BY <1>1 DEF FileInv, FileGood
  <1>7. pc'[p] = "write" /\ \A q \in Procs \ {p} : pc'[q] = pc[q]
    BY <1>1, <1>2 DEF Types
  <1>8. CopyGood(p)'
    <2>1. CopyGood(p)
      BY DEF FileInv
    <2>2. Good(mem[p])
      BY <1>1, <2>1 DEF CopyGood, Holds
    <2>3. Fresh(p)'
      BY <1>7 DEF Fresh
    <2>4. Settling(p)'
      BY <1>1, <1>4, <1>7, <2>1, Zenon DEF CopyGood, Settling
    <2> QED BY <1>1, <2>2, <2>3, <2>4 DEF CopyGood
  <1>9. ASSUME NEW q \in Procs, q # p PROVE CopyGood(q)'
    <2>1. CASE pc[q] = "idle"
      BY <1>7, <1>9, <2>1, NotRunning
    <2>2. CASE pc[q] # "idle"
      BY <1>1, <1>4, <1>7, <1>9, <2>2, Overwritten
    <2> QED BY <2>1, <2>2
  <1> QED BY <1>5, <1>6, <1>8, <1>9 DEF FileInv

LEMMA TornZstdType ==
    ASSUME NEW z \in ZstdValues
    PROVE  TornZstd(z) \subseteq ZstdValues
  BY DEF TornZstd, ZstdValues

\* SaveWrites and WriteFails: what is in the file is what the invocation had,
\* or the zstd values are cut.
LEMMA WritesStep ==
    ASSUME FileInv, NEW p \in Procs, SaveWrites(p) \/ WriteFails(p)
    PROVE  FileInv'
  <1>1. /\ keys' = keys /\ edits' = edits /\ runs' = runs
        /\ pc[p] = "write" /\ Ends(p) /\ OthersStale(p)
    BY DEF SaveWrites, WriteFails, Tears
  <1>2. Types
    BY DEF FileInv
  <1>3. /\ upto' \in Absent .. Full /\ cut' \in BOOLEAN
        /\ settled' \in BOOLEAN /\ (settled' => upto' = Full)
    <2>1. CASE SaveWrites(p)
      <3>1. upto' = Full /\ cut' \in BOOLEAN /\ settled' = ~cut'
        BY <2>1 DEF SaveWrites
      <3>2. Full \in Absent .. Full
        BY OrderFacts DEF Absent
      <3> QED BY <3>1, <3>2
    <2>2. CASE WriteFails(p)
      <3>1. /\ upto' = 0 \/ upto' \in 0 .. Full - 1 \/ upto' = Full
            /\ cut' \in BOOLEAN /\ settled' = FALSE
        BY <2>2 DEF WriteFails, Tears
      <3>2. upto' \in Absent .. Full
        <4>1. /\ 0 \in Absent .. Full /\ Full \in Absent .. Full
              /\ 0 .. Full - 1 \subseteq Absent .. Full
          BY OrderFacts DEF Absent
        <4> QED BY <3>1, <4>1
      <3> QED BY <3>1, <3>2
    <2> QED BY <2>1, <2>2
  <1>4. mem[p] \in Configs /\ Good(mem[p])
    BY <1>1, <1>2 DEF FileInv, Types, CopyGood, Holds
  <1>5. cfg' \in Configs /\ Consistent(cfg') /\ (settled' => Good(cfg'))
    <2> DEFINE c == Saved(mem[p])
    <2>1. c \in Configs /\ Good(c)
      BY <1>4, SavedFacts
    <2> HIDE DEF c
    <2>2. CASE cfg' = c
      BY <2>1, <2>2 DEF Good
    <2>3. ASSUME NEW z \in TornZstd(mem[p].zstd), cfg' = [c EXCEPT !.zstd = z],
                 settled' = FALSE
          PROVE  cfg' \in Configs /\ Consistent(cfg') /\ (settled' => Good(cfg'))
      <3>1. z \in ZstdValues
        BY <1>4, TornZstdType DEF Configs, ZstdValues
      <3>2. [c EXCEPT !.zstd = z] \in Configs
        BY <2>1, <3>1 DEF Configs, ZstdValues
      <3>3. Consistent([c EXCEPT !.zstd = z])
        BY <2>1 DEF Good, Consistent, Configs
      <3> QED BY <2>3, <3>2, <3>3
    <2>4. \/ cfg' = c
          \/ settled' = FALSE /\ \E z \in TornZstd(mem[p].zstd) : cfg' = [c EXCEPT !.zstd = z]
      BY DEF SaveWrites, WriteFails, Tears, c
    <2> QED BY <2>2, <2>3, <2>4
  <1>6. /\ stale' \in [Procs -> BOOLEAN]
        /\ \A q \in Procs \ {p} : pc[q] # "idle" => stale'[q] = TRUE
    BY <1>1, <1>2, OthersStaleFacts
  <1>7. Types'
    <2>1. /\ pc' \in [Procs -> {"idle", "ask", "save", "write"}]
          /\ op' \in [Procs -> {"run", "generate", "passwd", "regen"}]
          /\ mem' \in [Procs -> Configs]
      BY <1>1, <1>2, EndsFacts
    <2>2. keys' \in 0 .. MaxKeys /\ edits' \in 0 .. MaxEdits /\ runs' \in 0 .. MaxRuns
      BY <1>1, <1>2 DEF Types
    <2> QED BY <1>3, <1>5, <1>6, <2>1, <2>2, Zenon DEF Types
  <1>8. FileGood'
    BY <1>3, <1>5 DEF FileGood
  <1>9. /\ pc'[p] = "idle"
        /\ \A q \in Procs \ {p} :
              pc'[q] = pc[q] /\ op'[q] = op[q] /\ mem'[q] = mem[q]
    BY <1>1, <1>2, EndsFacts
  <1>10. ASSUME NEW q \in Procs PROVE CopyGood(q)'
    <2>1. CASE pc'[q] = "idle"
      BY <2>1, NotRunning
    <2>2. CASE pc'[q] # "idle"
      <3>1. q \in Procs \ {p} /\ pc[q] # "idle"
        BY <1>9, <2>2
      <3> QED BY <1>6, <1>9, <3>1, Overwritten
    <2> QED BY <2>1, <2>2
  <1> QED BY <1>7, <1>8, <1>10 DEF FileInv

LEMMA WrittenStep ==
    ASSUME FileInv, NEW c \in Configs, Consistent(c), Written(c)
    PROVE  FileInv'
  <1>1. /\ cfg' = c /\ upto' = Full /\ cut' = FALSE /\ settled' = FALSE
        /\ pc' = pc /\ op' = op /\ mem' = mem /\ keys' = keys /\ runs' = runs
        /\ stale' = [p \in Procs |-> stale[p] \/ pc[p] # "idle"]
    BY DEF Written
  <1>2. Types
    BY DEF FileInv
  <1>3. \A p \in Procs : stale[p] \in BOOLEAN
    BY <1>2 DEF Types
  <1>4. stale' \in [Procs -> BOOLEAN]
    BY <1>1, <1>3, Zenon
  <1>5. \A q \in Procs : pc[q] # "idle" => stale'[q] = TRUE
    BY <1>1, <1>3
  <1>6. edits' \in 0 .. MaxEdits
    <2>1. edits \in 0 .. MaxEdits /\ edits < MaxEdits /\ edits' = edits + 1
      BY <1>2 DEF Types, Written
    <2> QED BY <2>1, ConstantFacts
  <1>7. Full \in Absent .. Full
    BY OrderFacts DEF Absent
  <1>8. Types'
    BY <1>1, <1>2, <1>4, <1>6, <1>7 DEF Types
  <1>9. FileGood'
    BY <1>1 DEF FileGood
  <1>10. ASSUME NEW q \in Procs PROVE CopyGood(q)'
    <2>1. CASE pc[q] = "idle"
      BY <1>1, <2>1, NotRunning
    <2>2. CASE pc[q] # "idle"
      BY <1>1, <1>5, <2>2, Overwritten
    <2> QED BY <2>1, <2>2
  <1> QED BY <1>8, <1>9, <1>10 DEF FileInv

LEMMA EditStep ==
    ASSUME FileInv, Edit
    PROVE  FileInv'
  <1>1. cfg \in Configs /\ Consistent(cfg) /\ DOMAIN cfg = Fields
    BY ConfigFields DEF FileInv, Types, FileGood
  <1>2. CASE Written([cfg EXCEPT !.enabled = TRUE, !.compress = "off"])
    <2> DEFINE c == [cfg EXCEPT !.enabled = TRUE, !.compress = "off"]
    <2>1. c \in Configs
      BY <1>1 DEF Configs
    <2>2. Consistent(c)
      BY <1>1 DEF Consistent, Fields
    <2> HIDE DEF c
    <2>3. Written(c)
      BY <1>2 DEF c
    <2> QED BY <1>1, <2>1, <2>2, <2>3, WrittenStep
  <1>3. ASSUME NEW z \in Zstds, Written([cfg EXCEPT !.zstd = z])
        PROVE  FileInv'
    <2> DEFINE c == [cfg EXCEPT !.zstd = z]
    <2>0. z \in ZstdValues
      BY ConstantFacts
    <2>1. c \in Configs
      BY <1>1, <2>0 DEF Configs, ZstdValues
    <2>2. Consistent(c)
      BY <1>1 DEF Consistent, Fields
    <2> HIDE DEF c
    <2>3. Written(c)
      BY <1>3 DEF c
    <2> QED BY <1>1, <2>1, <2>2, <2>3, WrittenStep
  <1>4. CASE Written([cfg EXCEPT !.protocol = FALSE])
    <2> DEFINE c == [cfg EXCEPT !.protocol = FALSE]
    <2>1. c \in Configs
      BY <1>1 DEF Configs
    <2>2. Consistent(c)
      BY <1>1 DEF Consistent, Fields
    <2> HIDE DEF c
    <2>3. Written(c)
      BY <1>4 DEF c
    <2> QED BY <1>1, <2>1, <2>2, <2>3, WrittenStep
  <1> QED BY <1>2, <1>3, <1>4 DEF Edit

LEMMA ByHandStep ==
    ASSUME FileInv, ByHand
    PROVE  FileInv'
  <1>1. PICK w \in Passwords, z \in Zstds :
            Written([Zero EXCEPT !.server = TRUE, !.name = TRUE, !.target = TRUE,
                                 !.password = w, !.protocol = TRUE,
                                 !.enabled = TRUE, !.zstd = z])
    BY DEF ByHand
  <1> DEFINE c == [Zero EXCEPT !.server = TRUE, !.name = TRUE, !.target = TRUE,
                               !.password = w, !.protocol = TRUE,
                               !.enabled = TRUE, !.zstd = z]
  <1>2. Zero \in Configs /\ Zero.key = Zero.id /\ ~Zero.serverID /\ DOMAIN Zero = Fields
    BY ZeroConfig, ConfigFields
  <1>3. z \in ZstdValues
    BY ConstantFacts
  <1> HIDE DEF Zero
  <1>4. c \in Configs
    BY <1>2, <1>3 DEF Configs, ZstdValues
  <1>5. Consistent(c)
    BY <1>2 DEF Consistent, Fields
  <1> HIDE DEF c
  <1>6. Written(c)
    BY <1>1 DEF c
  <1> QED BY <1>2, <1>4, <1>5, <1>6, WrittenStep

-----------------------------------------------------------------------------
(* The results *)

\* The invariant the results rest on: the file and every copy stay well formed,
\* and a copy that nothing was written over still is what was loaded.
THEOREM FileInvariant == Spec => []FileInv
  <1>1. FileInv /\ [Next]_vars => FileInv'
    <2> SUFFICES ASSUME FileInv, [Next]_vars PROVE FileInv'
      OBVIOUS
    <2>1. CASE UNCHANGED vars
      <3>1. /\ cfg' = cfg /\ upto' = upto /\ settled' = settled /\ cut' = cut
            /\ pc' = pc /\ op' = op /\ mem' = mem /\ stale' = stale
            /\ keys' = keys /\ edits' = edits /\ runs' = runs
        BY <2>1 DEF vars, fileVars
      <3>2. Loaded' = Loaded
        BY <3>1, SameLoaded
      <3>3. Types' /\ FileGood'
        BY <3>1 DEF FileInv, Types, FileGood
      <3> HIDE DEF Loaded
      <3>4. ASSUME NEW p \in Procs PROVE CopyGood(p)'
        <4>1. CopyGood(p)
          BY DEF FileInv
        <4> QED BY <3>1, <3>2, <4>1, Zenon DEF CopyGood, Holds, Fresh, Settling
      <3> QED BY <3>3, <3>4 DEF FileInv
    <2>2. CASE Next
      <3>1. ASSUME NEW p \in Procs, NEW o \in {"run", "generate", "passwd", "regen"},
                   Invoke(p, o)
            PROVE  FileInv'
        BY <3>1, InvokeStep
      <3>2. ASSUME NEW p \in Procs, Answer(p) PROVE FileInv'
        BY <3>2, AnswerStep
      <3>3. ASSUME NEW p \in Procs, Cancel(p) \/ SaveFails(p) PROVE FileInv'
        BY <3>3, GivesUpStep
      <3>4. ASSUME NEW p \in Procs, SaveTruncates(p) PROVE FileInv'
        BY <3>4, TruncatesStep
      <3>5. ASSUME NEW p \in Procs, SaveWrites(p) \/ WriteFails(p) PROVE FileInv'
        BY <3>5, WritesStep
      <3>6. CASE Edit
        BY <3>6, EditStep
      <3>7. CASE ByHand
        BY <3>7, ByHandStep
      <3> QED BY <2>2, <3>1, <3>2, <3>3, <3>4, <3>5, <3>6, <3>7 DEF Next
    <2> QED BY <2>1, <2>2
  <1> QED BY <1>1, FileInvInit, PTL DEF Spec

\* The zstd values a server saves and starts with are in the ranges that the
\* header of the file gives, whatever a user wrote, and ConfigureZstdParams
\* does not change them.
THEOREM ConfigTypeCorrect == Spec => []TypeOK
  <1>1. FileInv => TypeOK
    <2> SUFFICES ASSUME FileInv PROVE TypeOK
      OBVIOUS
    <2>1. ASSUME NEW p \in Procs, pc[p] \in {"save", "write"}
          PROVE  InRange(mem[p].zstd) /\ Configured(mem[p].zstd) = mem[p].zstd
      <3>1. InRange(mem[p].zstd)
        BY <2>1 DEF FileInv, CopyGood, Holds, Good
      <3>2. mem[p].zstd \in ZstdValues
        BY DEF FileInv, Types, Configs, ZstdValues
      <3> QED BY <3>1, <3>2, ZstdFixed
    <2> QED BY <2>1 DEF FileInv, Types, TypeOK
  <1> QED BY <1>1, FileInvariant, PTL

LEMMA RunStarts ==
    ASSUME Types, Next, NEW p \in Procs, pc[p] = "idle", pc'[p] = "save"
    PROVE  \E o \in {"run", "generate", "passwd", "regen"} : StartsRunning(p, o)
  <1>1. ASSUME NEW q \in Procs, NEW o \in {"run", "generate", "passwd", "regen"},
               Invoke(q, o)
        PROVE  StartsRunning(p, o)
    <2>1. PICK s \in {"ask", "save"} :
             /\ pc' = [pc EXCEPT ![q] = s]
             /\ s = "save" => StartsRunning(q, o)
      BY <1>1 DEF Invoke, StartsGenerating, StartsRunning, StartsChanging, Goes
    <2> QED BY <2>1 DEF Types
  <1>2. ASSUME NEW q \in Procs,
               \/ Answer(q) \/ Cancel(q) \/ SaveTruncates(q) \/ SaveFails(q)
               \/ SaveWrites(q) \/ WriteFails(q)
        PROVE  FALSE
    <2>1. pc[q] # "idle" /\ \E s \in {"save", "idle", "write"} : pc' = [pc EXCEPT ![q] = s]
      BY <1>2 DEF Answer, Cancel, SaveTruncates, SaveFails, SaveWrites,
                  WriteFails, Ends, Goes
    <2> QED BY <2>1 DEF Types
  <1>3. ASSUME Edit \/ ByHand PROVE FALSE
    BY <1>3 DEF Edit, ByHand, Written
  <1> QED BY <1>1, <1>2, <1>3 DEF Next

\* A file cut short by a crash or a full disk never loosens a server: it has
\* the identity and the server password that were to be written, and a service
\* it offers its own password.
THEOREM TornFileNeverLoosens == Spec => NeverLoosened
  <1> DEFINE Kept(p) ==
        (pc[p] = "idle" /\ pc'[p] = "save") =>
            /\ cfg.key # 0 => mem'[p].key = cfg.key
            /\ mem'[p].hash = cfg.hash
            /\ mem'[p].enabled => (cfg.enabled /\ mem'[p].password = cfg.password)
  <1>1. FileInv /\ [Next]_vars => [\A p \in Procs : Kept(p)]_vars
    <2> SUFFICES ASSUME FileInv, Next, NEW p \in Procs,
                        pc[p] = "idle", pc'[p] = "save"
                 PROVE  /\ cfg.key # 0 => mem'[p].key = cfg.key
                        /\ mem'[p].hash = cfg.hash
                        /\ mem'[p].enabled =>
                              (cfg.enabled /\ mem'[p].password = cfg.password)
      OBVIOUS
    <2>1. PICK o \in {"run", "generate", "passwd", "regen"} : StartsRunning(p, o)
      BY RunStarts DEF FileInv
    <2>2. Valid(Loaded)
      BY <2>1 DEF StartsRunning
    <2>3. /\ Loaded.server = cfg.server /\ Loaded.key = cfg.key
          /\ Loaded.id = cfg.id /\ Loaded.hash = cfg.hash
          /\ Loaded.password = cfg.password /\ Loaded.name = cfg.name
          /\ Loaded.enabled => cfg.enabled
      BY <2>2, ValidFile DEF FileInv, Types
    <2>4. Loaded \in Configs
      BY LoadedFacts DEF FileInv, Types
    <2>5. cfg.key = cfg.id
      BY <2>2, <2>3 DEF FileInv, FileGood, Consistent, Valid
    <2> HIDE DEF Loaded
    <2>6. CASE NeedsIdentity(Loaded)
      <3>1. cfg.key = 0
        BY <2>3, <2>5, <2>6 DEF NeedsIdentity
      <3>2. /\ keys \in 0 .. MaxKeys /\ keys < MaxKeys
            /\ mem' = [mem EXCEPT ![p] = WithIdentity(Loaded, keys + 1)]
        BY <2>1, <2>6 DEF StartsRunning, FileInv, Types
      <3>3. keys + 1 \in 0 .. MaxKeys
        BY <3>2, ConstantFacts
      <3>4. mem'[p] = WithIdentity(Loaded, keys + 1)
        BY <3>2 DEF FileInv, Types
      <3>5. \A f \in Fields \ {"key", "id"} : mem'[p][f] = Loaded[f]
        BY <2>4, <3>3, <3>4, IdentityConfig
      <3>6. /\ mem'[p].hash = Loaded.hash /\ mem'[p].enabled = Loaded.enabled
            /\ mem'[p].password = Loaded.password
        BY <3>5 DEF Fields
      <3> QED BY <2>3, <3>1, <3>6, Zenon
    <2>7. CASE ~NeedsIdentity(Loaded)
      <3>1. mem'[p] = Loaded
        BY <2>1, <2>7 DEF StartsRunning, FileInv, Types
      <3> QED BY <2>3, <3>1, Zenon
    <2> QED BY <2>6, <2>7
  <1> QED BY <1>1, FileInvariant, PTL DEF Spec, NeverLoosened

LEMMA WriteEnds ==
    ASSUME Types, Next, NEW p \in Procs, pc[p] = "write", pc'[p] = "idle"
    PROVE  SaveWrites(p) \/ WriteFails(p)
  <1>1. ASSUME NEW q \in Procs, NEW o \in {"run", "generate", "passwd", "regen"},
               Invoke(q, o)
        PROVE  FALSE
    <2>1. pc[q] = "idle" /\ \E s \in {"ask", "save"} : pc' = [pc EXCEPT ![q] = s]
      BY <1>1 DEF Invoke, StartsGenerating, StartsRunning, StartsChanging, Goes
    <2> QED BY <2>1 DEF Types
  <1>2. ASSUME NEW q \in Procs,
               Answer(q) \/ Cancel(q) \/ SaveTruncates(q) \/ SaveFails(q)
        PROVE  FALSE
    <2>1. pc[q] # "write" /\ \E s \in {"save", "idle", "write"} : pc' = [pc EXCEPT ![q] = s]
      BY <1>2 DEF Answer, Cancel, SaveTruncates, SaveFails, Ends, Goes
    <2> QED BY <2>1 DEF Types
  <1>3. ASSUME NEW q \in Procs, SaveWrites(q) \/ WriteFails(q)
        PROVE  q = p
    <2>1. pc' = [pc EXCEPT ![q] = "idle"]
      BY <1>3 DEF SaveWrites, WriteFails, Ends, Goes
    <2> QED BY <2>1 DEF Types
  <1>4. ASSUME Edit \/ ByHand PROVE FALSE
    BY <1>4 DEF Edit, ByHand, Written
  <1> QED BY <1>1, <1>2, <1>3, <1>4 DEF Next

\* Restarts change nothing: a server that starts from a file the program has
\* written, with an identity, saves the same file.
THEOREM RestartsSettle == Spec => FileSettles
  <1>1. FileInv /\ [Next]_vars =>
          [\A p \in Procs :
             (/\ pc[p] = "write" /\ pc'[p] = "idle" /\ op[p] = "run" /\ ~stale[p]
              /\ settled /\ settled' /\ ~NeedsIdentity(cfg)) => cfg' = cfg]_vars
    <2> SUFFICES ASSUME FileInv, Next, NEW p \in Procs,
                        pc[p] = "write", pc'[p] = "idle", op[p] = "run",
                        ~stale[p], settled, settled', ~NeedsIdentity(cfg)
                 PROVE  cfg' = cfg
      OBVIOUS
    <2>1. SaveWrites(p)
      BY WriteEnds DEF FileInv, WriteFails, Tears
    <2>2. cfg' = Saved(mem[p])
      BY <2>1 DEF SaveWrites
    <2>3. Settling(p)
      BY DEF FileInv, CopyGood
    <2> QED BY <2>2, <2>3 DEF Settling
  <1> QED BY <1>1, FileInvariant, PTL DEF Spec, FileSettles

\* "Will change server's peerID but keep other configs": what a start,
\* --change-pwd or --regenerate-id saves differs from the file in its own
\* fields only, unless the file was written after it was loaded.
THEOREM OtherFieldsKept == Spec => OthersKept
  <1>1. FileInv /\ [Next]_vars =>
          [\A p \in Procs :
             (pc[p] = "save" /\ pc'[p] = "write" /\ op[p] # "generate" /\ ~stale[p])
                => \A f \in DOMAIN cfg \ Changes(op[p]) : mem[p][f] = Loaded[f]]_vars
    <2> HIDE DEF Loaded
    <2> QED BY Zenon DEF FileInv, CopyGood, Fresh
  <1> QED BY <1>1, FileInvariant, PTL DEF Spec, OthersKept
=============================================================================
