----------------------------- MODULE SealingProofs -----------------------------
(***************************************************************************)
(* What Blob, Format and Sealing promise, for blobs, strings, lists and    *)
(* files of any length: encrypt_blob and decrypt_blob, the parsers as the  *)
(* inverses of the writers, the authenticated data, and what loading and   *)
(* opening a file give.                                                    *)
(***************************************************************************)
EXTENDS Sealing, Arithmetic, SequenceTheorems, TLAPS

-----------------------------------------------------------------------------
\* A sequence is split in one way once the length of its first part is known.
LEMMA SplitOnce ==
  ASSUME NEW S, NEW s1 \in Seq(S), NEW s2 \in Seq(S), NEW t1 \in Seq(S), NEW t2 \in Seq(S),
         Len(s1) = Len(s2), s1 \o t1 = s2 \o t2
  PROVE  s1 = s2 /\ t1 = t2
<1> DEFINE u == s1 \o t1
<1>1. /\ Len(s1) \in Nat /\ Len(t1) \in Nat /\ Len(t2) \in Nat
  BY LenProperties
<1>2. /\ Len(u) = Len(s1) + Len(t1)
      /\ \A i \in 1 .. Len(s1) + Len(t1) : u[i] = IF i <= Len(s1) THEN s1[i] ELSE t1[i - Len(s1)]
  BY ConcatProperties
<1>3. /\ Len(u) = Len(s1) + Len(t2)
      /\ \A i \in 1 .. Len(s1) + Len(t2) : u[i] = IF i <= Len(s1) THEN s2[i] ELSE t2[i - Len(s1)]
  BY ConcatProperties
<1> HIDE DEF u
<1>4. Len(t1) = Len(t2)
  BY <1>1, <1>2, <1>3
<1>5. \A i \in 1 .. Len(s1) : s1[i] = s2[i]
  <2> TAKE i \in 1 .. Len(s1)
  <2>1. u[i] = s1[i] /\ u[i] = s2[i]
    BY <1>1, <1>2, <1>3
  <2> QED
    BY <2>1
<1>6. \A i \in 1 .. Len(t1) : t1[i] = t2[i]
  <2> TAKE i \in 1 .. Len(t1)
  <2> DEFINE k == Len(s1) + i
  <2>1. k \in 1 .. Len(s1) + Len(t1) /\ k > Len(s1) /\ k - Len(s1) = i
    BY <1>1
  <2> HIDE DEF k
  <2>2. u[k] = t1[k - Len(s1)] /\ u[k] = t2[k - Len(s1)]
    BY <1>1, <1>2, <1>3, <1>4, <2>1
  <2> QED
    BY <2>1, <2>2
<1> QED
  BY <1>4, <1>5, <1>6, SeqEqual

\* Concatenation is associative, in the form the steps below name.
Regroups(s, t, u) == (s \o t) \o u = s \o (t \o u)

LEMMA Associative ==
  ASSUME NEW S, NEW s \in Seq(S), NEW t \in Seq(S), NEW u \in Seq(S)
  PROVE  Regroups(s, t, u)
BY ConcatAssociative DEF Regroups

\* A sequence of one element, and one in front of another sequence.
LEMMA Single ==
  ASSUME NEW S, NEW x \in S
  PROVE  <<x>> \in Seq(S) /\ Len(<<x>>) = 1 /\ <<x>>[1] = x
OBVIOUS

Follows(S, w, s) ==
  /\ w \o s \in Seq(S) /\ Len(w \o s) = 1 + Len(s)
  /\ (w \o s)[1] = w[1]
  /\ Len(s) = 1 => (w \o s)[2] = s[1]

LEMMA Headed ==
  ASSUME NEW S, NEW w \in Seq(S), Len(w) = 1, NEW s \in Seq(S)
  PROVE  Follows(S, w, s)
<1>1. /\ w \o s \in Seq(S) /\ Len(w \o s) = Len(w) + Len(s)
      /\ \A i \in 1 .. Len(w) + Len(s) :
           (w \o s)[i] = IF i <= Len(w) THEN w[i] ELSE s[i - Len(w)]
  BY ConcatProperties
<1>2. Len(s) \in Nat
  BY LenProperties
<1> QED
  BY <1>1, <1>2 DEF Follows

-----------------------------------------------------------------------------
\* The input of a tag determines the authenticated data, the nonce and the
\* ciphertext it was made of (compute_tag): its lengths frame them.
THEOREM TagInputInjective ==
  ASSUME NEW a1 \in Seq(Int), NEW a2 \in Seq(Int), NEW n1 \in Int, NEW n2 \in Int,
         NEW c1 \in Seq(Int), NEW c2 \in Seq(Int),
         TagInput(a1, n1, c1) = TagInput(a2, n2, c2)
  PROVE  a1 = a2 /\ n1 = n2 /\ c1 = c2
<1> DEFINE Leading(a) == Domain \o <<Len(a)>>
           Sized(n, c) == <<n>> \o <<Len(c)>>
           Back(n, c) == Sized(n, c) \o c
<1>1. ASSUME NEW a \in Seq(Int)
      PROVE  Leading(a) \in Seq(Int) /\ Len(Leading(a)) = 2 /\ Leading(a)[2] = Len(a)
  <2>1. Len(a) \in Int /\ 0 \in Int
    BY LenProperties
  <2>2. <<Len(a)>> \in Seq(Int) /\ Len(<<Len(a)>>) = 1 /\ <<Len(a)>>[1] = Len(a)
    BY <2>1, Single
  <2> DEFINE l == <<Len(a)>>
  <2>3. l \in Seq(Int) /\ Len(l) = 1 /\ l[1] = Len(a)
    BY <2>2
  <2> HIDE DEF l
  <2>4. Domain \in Seq(Int) /\ Len(Domain) = 1
    BY <2>1, Single DEF Domain
  <2>5. /\ Domain \o l \in Seq(Int) /\ Len(Domain \o l) = 2
        /\ (Domain \o l)[2] = l[1]
    <3>1. Follows(Int, Domain, l)
      BY <2>3, <2>4, Headed
    <3> QED
      BY <2>3, <3>1 DEF Follows
  <2> QED
    BY <2>3, <2>5 DEF l
<1>2. ASSUME NEW n \in Int, NEW c \in Seq(Int)
      PROVE  Sized(n, c) \in Seq(Int) /\ Len(Sized(n, c)) = 2 /\ Sized(n, c)[1] = n
  <2>1. Len(c) \in Int
    BY LenProperties
  <2>2. <<Len(c)>> \in Seq(Int) /\ Len(<<Len(c)>>) = 1
    BY <2>1, Single
  <2> DEFINE l == <<Len(c)>>
  <2>3. l \in Seq(Int) /\ Len(l) = 1
    BY <2>2
  <2> DEFINE w == <<n>>
  <2>4. w \in Seq(Int) /\ Len(w) = 1 /\ w[1] = n
    BY Single
  <2> HIDE DEF l, w
  <2>5. w \o l \in Seq(Int) /\ Len(w \o l) = 2 /\ (w \o l)[1] = n
    <3>1. Follows(Int, w, l)
      BY <2>3, <2>4, Headed
    <3> QED
      BY <2>3, <2>4, <3>1 DEF Follows
  <2> QED
    BY <2>5 DEF l, w
<1>3. ASSUME NEW n \in Int, NEW c \in Seq(Int)
      PROVE  Back(n, c) \in Seq(Int)
  <2> HIDE DEF Sized
  <2> QED
    BY <1>2, ConcatProperties
<1>4. ASSUME NEW a \in Seq(Int), NEW n \in Int, NEW c \in Seq(Int)
      PROVE  TagInput(a, n, c) = Leading(a) \o (a \o Back(n, c))
  <2> DEFINE N == <<n>>
             L == <<Len(c)>>
             F == Leading(a)
  <2>1. F \in Seq(Int)
    BY <1>1
  <2>2. N \in Seq(Int) /\ L \in Seq(Int)
    <3>1. Len(c) \in Int
      BY LenProperties
    <3> QED
      BY <3>1, Single
  <2>3. TagInput(a, n, c) = (((F \o a) \o N) \o L) \o c
    BY DEF TagInput
  <2> HIDE DEF F, N, L
  <2>4. F \o a \in Seq(Int) /\ N \o L \in Seq(Int)
    BY <2>1, <2>2, ConcatProperties
  <2>5. (N \o L) \o c \in Seq(Int)
    BY <2>4, ConcatProperties
  <2>6. Regroups(F \o a, N, L) /\ Regroups(F \o a, N \o L, c) /\ Regroups(F, a, (N \o L) \o c)
    BY <2>1, <2>2, <2>4, <2>5, Associative
  <2>7. (((F \o a) \o N) \o L) \o c = F \o (a \o ((N \o L) \o c))
    BY <2>6 DEF Regroups
  <2> QED
    BY <2>3, <2>7 DEF F, N, L
<1> HIDE DEF Leading, Back, Sized
<1>5. Leading(a1) \o (a1 \o Back(n1, c1)) = Leading(a2) \o (a2 \o Back(n2, c2))
  <2>1. /\ TagInput(a1, n1, c1) = Leading(a1) \o (a1 \o Back(n1, c1))
        /\ TagInput(a2, n2, c2) = Leading(a2) \o (a2 \o Back(n2, c2))
    BY <1>4
  <2> QED
    BY <2>1
<1>6. Leading(a1) = Leading(a2) /\ a1 \o Back(n1, c1) = a2 \o Back(n2, c2)
  <2>1. Back(n1, c1) \in Seq(Int) /\ Back(n2, c2) \in Seq(Int)
    BY <1>3
  <2>2. a1 \o Back(n1, c1) \in Seq(Int) /\ a2 \o Back(n2, c2) \in Seq(Int)
    BY <2>1, ConcatProperties
  <2>3. Leading(a1) \in Seq(Int) /\ Leading(a2) \in Seq(Int) /\ Len(Leading(a1)) = Len(Leading(a2))
    BY <1>1
  <2> QED
    BY <1>5, <2>2, <2>3, SplitOnce
<1>7. a1 = a2 /\ Back(n1, c1) = Back(n2, c2)
  <2>1. Len(a1) = Len(a2)
    BY <1>1, <1>6
  <2>2. PICK t1 \in Seq(Int), t2 \in Seq(Int) : t1 = Back(n1, c1) /\ t2 = Back(n2, c2)
    BY <1>3
  <2>3. a1 \o t1 = a2 \o t2
    BY <1>6, <2>2
  <2>4. a1 = a2 /\ t1 = t2
    BY <2>1, <2>3, SplitOnce
  <2> QED
    BY <2>2, <2>4
<1>8. Sized(n1, c1) = Sized(n2, c2) /\ c1 = c2
  <2>1. Sized(n1, c1) \o c1 = Sized(n2, c2) \o c2
    BY <1>7 DEF Back
  <2>2. /\ Sized(n1, c1) \in Seq(Int) /\ Sized(n2, c2) \in Seq(Int)
        /\ Len(Sized(n1, c1)) = Len(Sized(n2, c2))
    BY <1>2
  <2> QED
    BY <2>1, <2>2, SplitOnce
<1>9. n1 = n2
  <2>1. Sized(n1, c1)[1] = n1 /\ Sized(n2, c2)[1] = n2
    BY <1>2
  <2> QED
    BY <1>8, <2>1
<1> QED
  BY <1>7, <1>8, <1>9

\* The keystream of a key and a nonce is numbers.
Keystream(key, nonce) == \A i \in Nat : Stream(key, nonce, i) \in Nat

\* ctr_crypt keeps the length, and what it returns are numbers.
LEMMA CryptType ==
  ASSUME NEW key, NEW nonce, NEW s \in Seq(0 .. Cells - 1),
         Keystream(key, nonce)
  PROVE  Crypt(key, nonce, s) \in Seq(Nat) /\ Len(Crypt(key, nonce, s)) = Len(s)
<1> DEFINE f(i) == (Stream(key, nonce, i) + Cells - s[i]) % Cells
           c == Crypt(key, nonce, s)
<1>1. Len(s) \in Nat /\ \A i \in 1 .. Len(s) : s[i] \in 0 .. Cells - 1
  BY LenProperties, ElementOfSeq
<1>2. c = [i \in 1 .. Len(s) |-> f(i)]
  BY DEF Crypt
<1>3. ASSUME NEW i \in 1 .. Len(s)
      PROVE  f(i) \in Nat
  <2> DEFINE z == Stream(key, nonce, i)
             y == s[i]
  <2>1. z \in Nat /\ y \in 0 .. Cells - 1 /\ Cells \in Nat \ {0}
    BY <1>1, BlobAssumption DEF Keystream
  <2>2. f(i) = (z + Cells - y) % Cells
    OBVIOUS
  <2> HIDE DEF z, y, f
  <2> QED
    BY <2>1, <2>2
<1> HIDE DEF c, f
<1>4. c \in [1 .. Len(s) -> Nat]
  BY <1>2, <1>3
<1>5. c \in UNION {[1 .. n -> Nat] : n \in Nat}
  BY <1>1, <1>4
<1>6. c \in Seq(Nat)
  BY <1>5, SeqDef
<1> QED
  BY <1>1, <1>4, <1>6, LenProperties DEF c

\* ctr_crypt undoes itself, for any keystream.
LEMMA CryptUndone ==
  ASSUME NEW key, NEW nonce, NEW s \in Seq(0 .. Cells - 1),
         Keystream(key, nonce)
  PROVE  Crypt(key, nonce, Crypt(key, nonce, s)) = s
<1> DEFINE k == [i \in 1 .. Len(s) |-> Stream(key, nonce, i)]
           c == Crypt(key, nonce, s)
<1>1. Len(s) \in Nat /\ \A i \in 1 .. Len(s) : s[i] \in 0 .. Cells - 1
  BY LenProperties, ElementOfSeq
<1>2. \A i \in 1 .. Len(s) : k[i] \in Nat
  BY <1>1 DEF Keystream
<1>3. c = [i \in 1 .. Len(s) |-> (k[i] + Cells - s[i]) % Cells]
  BY DEF Crypt
<1> HIDE DEF k, c
<1>4. \A i \in 1 .. Len(s) : c[i] = (k[i] + Cells - s[i]) % Cells
  BY <1>3
<1>5. Len(c) = Len(s)
  BY CryptType DEF c
<1>6. Crypt(key, nonce, c) = [i \in 1 .. Len(s) |-> (k[i] + Cells - c[i]) % Cells]
  BY <1>5 DEF Crypt, k
<1>7. ASSUME NEW i \in 1 .. Len(s)
      PROVE  (k[i] + Cells - c[i]) % Cells = s[i]
  <2> DEFINE y == s[i]
             z == k[i]
  <2>1. y \in 0 .. Cells - 1 /\ z \in Nat /\ Cells \in Nat \ {0}
    BY <1>1, <1>2, BlobAssumption
  <2>2. c[i] = (z + Cells - y) % Cells
    BY <1>4
  <2> HIDE DEF y, z
  <2> DEFINE x == z + Cells - y
  <2>3. x \in Nat /\ x = z + Cells - y /\ y \in Nat /\ y < Cells
    BY <2>1
  <2> HIDE DEF x
  <2>4. PICK q \in Nat, r \in Nat : x = q * Cells + r /\ r < Cells /\ x % Cells = r
    BY <2>1, <2>3, DivMod
  <2> DEFINE m == q * Cells
  <2>5. m \in Nat /\ x = m + r
    BY <2>1, <2>4, Product
  <2>6. (m + y) % Cells = y
    BY <2>1, <2>3, ModOf
  <2> HIDE DEF m
  <2>7. z + Cells - r = m + y
    BY <2>1, <2>3, <2>4, <2>5
  <2>8. c[i] = r
    BY <2>2, <2>4 DEF x
  <2> QED
    BY <2>6, <2>7, <2>8 DEF y, z
<1>8. Crypt(key, nonce, c) = [i \in 1 .. Len(s) |-> s[i]]
  BY <1>6, <1>7
<1>9. s = [i \in 1 .. Len(s) |-> s[i]]
  BY SeqDef, LenProperties
<1> QED
  BY <1>8, <1>9 DEF c
-----------------------------------------------------------------------------
\* No key and input has two tags.
NoneTwice(ms) ==
  /\ \A i \in DOMAIN ms : i \in Nat
  /\ \A i, j \in DOMAIN ms : ms[i] = ms[j] => i = j

\* The tags of ms are those of more, too.
IssuedIn(ms, more) == \A i \in DOMAIN ms : i \in DOMAIN more /\ more[i] = ms[i]

LEMMA ListedOnce ==
  ASSUME NEW S, NEW ms \in Seq(S), NoneTwice(ms), NEW x \in S
  PROVE  /\ Listed(ms, x) \in Seq(S) /\ NoneTwice(Listed(ms, x))
         /\ IssuedIn(ms, Listed(ms, x))
         /\ \E i \in DOMAIN Listed(ms, x) : Listed(ms, x)[i] = x
<1>1. CASE \E i \in DOMAIN ms : ms[i] = x
  BY <1>1 DEF Listed, IssuedIn
<1>2. CASE ~ \E i \in DOMAIN ms : ms[i] = x
  <2> DEFINE more == Append(ms, x)
  <2>1. /\ more \in Seq(S) /\ Len(more) = Len(ms) + 1
        /\ \A i \in 1 .. Len(ms) : more[i] = ms[i]
        /\ more[Len(ms) + 1] = x
    BY AppendProperties
  <2>2. Len(ms) \in Nat /\ DOMAIN ms = 1 .. Len(ms) /\ DOMAIN more = 1 .. Len(more)
    BY <2>1, LenProperties
  <2>3. Listed(ms, x) = more
    BY <1>2 DEF Listed
  <2> HIDE DEF more
  <2>4. IssuedIn(ms, more)
    BY <2>1, <2>2 DEF IssuedIn
  <2>5. \A i \in DOMAIN more : i = Len(ms) + 1 \/ i \in DOMAIN ms
    BY <2>1, <2>2
  <2>6. \A i \in DOMAIN more : i \in Nat
    BY <2>1, <2>2
  <2>7. ASSUME NEW i \in DOMAIN more, NEW j \in DOMAIN more, more[i] = more[j]
        PROVE  i = j
    BY <1>2, <2>1, <2>2, <2>5, <2>7 DEF NoneTwice
  <2>8. Len(ms) + 1 \in DOMAIN more
    BY <2>1, <2>2
  <2> QED
    BY <2>1, <2>3, <2>4, <2>6, <2>7, <2>8 DEF NoneTwice
<1> QED
  BY <1>1, <1>2

\* A tag that was issued belongs to one key and input.
LEMMA TagUnique ==
  ASSUME NEW ms, NEW more, NoneTwice(ms), NoneTwice(more), IssuedIn(ms, more),
         NEW k1, NEW k2, NEW x1, NEW x2,
         \E i \in DOMAIN ms : ms[i] = <<k1, x1>>,
         Tag(more, k2, x2) = Tag(ms, k1, x1)
  PROVE  k1 = k2 /\ x1 = x2
<1> DEFINE p == <<k1, x1>>
           q == <<k2, x2>>
           i == CHOOSE n \in DOMAIN ms : ms[n] = p
           j == CHOOSE n \in DOMAIN more : more[n] = q
<1>1. i \in DOMAIN ms /\ ms[i] = p
  OBVIOUS
<1>2. Tag(ms, k1, x1) = TagBase + i
  BY DEF Tag
<1>3. /\ (\E n \in DOMAIN more : more[n] = q) => Tag(more, k2, x2) = TagBase + j
      /\ ~ (\E n \in DOMAIN more : more[n] = q) => Tag(more, k2, x2) = -1
  BY DEF Tag
<1>4. (\E n \in DOMAIN more : more[n] = q) => j \in DOMAIN more /\ more[j] = q
  OBVIOUS
<1> HIDE DEF i, j
<1>5. i \in Nat /\ TagBase \in Nat
  BY <1>1, BlobAssumption DEF NoneTwice
<1>6. \E n \in DOMAIN more : more[n] = q
  BY <1>2, <1>3, <1>5
<1>7. j \in DOMAIN more /\ more[j] = q /\ j \in Nat /\ TagBase + j = TagBase + i
  BY <1>2, <1>3, <1>4, <1>6 DEF NoneTwice
<1>8. i = j
  BY <1>5, <1>7
<1>9. p = q
  BY <1>1, <1>7, <1>8 DEF IssuedIn
<1> QED
  BY <1>9

\* What decrypt_blob returns is what encrypt_blob was given: a blob that carries
\* the tag of a sealed one opens only under its key, with its authenticated data,
\* nonce and ciphertext unchanged, and then to its plaintext, whatever else has
\* been sealed before or since.
THEOREM OpensOnlyWhatWasSealed ==
  ASSUME NEW S, NEW before \in Seq(S), NoneTwice(before), NoneTwice(macs),
         NEW keys, NEW nonce \in Int, NEW plaintext \in Seq(0 .. Cells - 1),
         NEW aad \in Seq(Int), Keystream(keys.enc, nonce),
         <<keys.mac, TagInput(aad, nonce, Crypt(keys.enc, nonce, plaintext))>> \in S,
         NEW sealed, sealed = EncryptBlob(before, keys, nonce, plaintext, aad),
         IssuedIn(sealed.macs, macs),
         NEW blob, blob.tag = sealed.blob.tag,
         blob.nonce \in Int, blob.ciphertext \in Seq(Int),
         NEW keys2, NEW aad2 \in Seq(Int), DecryptBlob(keys2, blob, aad2) # {}
  PROVE  /\ keys2.mac = keys.mac /\ aad2 = aad
         /\ blob.nonce = nonce /\ blob.ciphertext = sealed.blob.ciphertext
         /\ keys2.enc = keys.enc => DecryptBlob(keys2, blob, aad2) = {plaintext}
<1> DEFINE c == Crypt(keys.enc, nonce, plaintext)
           x == TagInput(aad, nonce, c)
           x2 == TagInput(aad2, blob.nonce, blob.ciphertext)
           listed == Listed(before, <<keys.mac, x>>)
<1>1. /\ sealed.macs = listed /\ sealed.blob.tag = Tag(listed, keys.mac, x)
      /\ sealed.blob.ciphertext = c
  BY DEF EncryptBlob
<1>2. /\ Tag(macs, keys2.mac, x2) = blob.tag
      /\ DecryptBlob(keys2, blob, aad2) = {Crypt(keys2.enc, blob.nonce, blob.ciphertext)}
  BY DEF DecryptBlob
<1>3. /\ NoneTwice(listed)
      /\ \E i \in DOMAIN listed : listed[i] = <<keys.mac, x>>
  <2> DEFINE e == <<keys.mac, x>>
  <2>1. e \in S
    OBVIOUS
  <2>2. listed = Listed(before, e)
    OBVIOUS
  <2> HIDE DEF listed, e
  <2>3. NoneTwice(listed) /\ \E i \in DOMAIN listed : listed[i] = e
    BY <2>1, <2>2, ListedOnce
  <2> QED
    BY <2>3 DEF e
<1> HIDE DEF listed
<1>4. keys.mac = keys2.mac /\ x = x2
  <2> HIDE DEF x, x2
  <2> QED
    BY <1>1, <1>2, <1>3, TagUnique
<1>5. aad = aad2 /\ nonce = blob.nonce /\ c = blob.ciphertext
  <2> HIDE DEF c
  <2>1. c \in Seq(Int)
    <3>1. c \in Seq(Nat)
      BY CryptType DEF c
    <3> QED
      BY <3>1, SeqMonotonic
  <2> QED
    BY <1>4, <2>1, TagInputInjective
<1>6. ASSUME keys2.enc = keys.enc
      PROVE  Crypt(keys2.enc, blob.nonce, blob.ciphertext) = plaintext
  <2>1. Crypt(keys.enc, nonce, Crypt(keys.enc, nonce, plaintext)) = plaintext
    BY CryptUndone
  <2> QED
    BY <1>5, <1>6, <2>1
<1> QED
  BY <1>1, <1>2, <1>4, <1>5, <1>6

-----------------------------------------------------------------------------
(***************************************************************************)
(* Cells.                                                                  *)
(***************************************************************************)

-----------------------------------------------------------------------------
(***************************************************************************)
(* The parsers are the inverses of the writers: what one reads from any    *)
(* cells is what would have been written there, and it reads what was.     *)
(***************************************************************************)

Result(v, r) == [value |-> v, rest |-> r]

LEMMA ResultFields ==
  ASSUME NEW v, NEW r
  PROVE  Result(v, r).value = v /\ Result(v, r).rest = r
BY DEF Result

\* The first n cells.
SpanReads(bytes, n) ==
  /\ \A o \in ReadSpan(bytes, n) : \E s, r \in Seq(Nat) :
       o = Result(s, r) /\ bytes = s \o r /\ Len(s) = n
  /\ \A s, r \in Seq(Nat) :
       bytes = s \o r /\ Len(s) = n => ReadSpan(bytes, n) = {Result(s, r)}

LEMMA SpanRead ==
  ASSUME NEW bytes \in Seq(Nat), NEW n \in Nat
  PROVE  SpanReads(bytes, n)
<1>1. Len(bytes) \in Nat /\ \A i \in 1 .. Len(bytes) : bytes[i] \in Nat
  BY LenProperties, ElementOfSeq
<1> DEFINE s0 == SubSeq(bytes, 1, n)
           r0 == SubSeq(bytes, n + 1, Len(bytes))
<1>2. Len(bytes) < n => ReadSpan(bytes, n) = {}
  BY DEF ReadSpan
<1>3. ~ (Len(bytes) < n) => ReadSpan(bytes, n) = {Result(s0, r0)}
  BY DEF ReadSpan, Got, Result
<1>4. ASSUME ~ (Len(bytes) < n)
      PROVE  /\ s0 \in Seq(Nat) /\ Len(s0) = n /\ r0 \in Seq(Nat) /\ bytes = s0 \o r0
             /\ Len(r0) = Len(bytes) - n
             /\ \A i \in 1 .. n : s0[i] = bytes[i]
             /\ \A i \in 1 .. Len(bytes) - n : r0[i] = bytes[n + i]
  <2>1. n \in 0 .. Len(bytes)
    BY <1>1, <1>4
  <2>2. /\ s0 \in Seq(Nat) /\ Len(s0) = IF 1 <= n THEN n - 1 + 1 ELSE 0
        /\ \A i \in 1 .. n - 1 + 1 : s0[i] = bytes[1 + i - 1]
    <3>1. \A i \in 1 .. n : bytes[i] \in Nat
      BY <1>1, <2>1
    <3> QED
      BY <3>1, SubSeqProperties
  <2>3. /\ r0 \in Seq(Nat)
        /\ Len(r0) = IF n + 1 <= Len(bytes) THEN Len(bytes) - (n + 1) + 1 ELSE 0
        /\ \A i \in 1 .. Len(bytes) - (n + 1) + 1 : r0[i] = bytes[n + 1 + i - 1]
    <3>1. \A i \in n + 1 .. Len(bytes) : bytes[i] \in Nat
      BY <1>1
    <3> QED
      BY <1>1, <3>1, SubSeqProperties
  <2>4. s0 \o r0 = SubSeq(bytes, 1, Len(bytes))
    <3>1. 1 \in 1 .. Len(bytes) + 1 /\ n \in (1 - 1) .. Len(bytes) /\ Len(bytes) \in n .. Len(bytes)
      BY <1>1, <2>1
    <3> QED
      BY <3>1, ConcatAdjacentSubSeq
  <2>5. SubSeq(bytes, 1, Len(bytes)) = bytes
    BY SubSeqFull
  <2> HIDE DEF s0, r0
  <2>6. \A i \in 1 .. n : s0[i] = bytes[i]
    <3> TAKE i \in 1 .. n
    <3>1. i \in 1 .. n - 1 + 1 /\ 1 + i - 1 = i
      OBVIOUS
    <3>2. s0[i] = bytes[1 + i - 1]
      BY <2>2, <3>1
    <3> QED
      BY <3>1, <3>2
  <2>7. \A i \in 1 .. Len(bytes) - n : r0[i] = bytes[n + i]
    <3> TAKE i \in 1 .. Len(bytes) - n
    <3>1. i \in 1 .. Len(bytes) - (n + 1) + 1 /\ n + 1 + i - 1 = n + i
      BY <1>1
    <3>2. r0[i] = bytes[n + 1 + i - 1]
      BY <2>3, <3>1
    <3> QED
      BY <3>1, <3>2
  <2>8. Len(s0) = n /\ Len(r0) = Len(bytes) - n
    BY <1>1, <2>1, <2>2, <2>3
  <2> QED
    BY <2>2, <2>3, <2>4, <2>5, <2>6, <2>7, <2>8
<1> HIDE DEF s0, r0
<1>5. ASSUME NEW o \in ReadSpan(bytes, n)
      PROVE  \E s, r \in Seq(Nat) : o = Result(s, r) /\ bytes = s \o r /\ Len(s) = n
  BY <1>2, <1>3, <1>4, <1>5
<1>6. ASSUME NEW s \in Seq(Nat), NEW r \in Seq(Nat), bytes = s \o r, Len(s) = n
      PROVE  ReadSpan(bytes, n) = {Result(s, r)}
  <2>1. /\ Len(bytes) = Len(s) + Len(r) /\ Len(r) \in Nat
        /\ \A i \in 1 .. Len(s) + Len(r) : bytes[i] = IF i <= Len(s) THEN s[i] ELSE r[i - Len(s)]
    BY <1>6, ConcatProperties, LenProperties
  <2>2. ~ (Len(bytes) < n)
    BY <1>6, <2>1
  <2>3. s0 = s
    <3>1. \A i \in 1 .. Len(s) : s0[i] = s[i]
      BY <1>4, <1>6, <2>1, <2>2
    <3> QED
      BY <1>4, <1>6, <2>2, <3>1, SeqEqual
  <2>4. r0 = r
    <3>1. Len(r0) = Len(r)
      BY <1>4, <1>6, <2>1, <2>2
    <3>2. ASSUME NEW i \in 1 .. Len(r) PROVE r0[i] = r[i]
      <4>1. n + i \in 1 .. Len(s) + Len(r) /\ ~ (n + i <= Len(s)) /\ n + i - Len(s) = i
        BY <1>6, <2>1
      <4>2. bytes[n + i] = r[i]
        <5>1. PICK k \in 1 .. Len(s) + Len(r) : k = n + i
          BY <4>1
        <5>2. bytes[k] = IF k <= Len(s) THEN s[k] ELSE r[k - Len(s)]
          BY <2>1
        <5> QED
          BY <4>1, <5>1, <5>2
      <4>3. i \in 1 .. Len(bytes) - n
        BY <1>6, <2>1
      <4>4. r0[i] = bytes[n + i]
        BY <1>4, <2>2, <4>3
      <4> QED
        BY <4>2, <4>4
    <3> QED
      BY <1>4, <2>2, <3>1, <3>2, SeqEqual
  <2> QED
    BY <1>3, <2>2, <2>3, <2>4
<1> QED
  BY <1>5, <1>6 DEF SpanReads

\* A field of fixed width is one cell.
CellReads(bytes) ==
  /\ \A o \in ReadCell(bytes) : \E c \in Nat, r \in Seq(Nat) :
       o = Result(c, r) /\ bytes = <<c>> \o r
  /\ \A c \in Nat, r \in Seq(Nat) :
       bytes = <<c>> \o r => ReadCell(bytes) = {Result(c, r)}

LEMMA CellRead ==
  ASSUME NEW bytes \in Seq(Nat)
  PROVE  CellReads(bytes)
<1>1. ReadCell(bytes) = UNION {{Result(q.value[1], q.rest)} : q \in ReadSpan(bytes, 1)}
  BY DEF ReadCell, Then, Got, Result
<1>2. SpanReads(bytes, 1)
  BY SpanRead
<1>3. ASSUME NEW o \in ReadCell(bytes)
      PROVE  \E c \in Nat, r \in Seq(Nat) : o = Result(c, r) /\ bytes = <<c>> \o r
  <2>1. PICK q \in ReadSpan(bytes, 1) : o = Result(q.value[1], q.rest)
    BY <1>1, <1>3
  <2>2. PICK s \in Seq(Nat), r \in Seq(Nat) : q = Result(s, r) /\ bytes = s \o r /\ Len(s) = 1
    BY <1>2 DEF SpanReads
  <2>3. o = Result(s[1], r)
    BY <2>1, <2>2, ResultFields
  <2>4. PICK c \in Nat : c = s[1]
    <3>1. 1 \in 1 .. Len(s)
      BY <2>2
    <3>2. s[1] \in Nat
      BY <3>1, ElementOfSeq
    <3> QED
      BY <3>2
  <2>5. s = <<c>>
    <3>1. <<c>> \in Seq(Nat) /\ Len(<<c>>) = 1 /\ <<c>>[1] = c
      BY Single
    <3>2. \A i \in 1 .. Len(s) : s[i] = <<c>>[i]
      BY <2>2, <2>4, <3>1
    <3> QED
      BY <2>2, <3>1, <3>2, SeqEqual
  <2> QED
    BY <2>2, <2>3, <2>4, <2>5
<1>4. ASSUME NEW c \in Nat, NEW r \in Seq(Nat), bytes = <<c>> \o r
      PROVE  ReadCell(bytes) = {Result(c, r)}
  <2>1. PICK s \in Seq(Nat) : s = <<c>> /\ Len(s) = 1 /\ s[1] = c
    BY Single
  <2>2. PICK q : q = Result(s, r)
    OBVIOUS
  <2>3. ReadSpan(bytes, 1) = {q}
    BY <1>2, <1>4, <2>1, <2>2 DEF SpanReads
  <2>4. ReadCell(bytes) = {Result(q.value[1], q.rest)}
    BY <1>1, <2>3
  <2>5. q.value = s /\ q.rest = r
    BY <2>2, ResultFields
  <2> QED
    BY <2>1, <2>4, <2>5
<1> QED
  BY <1>3, <1>4 DEF CellReads

\* A string behind its length, and what follows it.
Framed(s, r) == <<Len(s)>> \o (s \o r)

StringReads(bytes) ==
  /\ \A o \in ReadString(bytes) : \E s, r \in Seq(Nat) :
       o = Result(s, r) /\ bytes = Framed(s, r)
  /\ \A s, r \in Seq(Nat) :
       bytes = Framed(s, r) => ReadString(bytes) = {Result(s, r)}

LEMMA StringRead ==
  ASSUME NEW bytes \in Seq(Nat)
  PROVE  StringReads(bytes)
<1>1. ReadString(bytes) = UNION {ReadSpan(q.rest, q.value) : q \in ReadCell(bytes)}
  BY DEF ReadString, Then
<1>2. CellReads(bytes)
  BY CellRead
<1>3. ASSUME NEW o \in ReadString(bytes)
      PROVE  \E s, r \in Seq(Nat) : o = Result(s, r) /\ bytes = Framed(s, r)
  <2>1. PICK q \in ReadCell(bytes) : o \in ReadSpan(q.rest, q.value)
    BY <1>1, <1>3
  <2>2. PICK c \in Nat, t \in Seq(Nat) : q = Result(c, t) /\ bytes = <<c>> \o t
    BY <1>2 DEF CellReads
  <2>3. o \in ReadSpan(t, c) /\ SpanReads(t, c)
    BY <2>1, <2>2, ResultFields, SpanRead
  <2>4. PICK s \in Seq(Nat), r \in Seq(Nat) : o = Result(s, r) /\ t = s \o r /\ Len(s) = c
    BY <2>3 DEF SpanReads
  <2> QED
    BY <2>2, <2>4 DEF Framed
<1>4. ASSUME NEW s \in Seq(Nat), NEW r \in Seq(Nat), bytes = Framed(s, r)
      PROVE  ReadString(bytes) = {Result(s, r)}
  <2>1. PICK n \in Nat, t \in Seq(Nat) : n = Len(s) /\ t = s \o r
    BY LenProperties, ConcatProperties
  <2>2. PICK q : q = Result(n, t)
    OBVIOUS
  <2>3. ReadCell(bytes) = {q}
    BY <1>2, <1>4, <2>1, <2>2 DEF CellReads, Framed
  <2>4. ReadString(bytes) = ReadSpan(q.rest, q.value)
    BY <1>1, <2>3
  <2>5. q.rest = t /\ q.value = n
    BY <2>2, ResultFields
  <2>6. SpanReads(t, n)
    BY SpanRead
  <2> QED
    BY <2>1, <2>4, <2>5, <2>6 DEF SpanReads
<1> QED
  BY <1>3, <1>4 DEF StringReads

LEMMA Fronted ==
  ASSUME NEW c \in Nat, NEW r \in Seq(Nat)
  PROVE  <<c>> \o r \in Seq(Nat)
<1>1. <<c>> \in Seq(Nat)
  BY Single
<1> QED
  BY <1>1, ConcatProperties

LEMMA FramedType ==
  ASSUME NEW s \in Seq(Nat), NEW r \in Seq(Nat)
  PROVE  Framed(s, r) \in Seq(Nat)
<1>1. s \o r \in Seq(Nat) /\ Len(s) \in Nat
  BY ConcatProperties, LenProperties
<1> QED
  BY <1>1, Fronted DEF Framed

\* An encrypted blob, and what follows it.
BlobOf(n, c, t) == [nonce |-> n, ciphertext |-> c, tag |-> t]
AnyBlob == [nonce : Nat, ciphertext : Seq(Nat), tag : Nat]
BlobCells(x, r) == <<x.nonce>> \o Framed(x.ciphertext, <<x.tag>> \o r)

LEMMA BlobFields ==
  /\ \A n, c, t : BlobOf(n, c, t).nonce = n /\ BlobOf(n, c, t).ciphertext = c /\ BlobOf(n, c, t).tag = t
  /\ \A n, t \in Nat, c \in Seq(Nat) : BlobOf(n, c, t) \in AnyBlob
  /\ \A x \in AnyBlob : /\ x = BlobOf(x.nonce, x.ciphertext, x.tag)
                        /\ x.nonce \in Nat /\ x.ciphertext \in Seq(Nat) /\ x.tag \in Nat
BY DEF BlobOf, AnyBlob

LEMMA BlobCellsType ==
  ASSUME NEW x \in AnyBlob, NEW r \in Seq(Nat)
  PROVE  BlobCells(x, r) \in Seq(Nat)
BY BlobFields, Fronted, FramedType DEF BlobCells

BlobReads(bytes) ==
  /\ \A o \in ReadBlob(bytes) : \E x \in AnyBlob, r \in Seq(Nat) :
       o = Result(x, r) /\ bytes = BlobCells(x, r)
  /\ \A x \in AnyBlob, r \in Seq(Nat) :
       bytes = BlobCells(x, r) => ReadBlob(bytes) = {Result(x, r)}

LEMMA BlobRead ==
  ASSUME NEW bytes \in Seq(Nat)
  PROVE  BlobReads(bytes)
<1> DEFINE Tagged(n, c, b) == UNION {{Result(BlobOf(n, c, q.value), q.rest)} : q \in ReadCell(b)}
           Behind(n, b) == UNION {Tagged(n, q.value, q.rest) : q \in ReadString(b)}
<1>1. ReadBlob(bytes) = UNION {Behind(q.value, q.rest) : q \in ReadCell(bytes)}
  BY DEF ReadBlob, Then, Got, Result, BlobOf
<1>2. CellReads(bytes)
  BY CellRead
<1>3. ASSUME NEW o \in ReadBlob(bytes)
      PROVE  \E x \in AnyBlob, r \in Seq(Nat) : o = Result(x, r) /\ bytes = BlobCells(x, r)
  <2>1. PICK q1 \in ReadCell(bytes) : o \in Behind(q1.value, q1.rest)
    BY <1>1, <1>3
  <2>2. PICK n \in Nat, r1 \in Seq(Nat) : q1 = Result(n, r1) /\ bytes = <<n>> \o r1
    BY <1>2 DEF CellReads
  <2>3. PICK q2 \in ReadString(r1) : o \in Tagged(n, q2.value, q2.rest)
    BY <2>1, <2>2, ResultFields
  <2>4. PICK c \in Seq(Nat), r2 \in Seq(Nat) : q2 = Result(c, r2) /\ r1 = Framed(c, r2)
    BY StringRead DEF StringReads
  <2>5. PICK q3 \in ReadCell(r2) : o = Result(BlobOf(n, c, q3.value), q3.rest)
    BY <2>3, <2>4, ResultFields
  <2>6. PICK t \in Nat, r \in Seq(Nat) : q3 = Result(t, r) /\ r2 = <<t>> \o r
    BY CellRead DEF CellReads
  <2>7. o = Result(BlobOf(n, c, t), r)
    BY <2>5, <2>6, ResultFields
  <2>8. PICK x \in AnyBlob : x = BlobOf(n, c, t) /\ x.nonce = n /\ x.ciphertext = c /\ x.tag = t
    BY BlobFields
  <2>9. bytes = BlobCells(x, r)
    BY <2>2, <2>4, <2>6, <2>8 DEF BlobCells
  <2> QED
    BY <2>7, <2>8, <2>9
<1>4. ASSUME NEW x \in AnyBlob, NEW r \in Seq(Nat), bytes = BlobCells(x, r)
      PROVE  ReadBlob(bytes) = {Result(x, r)}
  <2>1. PICK n \in Nat, c \in Seq(Nat), t \in Nat :
          x = BlobOf(n, c, t) /\ n = x.nonce /\ c = x.ciphertext /\ t = x.tag
    BY BlobFields
  <2>2. PICK r2 \in Seq(Nat) : r2 = <<t>> \o r
    BY Fronted
  <2>3. PICK r1 \in Seq(Nat) : r1 = Framed(c, r2)
    BY FramedType
  <2>4. bytes = <<n>> \o r1
    BY <1>4, <2>1, <2>2, <2>3 DEF BlobCells
  <2>5. PICK q1, q2, q3 : q1 = Result(n, r1) /\ q2 = Result(c, r2) /\ q3 = Result(t, r)
    OBVIOUS
  <2>6. ReadCell(bytes) = {q1}
    BY <1>2, <2>4, <2>5 DEF CellReads
  <2>7. ReadString(r1) = {q2}
    BY <2>3, <2>5, StringRead DEF StringReads
  <2>8. ReadCell(r2) = {q3}
    <3>1. CellReads(r2)
      BY CellRead
    <3> QED
      BY <2>2, <2>5, <3>1 DEF CellReads
  <2>9. /\ q1.value = n /\ q1.rest = r1 /\ q2.value = c /\ q2.rest = r2
        /\ q3.value = t /\ q3.rest = r
    BY <2>5, ResultFields
  <2>10. Tagged(n, c, r2) = {Result(BlobOf(n, c, q3.value), q3.rest)}
    BY <2>8
  <2> HIDE DEF Tagged
  <2>11. Behind(n, r1) = Tagged(n, q2.value, q2.rest)
    BY <2>7
  <2> HIDE DEF Behind
  <2>12. ReadBlob(bytes) = Behind(q1.value, q1.rest)
    BY <1>1, <2>6
  <2> QED
    BY <2>1, <2>9, <2>10, <2>11, <2>12
<1> QED
  BY <1>3, <1>4 DEF BlobReads

\* An entry of the manifest, and what follows it.
EntryOf(i, n, z, u) == [id |-> i, name |-> n, size |-> z, added_unix_seconds |-> u]
AnyEntry == [id : Seq(Nat) \ {<<>>}, name : Seq(Nat) \ {<<>>}, size : Nat, added_unix_seconds : Nat]
EntryCells(e, r) ==
  Framed(e.id, Framed(e.name, <<e.size>> \o (<<e.added_unix_seconds>> \o r)))

LEMMA EntryOfFields ==
  ASSUME NEW e \in AnyEntry
  PROVE  /\ e = EntryOf(e.id, e.name, e.size, e.added_unix_seconds)
         /\ e.id \in Seq(Nat) \ {<<>>} /\ e.name \in Seq(Nat) \ {<<>>}
         /\ e.size \in Nat /\ e.added_unix_seconds \in Nat
BY DEF EntryOf, AnyEntry

LEMMA EntryMade ==
  ASSUME NEW i \in Seq(Nat) \ {<<>>}, NEW n \in Seq(Nat) \ {<<>>}, NEW z \in Nat, NEW u \in Nat
  PROVE  /\ EntryOf(i, n, z, u) \in AnyEntry
         /\ EntryOf(i, n, z, u).id = i /\ EntryOf(i, n, z, u).name = n
         /\ EntryOf(i, n, z, u).size = z /\ EntryOf(i, n, z, u).added_unix_seconds = u
BY DEF EntryOf, AnyEntry

LEMMA EntryCellsType ==
  ASSUME NEW e \in AnyEntry, NEW r \in Seq(Nat)
  PROVE  EntryCells(e, r) \in Seq(Nat)
BY EntryOfFields, Fronted, FramedType DEF EntryCells

EntryReads(bytes) ==
  /\ \A o \in ReadEntry(bytes) : \E e \in AnyEntry, r \in Seq(Nat) :
       o = Result(e, r) /\ bytes = EntryCells(e, r)
  /\ \A e \in AnyEntry, r \in Seq(Nat) :
       bytes = EntryCells(e, r) => ReadEntry(bytes) = {Result(e, r)}

LEMMA EntryRead ==
  ASSUME NEW bytes \in Seq(Nat)
  PROVE  EntryReads(bytes)
<1> DEFINE Checked(i, n, z, q) == IF i = <<>> \/ n = <<>> THEN {}
                                  ELSE {Result(EntryOf(i, n, z, q.value), q.rest)}
           Dated(i, n, z, b) == UNION {Checked(i, n, z, q) : q \in ReadCell(b)}
           Sized(i, n, b) == UNION {Dated(i, n, q.value, q.rest) : q \in ReadCell(b)}
           Behind(i, b) == UNION {Sized(i, q.value, q.rest) : q \in ReadString(b)}
<1>1. ReadEntry(bytes) = UNION {Behind(q.value, q.rest) : q \in ReadString(bytes)}
  BY DEF ReadEntry, Then, Got, Result, EntryOf
<1>2. StringReads(bytes)
  BY StringRead
<1>3. ASSUME NEW o \in ReadEntry(bytes)
      PROVE  \E e \in AnyEntry, r \in Seq(Nat) : o = Result(e, r) /\ bytes = EntryCells(e, r)
  <2>1. PICK q1 \in ReadString(bytes) : o \in Behind(q1.value, q1.rest)
    BY <1>1, <1>3
  <2>2. PICK i \in Seq(Nat), r1 \in Seq(Nat) : q1 = Result(i, r1) /\ bytes = Framed(i, r1)
    BY <1>2 DEF StringReads
  <2>3. PICK q2 \in ReadString(r1) : o \in Sized(i, q2.value, q2.rest)
    BY <2>1, <2>2, ResultFields
  <2>4. PICK n \in Seq(Nat), r2 \in Seq(Nat) : q2 = Result(n, r2) /\ r1 = Framed(n, r2)
    BY StringRead DEF StringReads
  <2>5. PICK q3 \in ReadCell(r2) : o \in Dated(i, n, q3.value, q3.rest)
    BY <2>3, <2>4, ResultFields
  <2>6. PICK z \in Nat, r3 \in Seq(Nat) : q3 = Result(z, r3) /\ r2 = <<z>> \o r3
    BY CellRead DEF CellReads
  <2>a. PICK q4 \in ReadCell(r3) : o \in Checked(i, n, z, q4)
    <3>1. q3.value = z /\ q3.rest = r3
      BY <2>6, ResultFields
    <3>2. o \in Dated(i, n, z, r3)
      BY <2>5, <3>1
    <3> HIDE DEF Checked
    <3> QED
      BY <3>2
  <2>b. PICK u \in Nat, r \in Seq(Nat) : q4 = Result(u, r) /\ r3 = <<u>> \o r
    BY CellRead DEF CellReads
  <2>7. i # <<>> /\ n # <<>> /\ o = Result(EntryOf(i, n, z, q4.value), q4.rest)
    BY <2>a
  <2>8. o = Result(EntryOf(i, n, z, u), r)
    BY <2>b, <2>7, ResultFields
  <2>9. PICK e \in AnyEntry : /\ e = EntryOf(i, n, z, u) /\ e.id = i /\ e.name = n
                              /\ e.size = z /\ e.added_unix_seconds = u
    <3>1. i \in Seq(Nat) \ {<<>>} /\ n \in Seq(Nat) \ {<<>>}
      BY <2>7
    <3>2. PICK e : e = EntryOf(i, n, z, u)
      OBVIOUS
    <3>3. e \in AnyEntry /\ e.id = i /\ e.name = n /\ e.size = z /\ e.added_unix_seconds = u
      <4>1. EntryOf(i, n, z, u) \in AnyEntry
        BY <3>1, EntryMade
      <4>2. /\ EntryOf(i, n, z, u).id = i /\ EntryOf(i, n, z, u).name = n
            /\ EntryOf(i, n, z, u).size = z /\ EntryOf(i, n, z, u).added_unix_seconds = u
        BY DEF EntryOf
      <4> QED
        BY <3>2, <4>1, <4>2, Zenon
    <3> QED
      BY <3>2, <3>3
  <2>10. bytes = EntryCells(e, r)
    BY <2>2, <2>4, <2>6, <2>b, <2>9 DEF EntryCells
  <2> QED
    BY <2>8, <2>9, <2>10
<1>4. ASSUME NEW e \in AnyEntry, NEW r \in Seq(Nat), bytes = EntryCells(e, r)
      PROVE  ReadEntry(bytes) = {Result(e, r)}
  <2>1. PICK i \in Seq(Nat) \ {<<>>}, n \in Seq(Nat) \ {<<>>}, z \in Nat, u \in Nat :
          /\ e = EntryOf(i, n, z, u)
          /\ i = e.id /\ n = e.name /\ z = e.size /\ u = e.added_unix_seconds
    BY EntryOfFields
  <2>a. PICK r3 \in Seq(Nat) : r3 = <<u>> \o r
    BY Fronted
  <2>2. PICK r2 \in Seq(Nat) : r2 = <<z>> \o r3
    BY Fronted
  <2>3. PICK r1 \in Seq(Nat) : r1 = Framed(n, r2)
    BY FramedType
  <2>4. bytes = Framed(i, r1)
    BY <1>4, <2>1, <2>a, <2>2, <2>3 DEF EntryCells
  <2>5. PICK q1, q2, q3, q4 : /\ q1 = Result(i, r1) /\ q2 = Result(n, r2)
                              /\ q3 = Result(z, r3) /\ q4 = Result(u, r)
    OBVIOUS
  <2>6. ReadString(bytes) = {q1}
    BY <1>2, <2>4, <2>5 DEF StringReads
  <2>7. ReadString(r1) = {q2}
    BY <2>3, <2>5, StringRead DEF StringReads
  <2>8. ReadCell(r2) = {q3}
    <3>1. CellReads(r2)
      BY CellRead
    <3> QED
      BY <2>2, <2>5, <3>1 DEF CellReads
  <2>b. ReadCell(r3) = {q4}
    <3>1. CellReads(r3)
      BY CellRead
    <3> QED
      BY <2>a, <2>5, <3>1 DEF CellReads
  <2>9. /\ q1.value = i /\ q1.rest = r1 /\ q2.value = n /\ q2.rest = r2
        /\ q3.value = z /\ q3.rest = r3 /\ q4.value = u /\ q4.rest = r
    BY <2>5, ResultFields
  <2>10. Checked(i, n, z, q4) = {Result(EntryOf(i, n, z, q4.value), q4.rest)}
    BY <2>1
  <2> HIDE DEF Checked
  <2>c. Dated(i, n, z, r3) = Checked(i, n, z, q4)
    BY <2>b
  <2> HIDE DEF Dated
  <2>11. Sized(i, n, r2) = Dated(i, n, q3.value, q3.rest)
    BY <2>8
  <2> HIDE DEF Sized
  <2>12. Behind(i, r1) = Sized(i, q2.value, q2.rest)
    BY <2>7
  <2> HIDE DEF Behind
  <2>13. ReadEntry(bytes) = Behind(q1.value, q1.rest)
    BY <1>1, <2>6
  <2> QED
    BY <2>1, <2>9, <2>10, <2>c, <2>11, <2>12, <2>13
<1> QED
  BY <1>3, <1>4 DEF EntryReads

-----------------------------------------------------------------------------
(***************************************************************************)
(* Files.                                                                  *)
(***************************************************************************)
ManifestOf(b)   == [kind |-> "manifest", blob |-> b]
ObjectOf(w, c)  == [kind |-> "object", wrapped |-> w, content |-> c]
MetaOf(n, s, m) == [kind |-> "meta", iterations |-> n, salt |-> s, master |-> m]

AnyManifest == [kind : {"manifest"}, blob : AnyBlob]
AnyObject   == [kind : {"object"}, wrapped : AnyBlob, content : AnyBlob]
AnyMeta     == [kind : {"meta"}, iterations : {n \in Nat : MinIterations <= n},
                salt : {s \in Seq(Nat) : Len(s) \in MinSalt .. MaxSalt}, master : AnyBlob]

ManifestCells(v, r) == BlobCells(v.blob, r)
ObjectCells(v, r)   == BlobCells(v.wrapped, BlobCells(v.content, r))
MetaCells(v, r)     == <<v.iterations>> \o Framed(v.salt, BlobCells(v.master, r))

LEMMA ManifestFields ==
  /\ \A b \in AnyBlob : ManifestOf(b) \in AnyManifest /\ ManifestOf(b).blob = b
  /\ \A v \in AnyManifest : v = ManifestOf(v.blob) /\ v.blob \in AnyBlob
BY DEF ManifestOf, AnyManifest

LEMMA ObjectFields ==
  /\ \A w, c \in AnyBlob : /\ ObjectOf(w, c) \in AnyObject
                           /\ ObjectOf(w, c).wrapped = w /\ ObjectOf(w, c).content = c
  /\ \A v \in AnyObject : /\ v = ObjectOf(v.wrapped, v.content)
                          /\ v.wrapped \in AnyBlob /\ v.content \in AnyBlob
BY DEF ObjectOf, AnyObject

LEMMA MetaFields ==
  /\ \A n \in Nat, s \in Seq(Nat), m \in AnyBlob :
       /\ MetaOf(n, s, m).iterations = n /\ MetaOf(n, s, m).salt = s /\ MetaOf(n, s, m).master = m
       /\ MinIterations <= n /\ Len(s) \in MinSalt .. MaxSalt => MetaOf(n, s, m) \in AnyMeta
  /\ \A v \in AnyMeta : /\ v = MetaOf(v.iterations, v.salt, v.master)
                        /\ v.iterations \in Nat /\ MinIterations <= v.iterations
                        /\ v.salt \in Seq(Nat) /\ Len(v.salt) \in MinSalt .. MaxSalt
                        /\ v.master \in AnyBlob
BY DEF MetaOf, AnyMeta

ManifestReads(bytes) ==
  /\ \A o \in ReadManifest(bytes) : \E v \in AnyManifest, r \in Seq(Nat) :
       o = Result(v, r) /\ bytes = ManifestCells(v, r)
  /\ \A v \in AnyManifest, r \in Seq(Nat) :
       bytes = ManifestCells(v, r) => ReadManifest(bytes) = {Result(v, r)}

LEMMA ManifestRead ==
  ASSUME NEW bytes \in Seq(Nat)
  PROVE  ManifestReads(bytes)
<1>1. ReadManifest(bytes) = UNION {{Result(ManifestOf(q.value), q.rest)} : q \in ReadBlob(bytes)}
  BY DEF ReadManifest, Then, Got, Result, ManifestOf
<1>2. BlobReads(bytes)
  BY BlobRead
<1>3. ASSUME NEW o \in ReadManifest(bytes)
      PROVE  \E v \in AnyManifest, r \in Seq(Nat) : o = Result(v, r) /\ bytes = ManifestCells(v, r)
  <2>1. PICK q \in ReadBlob(bytes) : o = Result(ManifestOf(q.value), q.rest)
    BY <1>1, <1>3
  <2>2. PICK b \in AnyBlob, r \in Seq(Nat) : q = Result(b, r) /\ bytes = BlobCells(b, r)
    BY <1>2 DEF BlobReads
  <2>3. PICK v \in AnyManifest : v = ManifestOf(b) /\ v.blob = b
    BY ManifestFields
  <2> QED
    BY <2>1, <2>2, <2>3, ResultFields DEF ManifestCells
<1>4. ASSUME NEW v \in AnyManifest, NEW r \in Seq(Nat), bytes = ManifestCells(v, r)
      PROVE  ReadManifest(bytes) = {Result(v, r)}
  <2>1. PICK b \in AnyBlob : v = ManifestOf(b) /\ b = v.blob
    BY ManifestFields
  <2>2. PICK q : q = Result(b, r)
    OBVIOUS
  <2>3. ReadBlob(bytes) = {q}
    BY <1>2, <1>4, <2>1, <2>2 DEF BlobReads, ManifestCells
  <2>4. ReadManifest(bytes) = {Result(ManifestOf(q.value), q.rest)}
    BY <1>1, <2>3
  <2> QED
    BY <2>1, <2>2, <2>4, ResultFields
<1> QED
  BY <1>3, <1>4 DEF ManifestReads

ObjectReads(bytes) ==
  /\ \A o \in ReadObject(bytes) : \E v \in AnyObject, r \in Seq(Nat) :
       o = Result(v, r) /\ bytes = ObjectCells(v, r)
  /\ \A v \in AnyObject, r \in Seq(Nat) :
       bytes = ObjectCells(v, r) => ReadObject(bytes) = {Result(v, r)}

LEMMA ObjectRead ==
  ASSUME NEW bytes \in Seq(Nat)
  PROVE  ObjectReads(bytes)
<1> DEFINE Behind(w, b) == UNION {{Result(ObjectOf(w, q.value), q.rest)} : q \in ReadBlob(b)}
<1>1. ReadObject(bytes) = UNION {Behind(q.value, q.rest) : q \in ReadBlob(bytes)}
  BY DEF ReadObject, Then, Got, Result, ObjectOf
<1>2. BlobReads(bytes)
  BY BlobRead
<1>3. ASSUME NEW o \in ReadObject(bytes)
      PROVE  \E v \in AnyObject, r \in Seq(Nat) : o = Result(v, r) /\ bytes = ObjectCells(v, r)
  <2>1. PICK q1 \in ReadBlob(bytes) : o \in Behind(q1.value, q1.rest)
    BY <1>1, <1>3
  <2>2. PICK w \in AnyBlob, r1 \in Seq(Nat) : q1 = Result(w, r1) /\ bytes = BlobCells(w, r1)
    BY <1>2 DEF BlobReads
  <2>3. PICK q2 \in ReadBlob(r1) : o = Result(ObjectOf(w, q2.value), q2.rest)
    BY <2>1, <2>2, ResultFields
  <2>4. PICK c \in AnyBlob, r \in Seq(Nat) : q2 = Result(c, r) /\ r1 = BlobCells(c, r)
    BY BlobRead DEF BlobReads
  <2>5. PICK v \in AnyObject : v = ObjectOf(w, c) /\ v.wrapped = w /\ v.content = c
    BY ObjectFields
  <2> QED
    BY <2>2, <2>3, <2>4, <2>5, ResultFields DEF ObjectCells
<1>4. ASSUME NEW v \in AnyObject, NEW r \in Seq(Nat), bytes = ObjectCells(v, r)
      PROVE  ReadObject(bytes) = {Result(v, r)}
  <2>1. PICK w \in AnyBlob, c \in AnyBlob : v = ObjectOf(w, c) /\ w = v.wrapped /\ c = v.content
    BY ObjectFields
  <2>2. PICK r1 \in Seq(Nat) : r1 = BlobCells(c, r)
    BY BlobCellsType
  <2>3. PICK q1, q2 : q1 = Result(w, r1) /\ q2 = Result(c, r)
    OBVIOUS
  <2>4. ReadBlob(bytes) = {q1}
    BY <1>2, <1>4, <2>1, <2>2, <2>3 DEF BlobReads, ObjectCells
  <2>5. ReadBlob(r1) = {q2}
    BY <2>2, <2>3, BlobRead DEF BlobReads
  <2>6. Behind(w, r1) = {Result(ObjectOf(w, q2.value), q2.rest)}
    BY <2>5
  <2> HIDE DEF Behind
  <2>7. ReadObject(bytes) = Behind(q1.value, q1.rest)
    BY <1>1, <2>4
  <2>8. q1.value = w /\ q1.rest = r1 /\ q2.value = c /\ q2.rest = r
    BY <2>3, ResultFields
  <2> QED
    BY <2>1, <2>6, <2>7, <2>8
<1> QED
  BY <1>3, <1>4 DEF ObjectReads

MetaReads(bytes) ==
  /\ \A o \in ReadMeta(bytes) : \E v \in AnyMeta, r \in Seq(Nat) :
       o = Result(v, r) /\ bytes = MetaCells(v, r)
  /\ \A v \in AnyMeta, r \in Seq(Nat) :
       bytes = MetaCells(v, r) => ReadMeta(bytes) = {Result(v, r)}

LEMMA MetaRead ==
  ASSUME NEW bytes \in Seq(Nat)
  PROVE  MetaReads(bytes)
<1> DEFINE Checked(n, s, q) == IF n < MinIterations \/ Len(s) \notin MinSalt .. MaxSalt THEN {}
                               ELSE {Result(MetaOf(n, s, q.value), q.rest)}
           Salted(n, s, b) == UNION {Checked(n, s, q) : q \in ReadBlob(b)}
           Behind(n, b) == UNION {Salted(n, q.value, q.rest) : q \in ReadString(b)}
<1>1. ReadMeta(bytes) = UNION {Behind(q.value, q.rest) : q \in ReadCell(bytes)}
  BY DEF ReadMeta, Then, Got, Result, MetaOf
<1>2. CellReads(bytes) /\ MinIterations \in Nat
  BY CellRead, ConstantsAssumption
<1>3. ASSUME NEW o \in ReadMeta(bytes)
      PROVE  \E v \in AnyMeta, r \in Seq(Nat) : o = Result(v, r) /\ bytes = MetaCells(v, r)
  <2>1. PICK q1 \in ReadCell(bytes) : o \in Behind(q1.value, q1.rest)
    BY <1>1, <1>3
  <2>2. PICK n \in Nat, r1 \in Seq(Nat) : q1 = Result(n, r1) /\ bytes = <<n>> \o r1
    BY <1>2 DEF CellReads
  <2>3. PICK q2 \in ReadString(r1) : o \in Salted(n, q2.value, q2.rest)
    BY <2>1, <2>2, ResultFields
  <2>4. PICK s \in Seq(Nat), r2 \in Seq(Nat) : q2 = Result(s, r2) /\ r1 = Framed(s, r2)
    BY StringRead DEF StringReads
  <2>5. PICK q3 \in ReadBlob(r2) : o \in Checked(n, s, q3)
    BY <2>3, <2>4, ResultFields
  <2>6. PICK m \in AnyBlob, r \in Seq(Nat) : q3 = Result(m, r) /\ r2 = BlobCells(m, r)
    BY BlobRead DEF BlobReads
  <2>7. MinIterations <= n /\ Len(s) \in MinSalt .. MaxSalt /\ o = Result(MetaOf(n, s, q3.value), q3.rest)
    BY <1>2, <2>5
  <2>8. PICK v \in AnyMeta : v = MetaOf(n, s, m) /\ v.iterations = n /\ v.salt = s /\ v.master = m
    BY <2>7, MetaFields
  <2>9. bytes = MetaCells(v, r)
    BY <2>2, <2>4, <2>6, <2>8 DEF MetaCells
  <2> QED
    BY <2>6, <2>7, <2>8, <2>9, ResultFields
<1>4. ASSUME NEW v \in AnyMeta, NEW r \in Seq(Nat), bytes = MetaCells(v, r)
      PROVE  ReadMeta(bytes) = {Result(v, r)}
  <2>1. PICK n \in Nat, s \in Seq(Nat), m \in AnyBlob :
          /\ v = MetaOf(n, s, m) /\ n = v.iterations /\ s = v.salt /\ m = v.master
          /\ MinIterations <= n /\ Len(s) \in MinSalt .. MaxSalt
    BY MetaFields
  <2>2. PICK r2 \in Seq(Nat) : r2 = BlobCells(m, r)
    BY BlobCellsType
  <2>3. PICK r1 \in Seq(Nat) : r1 = Framed(s, r2)
    BY FramedType
  <2>4. bytes = <<n>> \o r1
    BY <1>4, <2>1, <2>2, <2>3 DEF MetaCells
  <2>5. PICK q1, q2, q3 : q1 = Result(n, r1) /\ q2 = Result(s, r2) /\ q3 = Result(m, r)
    OBVIOUS
  <2>6. ReadCell(bytes) = {q1}
    BY <1>2, <2>4, <2>5 DEF CellReads
  <2>7. ReadString(r1) = {q2}
    BY <2>3, <2>5, StringRead DEF StringReads
  <2>8. ReadBlob(r2) = {q3}
    BY <2>2, <2>5, BlobRead DEF BlobReads
  <2>9. /\ q1.value = n /\ q1.rest = r1 /\ q2.value = s /\ q2.rest = r2
        /\ q3.value = m /\ q3.rest = r
    BY <2>5, ResultFields
  <2>10. Checked(n, s, q3) = {Result(MetaOf(n, s, q3.value), q3.rest)}
    BY <1>2, <2>1
  <2> HIDE DEF Checked
  <2>11. Salted(n, s, r2) = Checked(n, s, q3)
    BY <2>8
  <2> HIDE DEF Salted
  <2>12. Behind(n, r1) = Salted(n, q2.value, q2.rest)
    BY <2>7
  <2> HIDE DEF Behind
  <2>13. ReadMeta(bytes) = Behind(q1.value, q1.rest)
    BY <1>1, <2>6
  <2> QED
    BY <2>1, <2>9, <2>10, <2>11, <2>12, <2>13
<1> QED
  BY <1>3, <1>4 DEF MetaReads

\* A file is the magic of its kind, and a body.
AnyFile == AnyManifest \cup AnyObject \cup AnyMeta
BodyCells(v, r) ==
  IF v.kind = "manifest" THEN ManifestCells(v, r)
  ELSE IF v.kind = "object" THEN ObjectCells(v, r) ELSE MetaCells(v, r)
MagicCell(kind) == Magic[kind][1]
FileCells(v, r) == <<MagicCell(v.kind)>> \o BodyCells(v, r)

FileKinds == {"manifest", "object", "meta"}

LEMMA MagicIs ==
  /\ \A kind \in {"list", "manifest", "object", "meta"} :
       MagicCell(kind) \in Nat /\ Magic[kind] = <<MagicCell(kind)>>
  /\ \A k1, k2 \in {"list", "manifest", "object", "meta"} : MagicCell(k1) = MagicCell(k2) => k1 = k2
BY DEF Magic, MagicCell

LEMMA KindOf ==
  ASSUME NEW v \in AnyFile
  PROVE  /\ v.kind \in FileKinds
         /\ v.kind = "manifest" <=> v \in AnyManifest
         /\ v.kind = "object" <=> v \in AnyObject
         /\ v.kind = "meta" <=> v \in AnyMeta
BY DEF AnyFile, AnyManifest, AnyObject, AnyMeta, FileKinds

LEMMA BodyCellsType ==
  ASSUME NEW v \in AnyFile, NEW r \in Seq(Nat)
  PROVE  BodyCells(v, r) \in Seq(Nat)
<1>1. CASE v \in AnyManifest
  BY <1>1, KindOf, ManifestFields, BlobCellsType DEF BodyCells, ManifestCells
<1>2. CASE v \in AnyObject
  <2>1. v.wrapped \in AnyBlob /\ v.content \in AnyBlob
    BY <1>2, ObjectFields
  <2>2. BlobCells(v.content, r) \in Seq(Nat)
    BY <2>1, BlobCellsType
  <2>3. BodyCells(v, r) = ObjectCells(v, r)
    BY <1>2, KindOf DEF BodyCells
  <2> QED
    BY <2>1, <2>2, <2>3, BlobCellsType DEF ObjectCells
<1>3. CASE v \in AnyMeta
  <2>1. v.iterations \in Nat /\ v.salt \in Seq(Nat) /\ v.master \in AnyBlob
    BY <1>3, MetaFields
  <2>2. Framed(v.salt, BlobCells(v.master, r)) \in Seq(Nat)
    BY <2>1, BlobCellsType, FramedType
  <2>3. BodyCells(v, r) = MetaCells(v, r)
    BY <1>3, KindOf DEF BodyCells
  <2> QED
    BY <2>1, <2>2, <2>3, Fronted DEF MetaCells
<1> QED
  BY <1>1, <1>2, <1>3 DEF AnyFile

BodyReads(kind, bytes) ==
  /\ \A o \in ReadBody(kind, bytes) : \E v \in AnyFile, r \in Seq(Nat) :
       o = Result(v, r) /\ v.kind = kind /\ bytes = BodyCells(v, r)
  /\ \A v \in AnyFile, r \in Seq(Nat) :
       v.kind = kind /\ bytes = BodyCells(v, r) => ReadBody(kind, bytes) = {Result(v, r)}

LEMMA BodyRead ==
  ASSUME NEW kind \in FileKinds, NEW bytes \in Seq(Nat)
  PROVE  BodyReads(kind, bytes)
<1>1. CASE kind = "manifest"
  <2>1. ReadBody(kind, bytes) = ReadManifest(bytes)
    BY <1>1 DEF ReadBody
  <2>2. \A v \in AnyManifest : v \in AnyFile /\ v.kind = kind /\ \A r : BodyCells(v, r) = ManifestCells(v, r)
    BY <1>1 DEF AnyFile, AnyManifest, BodyCells
  <2>3. \A v \in AnyFile : v.kind = kind => v \in AnyManifest
    BY <1>1, KindOf
  <2> QED
    BY <2>1, <2>2, <2>3, ManifestRead DEF ManifestReads, BodyReads
<1>2. CASE kind = "object"
  <2>1. ReadBody(kind, bytes) = ReadObject(bytes)
    BY <1>2 DEF ReadBody
  <2>2. \A v \in AnyObject : v \in AnyFile /\ v.kind = kind /\ \A r : BodyCells(v, r) = ObjectCells(v, r)
    BY <1>2 DEF AnyFile, AnyObject, BodyCells
  <2>3. \A v \in AnyFile : v.kind = kind => v \in AnyObject
    BY <1>2, KindOf
  <2> QED
    BY <2>1, <2>2, <2>3, ObjectRead DEF ObjectReads, BodyReads
<1>3. CASE kind = "meta"
  <2>1. ReadBody(kind, bytes) = ReadMeta(bytes)
    BY <1>3 DEF ReadBody
  <2>2. \A v \in AnyMeta : v \in AnyFile /\ v.kind = kind /\ \A r : BodyCells(v, r) = MetaCells(v, r)
    BY <1>3 DEF AnyFile, AnyMeta, BodyCells
  <2>3. \A v \in AnyFile : v.kind = kind => v \in AnyMeta
    BY <1>3, KindOf
  <2> QED
    BY <2>1, <2>2, <2>3, MetaRead DEF MetaReads, BodyReads
<1> QED
  BY <1>1, <1>2, <1>3 DEF FileKinds

\* The magic decides whether a body is read, and the body must end the file.
BodyBehindMagic(kind, bytes) ==
  /\ \A v \in Parsed(kind, bytes) : \E t \in Seq(Nat) :
       bytes = <<MagicCell(kind)>> \o t /\ v \in Whole(ReadBody(kind, t))
  /\ \A t \in Seq(Nat) :
       bytes = <<MagicCell(kind)>> \o t => Parsed(kind, bytes) = Whole(ReadBody(kind, t))

LEMMA ParsedBody ==
  ASSUME NEW kind \in {"list", "manifest", "object", "meta"}, NEW bytes \in Seq(Nat)
  PROVE  BodyBehindMagic(kind, bytes)
<1> DEFINE Opened(q) == IF q.value = Magic[kind] THEN ReadBody(kind, q.rest) ELSE {}
           all == UNION {Opened(q) : q \in ReadSpan(bytes, 1)}
<1>1. Parsed(kind, bytes) = Whole(all)
  BY DEF Parsed, Then
<1>2. SpanReads(bytes, 1)
  BY SpanRead
<1>3. MagicCell(kind) \in Nat /\ Magic[kind] = <<MagicCell(kind)>>
  BY MagicIs
<1>4. ASSUME NEW v \in Parsed(kind, bytes)
      PROVE  \E t \in Seq(Nat) :
               bytes = <<MagicCell(kind)>> \o t /\ v \in Whole(ReadBody(kind, t))
  <2>1. PICK o \in all : o.rest = <<>> /\ v = o.value
    BY <1>1, <1>4 DEF Whole
  <2>2. PICK q \in ReadSpan(bytes, 1) : o \in Opened(q)
    BY <2>1
  <2>3. PICK s \in Seq(Nat), t \in Seq(Nat) : q = Result(s, t) /\ bytes = s \o t
    BY <1>2 DEF SpanReads
  <2>4. s = Magic[kind] /\ o \in ReadBody(kind, t)
    BY <2>2, <2>3, ResultFields
  <2> QED
    BY <1>3, <2>1, <2>3, <2>4 DEF Whole
<1>5. ASSUME NEW t \in Seq(Nat), bytes = <<MagicCell(kind)>> \o t
      PROVE  Parsed(kind, bytes) = Whole(ReadBody(kind, t))
  <2>1. PICK s \in Seq(Nat) : s = <<MagicCell(kind)>> /\ Len(s) = 1
    BY <1>3, Single
  <2>2. PICK q : q = Result(s, t)
    OBVIOUS
  <2>3. ReadSpan(bytes, 1) = {q}
    BY <1>2, <1>5, <2>1, <2>2 DEF SpanReads
  <2>4. Opened(q) = ReadBody(kind, t)
    BY <1>3, <2>1, <2>2, ResultFields
  <2> HIDE DEF Opened
  <2>5. all = Opened(q)
    BY <2>3
  <2> QED
    BY <1>1, <2>4, <2>5
<1> QED
  BY <1>4, <1>5 DEF BodyBehindMagic

\* A parser accepts the cells of a file that end with it, and no others.
ParsesAs(kind, bytes) ==
  /\ \A v \in Parsed(kind, bytes) : v \in AnyFile /\ v.kind = kind /\ bytes = FileCells(v, <<>>)
  /\ \A v \in AnyFile, r \in Seq(Nat) :
       v.kind = kind /\ bytes = FileCells(v, r) =>
         Parsed(kind, bytes) = IF r = <<>> THEN {v} ELSE {}

LEMMA ParsedFile ==
  ASSUME NEW kind \in FileKinds, NEW bytes \in Seq(Nat)
  PROVE  ParsesAs(kind, bytes)
<1>1. kind \in {"list", "manifest", "object", "meta"}
  BY DEF FileKinds
<1>2. ASSUME NEW v \in Parsed(kind, bytes)
      PROVE  v \in AnyFile /\ v.kind = kind /\ bytes = FileCells(v, <<>>)
  <2>1. PICK t \in Seq(Nat) : bytes = <<MagicCell(kind)>> \o t /\ v \in Whole(ReadBody(kind, t))
    <3>1. BodyBehindMagic(kind, bytes)
      BY <1>1, ParsedBody
    <3> QED
      BY <1>2, <3>1 DEF BodyBehindMagic
  <2>2. PICK o \in ReadBody(kind, t) : o.rest = <<>> /\ v = o.value
    BY <2>1 DEF Whole
  <2>3. PICK w \in AnyFile, r \in Seq(Nat) : o = Result(w, r) /\ w.kind = kind /\ t = BodyCells(w, r)
    BY BodyRead DEF BodyReads
  <2>4. w = v /\ r = <<>>
    BY <2>2, <2>3, ResultFields
  <2> QED
    BY <2>1, <2>3, <2>4 DEF FileCells
<1>3. ASSUME NEW v \in AnyFile, NEW r \in Seq(Nat), v.kind = kind, bytes = FileCells(v, r)
      PROVE  Parsed(kind, bytes) = IF r = <<>> THEN {v} ELSE {}
  <2>1. PICK t \in Seq(Nat) : t = BodyCells(v, r)
    BY BodyCellsType
  <2>2. Parsed(kind, bytes) = Whole(ReadBody(kind, t))
    BY <1>1, <1>3, <2>1, ParsedBody DEF BodyBehindMagic, FileCells
  <2>3. PICK o : o = Result(v, r)
    OBVIOUS
  <2>4. ReadBody(kind, t) = {o}
    BY <1>3, <2>1, <2>3, BodyRead DEF BodyReads
  <2>5. o.value = v /\ o.rest = r
    BY <2>3, ResultFields
  <2>6. CASE r = <<>>
    BY <2>2, <2>4, <2>5, <2>6 DEF Whole
  <2>7. CASE r # <<>>
    BY <2>2, <2>4, <2>5, <2>7 DEF Whole
  <2> QED
    BY <2>6, <2>7
<1> QED
  BY <1>2, <1>3 DEF ParsesAs

-----------------------------------------------------------------------------
(***************************************************************************)
(* What the program writes, as long as no length is cut to its field.      *)
(***************************************************************************)
FitsBlob(x) == Len(x.ciphertext) < Word
Fits(v) ==
  /\ v.kind = "manifest" => FitsBlob(v.blob)
  /\ v.kind = "object" => FitsBlob(v.wrapped) /\ FitsBlob(v.content)
  /\ v.kind = "meta" => v.iterations < Word /\ Len(v.salt) < Word /\ FitsBlob(v.master)

\* Three sequences in front of a fourth.
RegroupsFour(a, b, c, d) == ((a \o b) \o c) \o d = a \o (b \o (c \o d))

LEMMA FourRegroup ==
  ASSUME NEW S, NEW a \in Seq(S), NEW b \in Seq(S), NEW c \in Seq(S), NEW d \in Seq(S)
  PROVE  RegroupsFour(a, b, c, d)
<1>1. PICK x \in Seq(S) : x = a \o b
  BY ConcatProperties
<1>2. PICK y \in Seq(S) : y = c \o d
  BY ConcatProperties
<1>3. Regroups(x, c, d) /\ Regroups(a, b, y)
  BY Associative
<1> QED
  BY <1>1, <1>2, <1>3 DEF Regroups, RegroupsFour

LEMMA WholeNumber ==
  ASSUME NEW n \in Nat, n < Word
  PROVE  AppendU32(n) = <<n>>
BY ConstantsAssumption DEF AppendU32

\* A string, and what follows it.
LEMMA StringWritten ==
  ASSUME NEW s \in Seq(Nat), NEW r \in Seq(Nat), Len(s) < Word
  PROVE  AppendString(s) \in Seq(Nat) /\ AppendString(s) \o r = Framed(s, r)
<1>1. PICK n \in Nat : n = Len(s)
  BY LenProperties
<1>2. PICK l \in Seq(Nat) : l = <<n>>
  BY Single
<1>3. AppendString(s) = l \o s
  BY <1>1, <1>2, WholeNumber DEF AppendString
<1>4. Regroups(l, s, r)
  BY Associative
<1> QED
  BY <1>1, <1>2, <1>3, <1>4, ConcatProperties DEF Regroups, Framed

LEMMA BlobWritten ==
  ASSUME NEW x \in AnyBlob, NEW r \in Seq(Nat), FitsBlob(x)
  PROVE  AppendBlob(x) \in Seq(Nat) /\ AppendBlob(x) \o r = BlobCells(x, r)
<1>1. PICK n \in Nat, c \in Seq(Nat), t \in Nat : n = x.nonce /\ c = x.ciphertext /\ t = x.tag
  BY BlobFields
<1>2. PICK k \in Nat : k = Len(c)
  BY LenProperties
<1>3. PICK a \in Seq(Nat), l \in Seq(Nat), d \in Seq(Nat) : a = <<n>> /\ l = <<k>> /\ d = <<t>>
  BY Single
<1>4. AppendBlob(x) = ((a \o l) \o c) \o d
  BY <1>1, <1>2, <1>3, WholeNumber DEF AppendBlob, FitsBlob
<1>5. PICK y \in Seq(Nat) : y = d \o r
  BY ConcatProperties
<1>6. PICK z \in Seq(Nat) : z = (a \o l) \o c
  <2>1. PICK u \in Seq(Nat) : u = a \o l
    BY ConcatProperties
  <2>2. u \o c \in Seq(Nat)
    BY ConcatProperties
  <2> QED
    BY <2>1, <2>2
<1>7. AppendBlob(x) \in Seq(Nat)
  BY <1>4, <1>6, ConcatProperties
<1>8. AppendBlob(x) \o r = a \o (l \o (c \o y))
  <2>1. Regroups(z, d, r)
    BY Associative
  <2>2. RegroupsFour(a, l, c, y)
    BY FourRegroup
  <2> QED
    BY <1>4, <1>5, <1>6, <2>1, <2>2 DEF Regroups, RegroupsFour
<1> QED
  BY <1>1, <1>2, <1>3, <1>5, <1>7, <1>8 DEF BlobCells, Framed

\* A file, and what may follow it.
LEMMA FileWritten ==
  ASSUME NEW v \in AnyFile, Fits(v), NEW r \in Seq(Nat)
  PROVE  Serialized(v) \in Seq(Nat) /\ Serialized(v) \o r = FileCells(v, r)
<1>1. PICK m \in Seq(Nat) : m = <<MagicCell(v.kind)>> /\ Magic[v.kind] = m
  <2>1. v.kind \in {"list", "manifest", "object", "meta"}
    BY KindOf DEF FileKinds
  <2>2. MagicCell(v.kind) \in Nat /\ Magic[v.kind] = <<MagicCell(v.kind)>>
    BY <2>1, MagicIs
  <2> QED
    BY <2>2, Single
<1>2. ASSUME NEW b \in Seq(Nat), Serialized(v) = m \o b, b \o r = BodyCells(v, r)
      PROVE  Serialized(v) \in Seq(Nat) /\ Serialized(v) \o r = FileCells(v, r)
  <2>1. Regroups(m, b, r)
    BY Associative
  <2> QED
    BY <1>1, <1>2, <2>1, ConcatProperties DEF Regroups, FileCells
<1>3. CASE v.kind = "manifest"
  <2>1. v.blob \in AnyBlob /\ FitsBlob(v.blob) /\ BodyCells(v, r) = BlobCells(v.blob, r)
    BY <1>3, KindOf, ManifestFields DEF Fits, BodyCells, ManifestCells
  <2>2. Serialized(v) = m \o AppendBlob(v.blob)
    BY <1>1, <1>3 DEF Serialized
  <2> QED
    BY <1>2, <2>1, <2>2, BlobWritten
<1>4. CASE v.kind = "object"
  <2>1. /\ v.wrapped \in AnyBlob /\ FitsBlob(v.wrapped) /\ v.content \in AnyBlob /\ FitsBlob(v.content)
        /\ BodyCells(v, r) = BlobCells(v.wrapped, BlobCells(v.content, r))
    BY <1>4, KindOf, ObjectFields DEF Fits, BodyCells, ObjectCells
  <2>2. Serialized(v) = m \o (AppendBlob(v.wrapped) \o AppendBlob(v.content))
    BY <1>1, <1>4 DEF Serialized
  <2>3. PICK c \in Seq(Nat) : c = AppendBlob(v.content) /\ c \o r = BlobCells(v.content, r)
    BY <2>1, BlobWritten
  <2>4. BlobCells(v.content, r) \in Seq(Nat)
    BY <2>1, BlobCellsType
  <2>5. PICK w \in Seq(Nat) : /\ w = AppendBlob(v.wrapped)
                              /\ w \o BlobCells(v.content, r) = BodyCells(v, r)
    BY <2>1, <2>4, BlobWritten
  <2>6. w \o c \in Seq(Nat) /\ Regroups(w, c, r)
    BY ConcatProperties, Associative
  <2> QED
    BY <1>2, <2>2, <2>3, <2>5, <2>6 DEF Regroups
<1>5. CASE v.kind = "meta"
  <2>1. /\ v.iterations \in Nat /\ v.iterations < Word /\ v.salt \in Seq(Nat) /\ Len(v.salt) < Word
        /\ v.master \in AnyBlob /\ FitsBlob(v.master)
        /\ BodyCells(v, r) = <<v.iterations>> \o Framed(v.salt, BlobCells(v.master, r))
    BY <1>5, KindOf, MetaFields DEF Fits, BodyCells, MetaCells
  <2>2. PICK n \in Seq(Nat) : n = <<v.iterations>> /\ AppendU32(v.iterations) = n
    BY <2>1, Single, WholeNumber
  <2>3. PICK b \in Seq(Nat) : b = AppendBlob(v.master) /\ b \o r = BlobCells(v.master, r)
    BY <2>1, BlobWritten
  <2>4. BlobCells(v.master, r) \in Seq(Nat)
    BY <2>1, BlobCellsType
  <2>5. PICK s \in Seq(Nat) : /\ s = AppendString(v.salt)
                              /\ s \o BlobCells(v.master, r) = Framed(v.salt, BlobCells(v.master, r))
    BY <2>1, <2>4, StringWritten
  <2>6. Serialized(v) = m \o ((n \o s) \o b)
    BY <1>1, <1>5, <2>2, <2>3, <2>5 DEF Serialized
  <2>7. (n \o s) \o b \in Seq(Nat)
    <3>1. PICK u \in Seq(Nat) : u = n \o s
      BY ConcatProperties
    <3>2. u \o b \in Seq(Nat)
      BY ConcatProperties
    <3> QED
      BY <3>1, <3>2
  <2>8. RegroupsFour(n, s, b, r)
    BY FourRegroup
  <2> QED
    BY <1>2, <2>1, <2>2, <2>3, <2>5, <2>6, <2>7, <2>8 DEF RegroupsFour
<1> QED
  BY <1>3, <1>4, <1>5, KindOf DEF FileKinds

-----------------------------------------------------------------------------
(***************************************************************************)
(* A file with a torn or an added end is not one the parser accepts.       *)
(***************************************************************************)

\* What follows the cells of a part is behind them, whatever is behind that.
FramedSplits(s, a, r) == Framed(s, a) \o r = Framed(s, a \o r)

LEMMA FramedSplit ==
  ASSUME NEW s \in Seq(Nat), NEW a \in Seq(Nat), NEW r \in Seq(Nat)
  PROVE  FramedSplits(s, a, r)
<1>1. PICK l \in Seq(Nat) : l = <<Len(s)>>
  BY LenProperties, Single
<1>2. s \o a \in Seq(Nat)
  BY ConcatProperties
<1>3. Regroups(l, s \o a, r) /\ Regroups(s, a, r)
  BY <1>2, Associative
<1> QED
  BY <1>1, <1>3 DEF Regroups, Framed, FramedSplits

LEMMA FrontSplit ==
  ASSUME NEW c \in Nat, NEW a \in Seq(Nat), NEW r \in Seq(Nat)
  PROVE  (<<c>> \o a) \o r = <<c>> \o (a \o r)
<1>1. PICK l \in Seq(Nat) : l = <<c>>
  BY Single
<1>2. Regroups(l, a, r)
  BY Associative
<1> QED
  BY <1>1, <1>2 DEF Regroups

LEMMA BlobSplit ==
  ASSUME NEW x \in AnyBlob, NEW a \in Seq(Nat), NEW r \in Seq(Nat)
  PROVE  BlobCells(x, a) \o r = BlobCells(x, a \o r)
<1>1. PICK n \in Nat, c \in Seq(Nat), t \in Nat : n = x.nonce /\ c = x.ciphertext /\ t = x.tag
  BY BlobFields
<1>2. PICK y \in Seq(Nat) : y = <<t>> \o a
  BY Fronted
<1>3. PICK z \in Seq(Nat) : z = Framed(c, y)
  BY FramedType
<1>4. y \o r = <<t>> \o (a \o r)
  BY <1>2, FrontSplit
<1>5. z \o r = Framed(c, y \o r)
  <2>1. Framed(c, y) \o r = Framed(c, y \o r)
    BY FramedSplit DEF FramedSplits
  <2> QED
    BY <1>3, <2>1
<1>6. (<<n>> \o z) \o r = <<n>> \o (z \o r)
  BY FrontSplit
<1> QED
  BY <1>1, <1>2, <1>3, <1>4, <1>5, <1>6 DEF BlobCells

LEMMA FileSplit ==
  ASSUME NEW v \in AnyFile, NEW r \in Seq(Nat)
  PROVE  FileCells(v, <<>>) \o r = FileCells(v, r)
<1>0. <<>> \in Seq(Nat) /\ <<>> \o r = r
  BY ConcatEmptySeq
<1>1. BodyCells(v, <<>>) \o r = BodyCells(v, r)
  <2>1. CASE v \in AnyManifest
    <3>1. v.blob \in AnyBlob /\ \A q : BodyCells(v, q) = BlobCells(v.blob, q)
      BY <2>1, KindOf, ManifestFields DEF BodyCells, ManifestCells
    <3>2. BlobCells(v.blob, <<>>) \o r = BlobCells(v.blob, <<>> \o r)
      BY <1>0, <3>1, BlobSplit
    <3> QED
      BY <1>0, <3>1, <3>2
  <2>2. CASE v \in AnyObject
    <3>1. PICK w \in AnyBlob, c \in AnyBlob : w = v.wrapped /\ c = v.content
      BY <2>2, ObjectFields
    <3>2. \A q : BodyCells(v, q) = BlobCells(w, BlobCells(c, q))
      BY <2>2, <3>1, KindOf DEF BodyCells, ObjectCells
    <3>3. PICK a \in Seq(Nat) : a = BlobCells(c, <<>>)
      BY <1>0, BlobCellsType
    <3>4. BlobCells(w, a) \o r = BlobCells(w, a \o r)
      BY BlobSplit
    <3>5. a \o r = BlobCells(c, <<>> \o r)
      BY <1>0, <3>3, BlobSplit
    <3> QED
      BY <1>0, <3>2, <3>3, <3>4, <3>5
  <2>3. CASE v \in AnyMeta
    <3>1. PICK n \in Nat, s \in Seq(Nat), m \in AnyBlob : n = v.iterations /\ s = v.salt /\ m = v.master
      BY <2>3, MetaFields
    <3>2. \A q : BodyCells(v, q) = <<n>> \o Framed(s, BlobCells(m, q))
      BY <2>3, <3>1, KindOf DEF BodyCells, MetaCells
    <3>3. PICK a \in Seq(Nat) : a = BlobCells(m, <<>>)
      BY <1>0, BlobCellsType
    <3>4. a \o r = BlobCells(m, <<>> \o r)
      BY <1>0, <3>3, BlobSplit
    <3>5. PICK f \in Seq(Nat) : f = Framed(s, a)
      BY FramedType
    <3>6. f \o r = Framed(s, a \o r)
      <4>1. FramedSplits(s, a, r)
        BY FramedSplit
      <4> QED
        BY <3>5, <4>1 DEF FramedSplits
    <3>7. (<<n>> \o f) \o r = <<n>> \o (f \o r)
      BY FrontSplit
    <3> QED
      BY <1>0, <3>2, <3>3, <3>4, <3>5, <3>6, <3>7
  <2> QED
    BY <2>1, <2>2, <2>3 DEF AnyFile
<1>2. PICK b \in Seq(Nat) : b = BodyCells(v, <<>>)
  BY <1>0, BodyCellsType
<1>3. MagicCell(v.kind) \in Nat
  BY KindOf, MagicIs DEF FileKinds
<1>4. (<<MagicCell(v.kind)>> \o b) \o r = <<MagicCell(v.kind)>> \o (b \o r)
  BY <1>3, FrontSplit
<1> QED
  BY <1>1, <1>2, <1>4 DEF FileCells

\* What was written is read, and nothing is read of a part of it, or of it and
\* cells behind it.
LEMMA OnlyWholeFile ==
  ASSUME NEW v \in AnyFile, Fits(v)
  PROVE  /\ Serialized(v) \in Seq(Nat) /\ Parsed(v.kind, Serialized(v)) = {v}
         /\ \A end \in Seq(Nat) : end # <<>> => Parsed(v.kind, Serialized(v) \o end) = {}
         /\ \A head, tail \in Seq(Nat) :
              Serialized(v) = head \o tail /\ tail # <<>> => Parsed(v.kind, head) = {}
<1>1. <<>> \in Seq(Nat) /\ v.kind \in FileKinds
  BY KindOf
<1>2. PICK f \in Seq(Nat) : f = Serialized(v)
  BY <1>1, FileWritten
<1>3. f = FileCells(v, <<>>) /\ \A r \in Seq(Nat) : f \o r = FileCells(v, r)
  <2>1. \A r \in Seq(Nat) : f \o r = FileCells(v, r)
    BY <1>2, FileWritten
  <2>2. f \o <<>> = f
    BY ConcatEmptySeq
  <2> QED
    BY <1>1, <2>1, <2>2
<1>4. Parsed(v.kind, f) = {v}
  BY <1>1, <1>3, ParsedFile DEF ParsesAs
<1>5. ASSUME NEW end \in Seq(Nat), end # <<>>
      PROVE  Parsed(v.kind, f \o end) = {}
  <2>1. PICK g \in Seq(Nat) : g = f \o end
    BY ConcatProperties
  <2>2. g = FileCells(v, end)
    BY <1>3, <2>1
  <2> QED
    BY <1>1, <1>5, <2>1, <2>2, ParsedFile DEF ParsesAs
<1>6. ASSUME NEW head \in Seq(Nat), NEW tail \in Seq(Nat), f = head \o tail, tail # <<>>
      PROVE  Parsed(v.kind, head) = {}
  <2>1. SUFFICES ASSUME NEW w \in Parsed(v.kind, head)
                 PROVE  FALSE
    OBVIOUS
  <2>2. w \in AnyFile /\ w.kind = v.kind /\ head = FileCells(w, <<>>)
    BY <1>1, <2>1, ParsedFile DEF ParsesAs
  <2>3. f = FileCells(w, tail)
    BY <1>6, <2>2, FileSplit
  <2>4. Parsed(v.kind, f) = {}
    <3>1. ParsesAs(v.kind, f)
      BY <1>1, ParsedFile
    <3> QED
      BY <1>6, <2>2, <2>3, <3>1 DEF ParsesAs
  <2> QED
    BY <1>4, <2>4
<1> QED
  BY <1>2, <1>4, <1>5, <1>6

-----------------------------------------------------------------------------
(***************************************************************************)
(* The authenticated data of a blob says what it seals.                    *)
(***************************************************************************)
LEMMA FramedOnce ==
  ASSUME NEW s1 \in Seq(Nat), NEW s2 \in Seq(Nat), NEW r1 \in Seq(Nat), NEW r2 \in Seq(Nat),
         Framed(s1, r1) = Framed(s2, r2)
  PROVE  s1 = s2 /\ r1 = r2
<1>1. PICK b \in Seq(Nat) : b = Framed(s1, r1)
  BY FramedType
<1>2. PICK q1, q2 : q1 = Result(s1, r1) /\ q2 = Result(s2, r2)
  OBVIOUS
<1>3. ReadString(b) = {q1} /\ ReadString(b) = {q2}
  BY <1>1, <1>2, StringRead DEF StringReads
<1>4. q1 = q2
  BY <1>3
<1>5. q1.value = s1 /\ q1.rest = r1 /\ q2.value = s2 /\ q2.rest = r2
  BY <1>2, ResultFields
<1> QED
  BY <1>4, <1>5

LEMMA FrontOnce ==
  ASSUME NEW b \in Seq(Nat), NEW c1 \in Nat, NEW c2 \in Nat, NEW r1 \in Seq(Nat), NEW r2 \in Seq(Nat),
         b = <<c1>> \o r1, b = <<c2>> \o r2
  PROVE  c1 = c2 /\ r1 = r2
<1>2. PICK q1, q2 : q1 = Result(c1, r1) /\ q2 = Result(c2, r2)
  OBVIOUS
<1>3. ReadCell(b) = {q1} /\ ReadCell(b) = {q2}
  <2>1. CellReads(b)
    BY CellRead
  <2> QED
    BY <1>2, <2>1 DEF CellReads
<1>4. q1 = q2
  BY <1>3
<1>5. q1.value = c1 /\ q1.rest = r1 /\ q2.value = c2 /\ q2.rest = r2
  BY <1>2, ResultFields
<1> QED
  BY <1>4, <1>5

LEMMA EntryOnce ==
  ASSUME NEW e1 \in AnyEntry, NEW e2 \in AnyEntry, NEW r1 \in Seq(Nat), NEW r2 \in Seq(Nat),
         EntryCells(e1, r1) = EntryCells(e2, r2)
  PROVE  e1 = e2 /\ r1 = r2
<1>1. PICK b \in Seq(Nat) : b = EntryCells(e1, r1)
  BY EntryCellsType
<1>2. PICK q1, q2 : q1 = Result(e1, r1) /\ q2 = Result(e2, r2)
  OBVIOUS
<1>3. ReadEntry(b) = {q1} /\ ReadEntry(b) = {q2}
  BY <1>1, <1>2, EntryRead DEF EntryReads
<1>4. q1 = q2
  BY <1>3
<1>5. q1.value = e1 /\ q1.rest = r1 /\ q2.value = e2 /\ q2.rest = r2
  BY <1>2, ResultFields
<1> QED
  BY <1>4, <1>5

LEMMA Naturals ==
  /\ Byte \subseteq Nat /\ Byte \subseteq 0 .. Word - 1
  /\ Word \in Nat /\ MaxEntries \in Nat /\ MinIterations \in Nat /\ MinSalt \in Nat /\ MaxSalt \in Nat
  /\ MaxFileBytes \in Nat /\ MaxString \in Nat /\ MaxList \in Nat /\ MaxContent \in Nat
BY ConstantsAssumption

\* A bounded sequence.
LEMMA BoundedType ==
  ASSUME NEW S, NEW n \in Nat, NEW s \in BoundedSeq(S, n)
  PROVE  s \in Seq(S) /\ Len(s) \in 0 .. n
<1>1. s \in UNION {[1 .. m -> S] : m \in 0 .. n}
  BY DEF BoundedSeq, SeqOf
<1>2. PICK m \in 0 .. n : s \in [1 .. m -> S]
  BY <1>1
<1>3. s \in UNION {[1 .. k -> S] : k \in Nat}
  BY <1>2
<1>4. s \in Seq(S)
  BY <1>3, SeqDef
<1>5. Len(s) = m
  BY <1>2, <1>4, LenProperties
<1> QED
  BY <1>2, <1>4, <1>5

LEMMA StringsType ==
  ASSUME NEW lo \in Nat, NEW hi \in Nat, NEW s \in Strings(lo, hi)
  PROVE  /\ s \in Seq(Byte) /\ s \in Seq(Nat) /\ Len(s) \in Nat
         /\ lo <= Len(s) /\ Len(s) <= hi
         /\ lo # 0 => s # <<>>
<1>1. s \in BoundedSeq(Byte, hi) /\ s \notin BoundedSeq(Byte, lo - 1)
  BY DEF Strings
<1>2. s \in Seq(Byte) /\ Len(s) \in 0 .. hi
  BY <1>1, BoundedType
<1>3. s \in Seq(Nat)
  BY <1>2, Naturals, SeqMonotonic
<1>4. lo <= Len(s)
  <2>1. SUFFICES ASSUME Len(s) < lo PROVE FALSE
    BY <1>2
  <2>2. s \in [1 .. Len(s) -> Byte] /\ Len(s) \in 0 .. lo - 1
    BY <1>2, <2>1, LenProperties
  <2>3. s \in UNION {[1 .. m -> Byte] : m \in 0 .. lo - 1}
    BY <2>2
  <2> QED
    BY <1>1, <2>3 DEF BoundedSeq, SeqOf
<1>5. lo # 0 => s # <<>>
  <2>1. s = <<>> => Len(s) = 0
    BY EmptySeq
  <2> QED
    BY <1>2, <1>4, <2>1
<1> QED
  BY <1>2, <1>3, <1>4, <1>5

LEMMA EntryType ==
  ASSUME LengthsFit, NEW e \in Entry
  PROVE  /\ e \in AnyEntry /\ Len(e.id) < Word /\ Len(e.name) < Word /\ Len(e.id) \in Nat
         /\ e.id \in Seq(Nat) /\ e.name \in Seq(Nat) /\ e.size \in Nat
<1>1. /\ e.id \in Strings(1, MaxString) /\ e.name \in Strings(1, MaxString)
      /\ e.size \in Nat /\ e.added_unix_seconds \in Nat
  BY DEF Entry, Number
<1>2. /\ e.id \in Seq(Nat) /\ Len(e.id) \in Nat /\ Len(e.id) <= MaxString /\ e.id # <<>>
      /\ e.name \in Seq(Nat) /\ Len(e.name) \in Nat /\ Len(e.name) <= MaxString /\ e.name # <<>>
  BY <1>1, StringsType, Naturals
<1>3. e = EntryOf(e.id, e.name, e.size, e.added_unix_seconds)
  BY DEF Entry, EntryOf
<1>4. e \in AnyEntry
  <2>1. e.id \in Seq(Nat) \ {<<>>} /\ e.name \in Seq(Nat) \ {<<>>}
    BY <1>2
  <2>2. EntryOf(e.id, e.name, e.size, e.added_unix_seconds) \in AnyEntry
    BY <1>1, <2>1, EntryMade
  <2> QED
    BY <1>3, <2>2, Zenon
<1> QED
  BY <1>1, <1>2, <1>4, Naturals DEF LengthsFit

\* An entry as it is written, and what follows it.
LEMMA EntryWritten ==
  ASSUME NEW e \in AnyEntry, Len(e.id) < Word, Len(e.name) < Word, NEW r \in Seq(Nat)
  PROVE  EntryFields(e) \in Seq(Nat) /\ EntryFields(e) \o r = EntryCells(e, r)
<1>1. PICK i \in Seq(Nat), n \in Seq(Nat), z \in Nat, v \in Nat :
        i = e.id /\ n = e.name /\ z = e.size /\ v = e.added_unix_seconds
  BY EntryOfFields
<1>2. PICK c \in Seq(Nat), h \in Seq(Nat) : c = <<z>> /\ h = <<v>>
  BY Single
<1>a. PICK s \in Seq(Nat) : s = <<v>> \o r
  BY Fronted
<1>3. PICK t \in Seq(Nat) : t = <<z>> \o s
  BY Fronted
<1>4. PICK b \in Seq(Nat) : b = AppendString(n) /\ b \o t = Framed(n, t)
  BY <1>1, StringWritten
<1>5. PICK u \in Seq(Nat) : u = Framed(n, t)
  BY FramedType
<1>6. PICK a \in Seq(Nat) : a = AppendString(i) /\ a \o u = Framed(i, u)
  BY <1>1, StringWritten
<1>7. EntryFields(e) = ((a \o b) \o c) \o h
  BY <1>1, <1>2, <1>4, <1>6 DEF EntryFields, AppendU64
<1>8. PICK d \in Seq(Nat), f \in Seq(Nat) : d = a \o b /\ f = d \o c
  BY ConcatProperties
<1>9. f \o h \in Seq(Nat)
  BY ConcatProperties
<1>10. RegroupsFour(a, b, c, s) /\ Regroups(f, h, r)
  BY FourRegroup, Associative
<1>11. EntryFields(e) \o r = f \o s
  BY <1>2, <1>a, <1>7, <1>8, <1>10 DEF Regroups
<1>12. f \o s = a \o u
  BY <1>2, <1>3, <1>4, <1>5, <1>8, <1>10 DEF RegroupsFour
<1>13. EntryCells(e, r) = Framed(i, u)
  BY <1>1, <1>a, <1>3, <1>5 DEF EntryCells
<1> QED
  BY <1>6, <1>7, <1>8, <1>9, <1>11, <1>12, <1>13

\* What follows the label in the authenticated data.
Purposed(x) ==
  IF x.seals = "manifest" THEN <<>>
  ELSE IF x.seals = "wrap" THEN Framed(x.id, <<>>)
  ELSE IF x.seals = "object" THEN EntryCells(x.entry, <<>>)
  ELSE <<x.iterations>> \o Framed(x.salt, <<>>)

SealsOf(x) ==
  \/ x.seals = "manifest" /\ x = [seals |-> "manifest"]
  \/ /\ x.seals = "wrap" /\ x = [seals |-> "wrap", id |-> x.id]
     /\ x.id \in Seq(Nat) /\ Len(x.id) < Word
  \/ /\ x.seals = "object" /\ x = [seals |-> "object", entry |-> x.entry]
     /\ x.entry \in AnyEntry /\ Len(x.entry.id) < Word /\ Len(x.entry.name) < Word
  \/ /\ x.seals = "meta" /\ x = [seals |-> "meta", iterations |-> x.iterations, salt |-> x.salt]
     /\ x.iterations \in Nat /\ x.iterations < Word /\ x.salt \in Seq(Nat) /\ Len(x.salt) < Word

LEMMA SealableType ==
  ASSUME LengthsFit, NEW x \in Sealable
  PROVE  SealsOf(x)
<1>1. CASE x \in [seals : {"manifest"}]
  BY <1>1 DEF SealsOf
<1>2. CASE x \in [seals : {"wrap"}, id : Strings(1, MaxString)]
  <2>1. x.seals = "wrap" /\ x = [seals |-> "wrap", id |-> x.id] /\ x.id \in Strings(1, MaxString)
    BY <1>2
  <2>2. x.id \in Seq(Nat) /\ Len(x.id) \in Nat /\ Len(x.id) <= MaxString
    BY <2>1, StringsType, Naturals
  <2> QED
    BY <2>1, <2>2, Naturals DEF SealsOf, LengthsFit
<1>3. CASE x \in [seals : {"object"}, entry : Entry]
  <2>1. x.seals = "object" /\ x = [seals |-> "object", entry |-> x.entry] /\ x.entry \in Entry
    BY <1>3
  <2> QED
    BY <2>1, EntryType DEF SealsOf
<1>4. CASE x \in [seals : {"meta"}, iterations : MinIterations .. MinIterations + 1,
                  salt : Strings(MinSalt, MinSalt)]
  <2>1. /\ x.seals = "meta" /\ x = [seals |-> "meta", iterations |-> x.iterations, salt |-> x.salt]
        /\ x.iterations \in MinIterations .. MinIterations + 1 /\ x.salt \in Strings(MinSalt, MinSalt)
    BY <1>4
  <2>2. x.salt \in Seq(Nat) /\ Len(x.salt) \in Nat /\ Len(x.salt) <= MinSalt
    BY <2>1, StringsType, Naturals
  <2> QED
    BY <2>1, <2>2, Naturals DEF SealsOf, LengthsFit
<1> QED
  BY <1>1, <1>2, <1>3, <1>4 DEF Sealable

LEMMA Labels ==
  ASSUME LengthsFit, NEW p \in {"manifest", "wrap", "object", "meta"}
  PROVE  Label[p] \in Seq(Nat) /\ Len(Label[p]) < Word
<1>1. PICK a \in Nat, b \in Nat : a = 0 /\ b = 1
  OBVIOUS
<1>2. \A n \in Nat : n <= 2 => n < Word
  BY Naturals DEF LengthsFit
<1>3. CASE p \in {"manifest", "wrap"}
  <2>1. PICK c \in Nat : Label[p] = <<c>>
    BY <1>1, <1>3 DEF Label
  <2>2. PICK s \in Seq(Nat) : s = <<c>> /\ Len(s) = 1
    BY Single
  <2> QED
    BY <1>2, <2>1, <2>2
<1>4. CASE p \in {"object", "meta"}
  <2>1. PICK c \in Nat, d \in Nat : Label[p] = <<c, d>>
    BY <1>1, <1>4 DEF Label
  <2>2. PICK s \in Seq(Nat) : s = <<c, d>> /\ Len(s) = 2
    <3>1. <<c, d>> \in Seq(Nat) /\ Len(<<c, d>>) = 2
      OBVIOUS
    <3> QED
      BY <3>1
  <2> QED
    BY <1>2, <2>1, <2>2
<1> QED
  BY <1>3, <1>4

LEMMA LabelsDiffer ==
  ASSUME NEW p \in {"manifest", "wrap", "object", "meta"},
         NEW q \in {"manifest", "wrap", "object", "meta"}, Label[p] = Label[q]
  PROVE  p = q
BY DEF Label

LEMMA AadWritten ==
  ASSUME LengthsFit, NEW x, SealsOf(x)
  PROVE  /\ x.seals \in {"manifest", "wrap", "object", "meta"}
         /\ Purposed(x) \in Seq(Nat) /\ Aad(x) = Framed(Label[x.seals], Purposed(x))
<1>0. <<>> \in Seq(Nat)
  BY EmptySeq
<1>1. x.seals \in {"manifest", "wrap", "object", "meta"}
  BY DEF SealsOf
<1>2. PICK l \in Seq(Nat) : l = Label[x.seals] /\ Len(l) < Word
  BY <1>1, Labels
<1>3. ASSUME NEW t \in Seq(Nat), Aad(x) = AppendString(l) \o t, t = Purposed(x)
      PROVE  Purposed(x) \in Seq(Nat) /\ Aad(x) = Framed(Label[x.seals], Purposed(x))
  BY <1>2, <1>3, StringWritten
<1>4. CASE x.seals = "manifest"
  BY <1>0, <1>2, <1>3, <1>4 DEF Aad, Purposed
<1>5. CASE x.seals = "wrap"
  <2>1. PICK i \in Seq(Nat) : i = x.id /\ Len(i) < Word
    BY <1>5 DEF SealsOf
  <2>2. PICK t \in Seq(Nat) : t = AppendString(i) /\ t \o <<>> = Framed(i, <<>>)
    BY <1>0, <2>1, StringWritten
  <2>3. t \o <<>> = t
    BY ConcatEmptySeq
  <2> QED
    BY <1>2, <1>3, <1>5, <2>1, <2>2, <2>3 DEF Aad, Purposed
<1>6. CASE x.seals = "object"
  <2>1. PICK e \in AnyEntry : e = x.entry /\ Len(e.id) < Word /\ Len(e.name) < Word
    BY <1>6 DEF SealsOf
  <2>2. PICK t \in Seq(Nat) : t = EntryFields(e) /\ t \o <<>> = EntryCells(e, <<>>)
    BY <1>0, <2>1, EntryWritten
  <2>3. t \o <<>> = t
    BY ConcatEmptySeq
  <2> QED
    BY <1>2, <1>3, <1>6, <2>1, <2>2, <2>3 DEF Aad, Purposed
<1>7. CASE x.seals = "meta"
  <2>1. PICK n \in Nat, s \in Seq(Nat) : n = x.iterations /\ n < Word /\ s = x.salt /\ Len(s) < Word
    BY <1>7 DEF SealsOf
  <2>2. PICK u \in Seq(Nat) : u = AppendString(s) /\ u \o <<>> = Framed(s, <<>>)
    BY <1>0, <2>1, StringWritten
  <2>3. u \o <<>> = u
    BY ConcatEmptySeq
  <2>4. PICK t \in Seq(Nat) : t = <<n>> \o u
    BY Fronted
  <2>5. AppendU32(n) = <<n>>
    BY <2>1, WholeNumber
  <2>6. Purposed(x) = t
    BY <1>7, <2>1, <2>2, <2>3, <2>4 DEF Purposed
  <2>7. Aad(x) = AppendString(l) \o t
    BY <1>2, <1>7, <2>1, <2>2, <2>4, <2>5 DEF Aad
  <2>8. t = Purposed(x)
    BY <2>6
  <2> HIDE DEF Aad, Purposed
  <2> QED
    BY <1>1, <1>3, <2>7, <2>8
<1> QED
  BY <1>1, <1>4, <1>5, <1>6, <1>7

LEMMA AadOnce ==
  ASSUME LengthsFit, NEW x, NEW y, SealsOf(x), SealsOf(y), Aad(x) = Aad(y)
  PROVE  x = y
<1>0. <<>> \in Seq(Nat)
  BY EmptySeq
<1>1. SealsOf(x) /\ SealsOf(y)
  OBVIOUS
<1>2. PICK p \in {"manifest", "wrap", "object", "meta"}, q \in {"manifest", "wrap", "object", "meta"} :
        p = x.seals /\ q = y.seals
  BY <1>1, AadWritten
<1>3. PICK s \in Seq(Nat), t \in Seq(Nat) : s = Purposed(x) /\ t = Purposed(y)
  BY <1>1, AadWritten
<1>4. Framed(Label[p], s) = Framed(Label[q], t)
  BY <1>1, <1>2, <1>3, AadWritten
<1>5. Label[p] \in Seq(Nat) /\ Label[q] \in Seq(Nat)
  BY Labels
<1>6. Label[p] = Label[q] /\ s = t
  BY <1>4, <1>5, FramedOnce
<1>7. p = q
  BY <1>6, LabelsDiffer
<1>8. CASE p = "manifest"
  BY <1>1, <1>2, <1>7, <1>8 DEF SealsOf
<1>9. CASE p = "wrap"
  <2>1. PICK i \in Seq(Nat), j \in Seq(Nat) : i = x.id /\ j = y.id
    BY <1>1, <1>2, <1>7, <1>9 DEF SealsOf
  <2>2. Framed(i, <<>>) = Framed(j, <<>>)
    BY <1>2, <1>3, <1>6, <1>7, <1>9, <2>1 DEF Purposed
  <2>3. i = j
    BY <1>0, <2>2, FramedOnce
  <2> QED
    BY <1>1, <1>2, <1>7, <1>9, <2>1, <2>3 DEF SealsOf
<1>10. CASE p = "object"
  <2>1. PICK e \in AnyEntry, f \in AnyEntry : e = x.entry /\ f = y.entry
    BY <1>1, <1>2, <1>7, <1>10 DEF SealsOf
  <2>2. EntryCells(e, <<>>) = EntryCells(f, <<>>)
    BY <1>2, <1>3, <1>6, <1>7, <1>10, <2>1 DEF Purposed
  <2>3. e = f
    BY <1>0, <2>2, EntryOnce
  <2> QED
    BY <1>1, <1>2, <1>7, <1>10, <2>1, <2>3 DEF SealsOf
<1>11. CASE p = "meta"
  <2>1. PICK n \in Nat, m \in Nat, u \in Seq(Nat), w \in Seq(Nat) :
          n = x.iterations /\ m = y.iterations /\ u = x.salt /\ w = y.salt
    BY <1>1, <1>2, <1>7, <1>11 DEF SealsOf
  <2>2. PICK a \in Seq(Nat), b \in Seq(Nat) : a = Framed(u, <<>>) /\ b = Framed(w, <<>>)
    BY <1>0, FramedType
  <2>3. PICK f \in Seq(Nat) : f = <<n>> \o a /\ f = <<m>> \o b
    <3>1. <<n>> \o a = <<m>> \o b
      BY <1>2, <1>3, <1>6, <1>7, <1>11, <2>1, <2>2 DEF Purposed
    <3> QED
      BY <3>1, Fronted
  <2>4. n = m /\ a = b
    BY <2>3, FrontOnce
  <2>5. u = w
    BY <1>0, <2>2, <2>4, FramedOnce
  <2> QED
    BY <1>1, <1>2, <1>7, <1>11, <2>1, <2>4, <2>5 DEF SealsOf
<1> QED
  BY <1>8, <1>9, <1>10, <1>11

-----------------------------------------------------------------------------
(***************************************************************************)
(* Lists of entries, of any length.                                        *)
(***************************************************************************)

\* The cells of the first entries, and the sum of them.
Adds(f, seqs, i) == f[i] = f[i - 1] \o seqs[i]
JoinedUpTo(f, seqs) ==
  /\ f \in [0 .. Len(seqs) -> Seq(Nat)] /\ f[0] = <<>>
  /\ \A i \in 1 .. Len(seqs) : Adds(f, seqs, i)

LEMMA FlattenIs ==
  ASSUME NEW seqs \in Seq(Seq(Nat))
  PROVE  \E f : JoinedUpTo(f, seqs) /\ FlattenSeq(seqs) = f[Len(seqs)]
<1>1. PICK n \in Nat : n = Len(seqs)
  BY LenProperties
<1>2. \A i \in 1 .. n : seqs[i] \in Seq(Nat)
  BY <1>1, ElementOfSeq
<1>3. <<>> \in Seq(Nat)
  BY EmptySeq
<1>4. CASE n = 0
  <2>1. seqs = <<>>
    BY <1>1, <1>4, EmptySeq
  <2> DEFINE f == [i \in 0 .. 0 |-> <<>>]
  <2>2. f \in [0 .. 0 -> Seq(Nat)] /\ f[0] = <<>>
    BY <1>3
  <2>3. FlattenSeq(seqs) = <<>>
    BY <1>1, <1>4, <2>1 DEF FlattenSeq
  <2> HIDE DEF f
  <2>4. JoinedUpTo(f, seqs)
    BY <1>1, <1>4, <2>2 DEF JoinedUpTo
  <2> QED
    BY <1>1, <1>4, <2>2, <2>3, <2>4
<1>5. CASE n # 0
  <2> DEFINE Sums(F) == F = [i \in 1 .. n |-> IF i = 1 THEN seqs[i] ELSE F[i - 1] \o seqs[i]]
             flatten == CHOOSE F : Sums(F)
             h == [p \in (1 .. n) \X Seq(Nat) |-> p[2] \o seqs[p[1]]]
  <2>1. h \in [(1 .. n) \X Seq(Nat) -> Seq(Nat)]
    BY <1>2, ConcatProperties
  <2>2. \A i \in 1 .. n, s \in Seq(Nat) : h[<<i, s>>] = s \o seqs[i]
    OBVIOUS
  <2> HIDE DEF h
  <2>3. PICK f : Iterates(f, Seq(Nat), <<>>, n, h)
    BY <1>3, <2>1, IterationExists
  <2>4. f \in [0 .. n -> Seq(Nat)] /\ f[0] = <<>> /\ \A i \in 1 .. n : f[i] = h[<<i, f[i - 1]>>]
    BY <2>3 DEF Iterates
  <2>5. ASSUME NEW i \in 1 .. n
        PROVE  Adds(f, seqs, i)
    <3>1. i - 1 \in 0 .. n
      OBVIOUS
    <3>2. PICK s \in Seq(Nat) : s = f[i - 1]
      BY <2>4, <3>1
    <3>3. f[i] = h[<<i, s>>]
      BY <2>4, <3>2
    <3>4. f[i] = s \o seqs[i]
      BY <2>2, <3>3
    <3> QED
      BY <3>2, <3>4 DEF Adds
  <2>6. 1 \in 1 .. n /\ f[1] = seqs[1]
    <3>1. 1 \in 1 .. n
      BY <1>5
    <3>2. Adds(f, seqs, 1)
      BY <2>5, <3>1
    <3>3. f[1] = <<>> \o seqs[1]
      <4>1. f[1 - 1] = <<>>
        BY <2>4
      <4> QED
        BY <3>2, <4>1, Zenon DEF Adds
    <3> QED
      BY <1>2, <3>1, <3>3, ConcatEmptySeq
  <2> DEFINE F0 == [i \in 1 .. n |-> f[i]]
  <2>7. \A i \in 1 .. n : F0[i] = IF i = 1 THEN seqs[i] ELSE F0[i - 1] \o seqs[i]
    <3> TAKE i \in 1 .. n
    <3>1. F0[i] = f[i]
      OBVIOUS
    <3>2. CASE i = 1
      BY <2>6, <3>1, <3>2
    <3>3. CASE i # 1
      <4>1. i - 1 \in 1 .. n
        BY <3>3
      <4>2. F0[i - 1] = f[i - 1]
        BY <4>1
      <4>3. Adds(f, seqs, i)
        BY <2>5
      <4> QED
        BY <3>1, <3>3, <4>2, <4>3 DEF Adds
    <3> QED
      BY <3>2, <3>3
  <2>8. Sums(F0)
    <3>1. F0 = [i \in 1 .. n |-> F0[i]]
      OBVIOUS
    <3> HIDE DEF F0
    <3>2. F0 = [i \in 1 .. n |-> IF i = 1 THEN seqs[i] ELSE F0[i - 1] \o seqs[i]]
      BY <2>7, <3>1
    <3> QED
      BY <3>2
  <2> HIDE DEF F0, Sums
  <2>9. Sums(flatten)
    BY <2>8
  <2>10. FlattenSeq(seqs) = flatten[n]
    BY <1>1, <1>5 DEF FlattenSeq, Sums
  <2> HIDE DEF flatten
  <2>11. ASSUME NEW i \in 1 .. n
         PROVE  (i = 1 => flatten[i] = seqs[i]) /\ (i # 1 => Adds(flatten, seqs, i))
    BY <2>9 DEF Sums, Adds
  <2> DEFINE T == {k \in 0 .. n : k = 0 \/ flatten[k] = f[k]}
  <2>12. 0 \in T
    OBVIOUS
  <2>13. ASSUME NEW k \in 0 .. n - 1, k \in T
         PROVE  k + 1 \in T
    <3>1. k + 1 \in 1 .. n /\ k + 1 - 1 = k
      OBVIOUS
    <3>2. CASE k = 0
      BY <2>6, <2>11, <3>1, <3>2
    <3>3. CASE k # 0
      <4>1. flatten[k] = f[k]
        BY <2>13, <3>3
      <4>2. k + 1 # 1
        BY <3>3
      <4>3. Adds(flatten, seqs, k + 1)
        BY <2>11, <3>1, <4>2
      <4>4. Adds(f, seqs, k + 1)
        BY <2>5, <3>1
      <4>5. flatten[k + 1] = f[k + 1]
        <5>1. flatten[(k + 1) - 1] = f[(k + 1) - 1]
          BY <3>1, <4>1
        <5> QED
          BY <4>3, <4>4, <5>1, Zenon DEF Adds
      <4> QED
        BY <3>1, <4>5
    <3> QED
      BY <3>2, <3>3
  <2> HIDE DEF T
  <2>14. n \in T
    <3>1. \A k \in 0 .. n : k \in T
      BY <2>12, <2>13, InductionTo
    <3> QED
      BY <3>1
  <2>15. FlattenSeq(seqs) = f[n]
    BY <1>5, <2>10, <2>14 DEF T
  <2>16. JoinedUpTo(f, seqs)
    BY <1>1, <2>4, <2>5 DEF JoinedUpTo
  <2> QED
    BY <1>1, <2>15, <2>16
<1> QED
  BY <1>4, <1>5

\* What reading the entries of a list passes through: the results after each.
EntryResults == {Result(es, r) : es \in Seq(AnyEntry), r \in Seq(Nat)}
Reads(f, bytes, n) ==
  /\ f \in [0 .. n -> SUBSET EntryResults] /\ f[0] = {Result(<<>>, bytes)}
  /\ \A k \in 0 .. n - 1 : f[k + 1] = ReadNext(f[k])

\* One more entry.
NextReads(results) ==
  /\ results \subseteq EntryResults => ReadNext(results) \subseteq EntryResults
  /\ \A es \in Seq(AnyEntry), e \in AnyEntry, r \in Seq(Nat) :
       results = {Result(es, EntryCells(e, r))} => ReadNext(results) = {Result(Append(es, e), r)}

LEMMA NextRead ==
  ASSUME NEW results
  PROVE  NextReads(results)
<1> DEFINE More(es, b) == UNION {{Result(Append(es, q.value), q.rest)} : q \in ReadEntry(b)}
<1>1. ReadNext(results) = UNION {More(q.value, q.rest) : q \in results}
  BY DEF ReadNext, Then, Got, Result
<1>2. ASSUME results \subseteq EntryResults, NEW o \in ReadNext(results)
      PROVE  o \in EntryResults
  <2>1. PICK q \in results : o \in More(q.value, q.rest)
    BY <1>1, <1>2
  <2>2. PICK es \in Seq(AnyEntry), b \in Seq(Nat) : q = Result(es, b)
    BY <1>2 DEF EntryResults
  <2>3. PICK p \in ReadEntry(b) : o = Result(Append(es, p.value), p.rest)
    BY <2>1, <2>2, ResultFields
  <2>4. PICK e \in AnyEntry, r \in Seq(Nat) : p = Result(e, r)
    BY EntryRead DEF EntryReads
  <2>5. PICK fs \in Seq(AnyEntry) : fs = Append(es, e)
    BY AppendProperties
  <2>6. o = Result(fs, r)
    BY <2>3, <2>4, <2>5, ResultFields
  <2> QED
    BY <2>6 DEF EntryResults
<1>3. ASSUME NEW es \in Seq(AnyEntry), NEW e \in AnyEntry, NEW r \in Seq(Nat),
             results = {Result(es, EntryCells(e, r))}
      PROVE  ReadNext(results) = {Result(Append(es, e), r)}
  <2>1. PICK b \in Seq(Nat) : b = EntryCells(e, r)
    BY EntryCellsType
  <2>2. PICK q, p : q = Result(es, b) /\ p = Result(e, r)
    OBVIOUS
  <2>3. ReadEntry(b) = {p}
    BY <2>1, <2>2, EntryRead DEF EntryReads
  <2>4. More(es, b) = {Result(Append(es, p.value), p.rest)}
    BY <2>3
  <2> HIDE DEF More
  <2>5. ReadNext(results) = More(q.value, q.rest)
    BY <1>1, <1>3, <2>1, <2>2
  <2> QED
    BY <2>2, <2>4, <2>5, ResultFields
<1> QED
  BY <1>2, <1>3 DEF NextReads

LEMMA EntriesRead ==
  ASSUME NEW bytes \in Seq(Nat), NEW n \in Nat
  PROVE  \E f : Reads(f, bytes, n) /\ ReadEntries(bytes, n) = f[n]
<1> DEFINE S == SUBSET EntryResults
           x == {Result(<<>>, bytes)}
           h == [p \in (1 .. n) \X S |-> ReadNext(p[2])]
           After(F) == F = [i \in 0 .. n |-> IF i = 0 THEN x ELSE ReadNext(F[i - 1])]
           after == CHOOSE F : After(F)
<1>1. x \in S
  <2>1. PICK es \in Seq(AnyEntry) : es = <<>>
    BY EmptySeq
  <2>2. Result(es, bytes) \in EntryResults
    BY DEF EntryResults
  <2> QED
    BY <2>1, <2>2
<1>2. h \in [(1 .. n) \X S -> S] /\ \A i \in 1 .. n, s \in S : h[<<i, s>>] = ReadNext(s)
  BY NextRead DEF NextReads
<1> HIDE DEF h, S, x
<1>3. PICK f : Iterates(f, S, x, n, h)
  BY <1>1, <1>2, IterationExists
<1>4. f \in [0 .. n -> S] /\ f[0] = x /\ \A i \in 1 .. n : f[i] = h[<<i, f[i - 1]>>]
  BY <1>3 DEF Iterates
<1>5. ASSUME NEW i \in 1 .. n
      PROVE  f[i] = ReadNext(f[i - 1])
  <2>1. i - 1 \in 0 .. n
    OBVIOUS
  <2>2. PICK s \in S : s = f[i - 1]
    BY <1>4, <2>1
  <2> QED
    BY <1>2, <1>4, <2>2
<1>6. After(f)
  <2>1. f = [i \in 0 .. n |-> f[i]]
    BY <1>4
  <2>2. \A i \in 0 .. n : f[i] = IF i = 0 THEN x ELSE ReadNext(f[i - 1])
    BY <1>4, <1>5
  <2> QED
    BY <2>1, <2>2
<1> HIDE DEF After
<1>7. After(after)
  BY <1>6
<1>8. ReadEntries(bytes, n) = after[n]
  BY DEF ReadEntries, Got, Result, After, x
<1> HIDE DEF after
<1>9. after = [i \in 0 .. n |-> IF i = 0 THEN x ELSE ReadNext(after[i - 1])]
  BY <1>7 DEF After
<1> DEFINE T == {k \in 0 .. n : after[k] = f[k]}
<1>10. 0 \in T
  BY <1>4, <1>9
<1>11. ASSUME NEW k \in 0 .. n - 1, k \in T
       PROVE  k + 1 \in T
  <2>1. k + 1 \in 0 .. n /\ k + 1 \in 1 .. n /\ k + 1 # 0 /\ (k + 1) - 1 = k
    OBVIOUS
  <2>2. after[k + 1] = ReadNext(after[k])
    BY <1>9, <2>1
  <2>3. f[k + 1] = ReadNext(f[k])
    BY <1>5, <2>1
  <2> QED
    BY <1>11, <2>1, <2>2, <2>3
<1>12. n \in T
  <2> HIDE DEF T
  <2>1. \A k \in 0 .. n : k \in T
    BY <1>10, <1>11, InductionTo
  <2> QED
    BY <2>1
<1>13. Reads(f, bytes, n)
  <2>1. ASSUME NEW k \in 0 .. n - 1 PROVE f[k + 1] = ReadNext(f[k])
    <3>1. k + 1 \in 1 .. n /\ (k + 1) - 1 = k
      OBVIOUS
    <3> QED
      BY <1>5, <3>1
  <2> QED
    BY <1>4, <2>1 DEF Reads, S, x
<1> QED
  BY <1>8, <1>12, <1>13

\* The entries of a list, each with its lengths in its fields.
FitEntries(es) == \A i \in 1 .. Len(es) : Len(es[i].id) < Word /\ Len(es[i].name) < Word
Body(es) == FlattenSeq([i \in 1 .. Len(es) |-> EntryFields(es[i])])

\* The parts of a body: what is behind the first k of them.
Behind(P, k, n, s) == P[n] = P[k] \o s
SomeBehind(P, k, n) == \E s \in Seq(Nat) : Behind(P, k, n, s)

LEMMA EachBehind ==
  ASSUME NEW seqs \in Seq(Seq(Nat)), NEW P, JoinedUpTo(P, seqs), NEW n \in Nat, n = Len(seqs)
  PROVE  \A k \in 0 .. n : SomeBehind(P, k, n)
<1> DEFINE T == {j \in 0 .. n : SomeBehind(P, n - j, n)}
<1>0. /\ P \in [0 .. n -> Seq(Nat)] /\ P[0] = <<>>
      /\ \A i \in 1 .. n : Adds(P, seqs, i) /\ seqs[i] \in Seq(Nat)
  BY ElementOfSeq DEF JoinedUpTo
<1>1. 0 \in T
  <2>1. n - 0 = n /\ P[n] \in Seq(Nat)
    BY <1>0
  <2>2. <<>> \in Seq(Nat) /\ P[n] \o <<>> = P[n]
    BY <2>1, ConcatEmptySeq, EmptySeq
  <2>3. Behind(P, n - 0, n, <<>>)
    BY <2>1, <2>2 DEF Behind
  <2>4. SomeBehind(P, n - 0, n)
    BY <2>2, <2>3 DEF SomeBehind
  <2> QED
    BY <2>4
<1>2. ASSUME NEW j \in 0 .. n - 1, j \in T
      PROVE  j + 1 \in T
  <2>1. PICK i \in 1 .. n, k \in 0 .. n : i = n - j /\ k = n - (j + 1) /\ k = i - 1
    <3>1. n - j \in 1 .. n /\ n - (j + 1) \in 0 .. n /\ n - (j + 1) = n - j - 1
      OBVIOUS
    <3> QED
      BY <3>1
  <2>2. PICK s \in Seq(Nat) : P[n] = P[i] \o s
    BY <1>2, <2>1 DEF Behind, SomeBehind
  <2>3. PICK a \in Seq(Nat), b \in Seq(Nat) : a = P[k] /\ b = seqs[i]
    BY <1>0
  <2>4. Adds(P, seqs, i)
    BY <1>0
  <2>5. P[i] = a \o b
    BY <2>1, <2>3, <2>4 DEF Adds
  <2>6. Regroups(a, b, s)
    BY Associative
  <2>7. PICK u \in Seq(Nat) : u = b \o s
    BY ConcatProperties
  <2>8. Behind(P, k, n, u)
    BY <2>2, <2>3, <2>5, <2>6, <2>7 DEF Regroups, Behind
  <2>9. SomeBehind(P, n - (j + 1), n)
    BY <2>1, <2>8 DEF SomeBehind
  <2> QED
    BY <2>9
<1>3. \A j \in 0 .. n : j \in T
  <2> HIDE DEF T
  <2> QED
    BY <1>1, <1>2, InductionTo
<1>4. ASSUME NEW k \in 0 .. n
      PROVE  SomeBehind(P, k, n)
  <2>1. PICK j \in 0 .. n : j = n - k /\ n - j = k
    <3>1. n - k \in 0 .. n /\ n - (n - k) = k
      OBVIOUS
    <3> QED
      BY <3>1
  <2>2. SomeBehind(P, n - j, n)
    BY <1>3
  <2> QED
    BY <2>1, <2>2
<1> QED
  BY <1>4

\* The first k entries have been read, and what is left is behind their cells.
ReadUpTo(f, P, es, k, n) ==
  \E fs \in Seq(AnyEntry), t \in Seq(Nat) :
    /\ Len(fs) = k /\ \A i \in 1 .. k : fs[i] = es[i]
    /\ Behind(P, k, n, t) /\ f[k] = {Result(fs, t)}

LEMMA BodyParts ==
  ASSUME NEW es \in Seq(AnyEntry), FitEntries(es)
  PROVE  LET seqs == [i \in 1 .. Len(es) |-> EntryFields(es[i])]
         IN  /\ seqs \in Seq(Seq(Nat)) /\ Len(seqs) = Len(es)
             /\ \A i \in 1 .. Len(es) : seqs[i] = EntryFields(es[i])
<1>1. PICK n \in Nat : n = Len(es)
  BY LenProperties
<1> DEFINE seqs == [i \in 1 .. n |-> EntryFields(es[i])]
<1>2. ASSUME NEW i \in 1 .. n PROVE EntryFields(es[i]) \in Seq(Nat)
  <2>1. es[i] \in AnyEntry /\ Len(es[i].id) < Word /\ Len(es[i].name) < Word
    BY <1>1, ElementOfSeq DEF FitEntries
  <2> QED
    BY <2>1, EntryWritten, EmptySeq
<1>3. seqs \in [1 .. n -> Seq(Nat)] /\ \A i \in 1 .. n : seqs[i] = EntryFields(es[i])
  BY <1>2
<1> HIDE DEF seqs
<1>4. seqs \in Seq(Seq(Nat))
  <2>1. seqs \in UNION {[1 .. m -> Seq(Nat)] : m \in Nat}
    BY <1>3
  <2> QED
    BY <2>1, SeqDef
<1>5. Len(seqs) = n
  BY <1>3, <1>4, LenProperties
<1> QED
  BY <1>1, <1>3, <1>4, <1>5 DEF seqs

LEMMA EntriesLoad ==
  ASSUME NEW es \in Seq(AnyEntry), FitEntries(es)
  PROVE  Body(es) \in Seq(Nat) /\ ReadEntries(Body(es), Len(es)) = {Result(es, <<>>)}
<1>1. PICK n \in Nat : n = Len(es)
  BY LenProperties
<1>2. PICK seqs \in Seq(Seq(Nat)) :
        /\ seqs = [i \in 1 .. Len(es) |-> EntryFields(es[i])] /\ Len(seqs) = n
        /\ \A i \in 1 .. n : seqs[i] = EntryFields(es[i])
  BY <1>1, BodyParts
<1>3. PICK P : JoinedUpTo(P, seqs) /\ FlattenSeq(seqs) = P[n]
  BY <1>2, FlattenIs
<1>4. /\ P \in [0 .. n -> Seq(Nat)] /\ P[0] = <<>>
      /\ \A i \in 1 .. n : Adds(P, seqs, i) /\ seqs[i] \in Seq(Nat)
  BY <1>2, <1>3, ElementOfSeq DEF JoinedUpTo
<1>5. PICK body \in Seq(Nat) : body = Body(es) /\ body = P[n]
  <2>1. Body(es) = FlattenSeq(seqs)
    BY <1>2, Zenon DEF Body
  <2>2. P[n] \in Seq(Nat)
    BY <1>4
  <2> QED
    BY <1>3, <2>1, <2>2, Zenon
<1>6. PICK f : Reads(f, body, n) /\ ReadEntries(body, n) = f[n]
  BY EntriesRead
<1>7. f[0] = {Result(<<>>, body)} /\ \A k \in 0 .. n - 1 : f[k + 1] = ReadNext(f[k])
  BY <1>6 DEF Reads
<1> DEFINE T == {k \in 0 .. n : ReadUpTo(f, P, es, k, n)}
<1>8. 0 \in T
  <2>1. PICK fs \in Seq(AnyEntry) : fs = <<>> /\ Len(fs) = 0
    BY EmptySeq
  <2>2. <<>> \o body = body
    BY ConcatEmptySeq
  <2>3. Behind(P, 0, n, body)
    BY <1>4, <1>5, <2>2 DEF Behind
  <2>4. f[0] = {Result(fs, body)}
    BY <1>7, <2>1
  <2>5. \A i \in 1 .. 0 : fs[i] = es[i]
    OBVIOUS
  <2>6. ReadUpTo(f, P, es, 0, n)
    BY <2>1, <2>3, <2>4, <2>5 DEF ReadUpTo
  <2> QED
    BY <2>6
<1>9. ASSUME NEW k \in 0 .. n - 1, k \in T
      PROVE  k + 1 \in T
  <2>1. PICK fs \in Seq(AnyEntry), t \in Seq(Nat) :
          /\ Len(fs) = k /\ \A i \in 1 .. k : fs[i] = es[i]
          /\ Behind(P, k, n, t) /\ f[k] = {Result(fs, t)}
    BY <1>9 DEF ReadUpTo
  <2>2. PICK j \in 1 .. n : j = k + 1 /\ j - 1 = k /\ j \in 0 .. n
    <3>1. k + 1 \in 1 .. n /\ (k + 1) - 1 = k /\ k + 1 \in 0 .. n
      OBVIOUS
    <3> QED
      BY <3>1
  <2>3. PICK e \in AnyEntry : e = es[j] /\ Len(e.id) < Word /\ Len(e.name) < Word
    BY <1>1, <2>2, ElementOfSeq DEF FitEntries
  <2>4. PICK s \in Seq(Nat) : Behind(P, j, n, s)
    BY <1>2, <1>3, <2>2, EachBehind DEF SomeBehind
  <2>5. PICK a \in Seq(Nat), b \in Seq(Nat) : a = P[k] /\ b = seqs[j]
    <3>1. seqs[j] \in Seq(Nat)
      BY <1>4
    <3>2. P[k] \in Seq(Nat)
      BY <1>4
    <3> QED
      BY <3>1, <3>2
  <2>6. b = EntryFields(e) /\ b \o s = EntryCells(e, s)
    <3>1. b = EntryFields(e)
      BY <1>2, <2>2, <2>3, <2>5
    <3> QED
      BY <2>3, <3>1, EntryWritten
  <2>7. PICK u \in Seq(Nat) : u = b \o s
    BY ConcatProperties
  <2>8. a \o t = a \o u
    <3>1. Adds(P, seqs, j)
      BY <1>4
    <3>2. P[j] = a \o b
      BY <2>2, <2>5, <3>1 DEF Adds
    <3>3. Regroups(a, b, s)
      BY Associative
    <3>4. P[n] = a \o u
      BY <2>4, <2>7, <3>2, <3>3 DEF Behind, Regroups
    <3>5. P[n] = a \o t
      BY <2>1, <2>5 DEF Behind
    <3> QED
      BY <3>4, <3>5
  <2>9. t = u
    BY <2>8, SplitOnce
  <2>10. f[k] = {Result(fs, EntryCells(e, s))}
    BY <2>1, <2>6, <2>7, <2>9
  <2>11. f[j] = {Result(Append(fs, e), s)}
    <3>1. ReadNext(f[k]) = {Result(Append(fs, e), s)}
      <4>1. NextReads(f[k])
        BY NextRead
      <4> QED
        BY <2>10, <4>1 DEF NextReads
    <3> QED
      BY <1>7, <2>2, <3>1
  <2>12. PICK gs \in Seq(AnyEntry) :
           gs = Append(fs, e) /\ Len(gs) = j /\ \A i \in 1 .. j : gs[i] = es[i]
    <3>1. /\ Append(fs, e) \in Seq(AnyEntry) /\ Len(Append(fs, e)) = Len(fs) + 1
          /\ \A i \in 1 .. Len(fs) : Append(fs, e)[i] = fs[i]
          /\ Append(fs, e)[Len(fs) + 1] = e
      BY AppendProperties
    <3>2. PICK gs \in Seq(AnyEntry) :
            /\ gs = Append(fs, e) /\ Len(gs) = j /\ gs[j] = es[j]
            /\ \A i \in 1 .. k : gs[i] = es[i]
      BY <2>1, <2>2, <2>3, <3>1
    <3>3. \A i \in 1 .. j : i = j \/ i \in 1 .. k
      BY <2>2
    <3> QED
      BY <3>2, <3>3
  <2>13. ReadUpTo(f, P, es, j, n)
    BY <2>4, <2>11, <2>12 DEF ReadUpTo
  <2> QED
    BY <2>2, <2>13
<1>10. ReadUpTo(f, P, es, n, n)
  <2> HIDE DEF T
  <2>1. \A k \in 0 .. n : k \in T
    BY <1>8, <1>9, InductionTo
  <2>2. n \in T
    BY <2>1
  <2> QED
    BY <2>2 DEF T
<1>11. PICK fs \in Seq(AnyEntry), t \in Seq(Nat) :
         /\ Len(fs) = n /\ \A i \in 1 .. n : fs[i] = es[i]
         /\ Behind(P, n, n, t) /\ f[n] = {Result(fs, t)}
  BY <1>10 DEF ReadUpTo
<1>12. fs = es
  BY <1>1, <1>11, SeqEqual
<1>13. t = <<>>
  <2>1. body = body \o t
    BY <1>5, <1>11 DEF Behind
  <2> QED
    BY <2>1, ConcatEqualIffEmpty
<1> QED
  BY <1>1, <1>5, <1>6, <1>11, <1>12, <1>13

\* A list, whatever it holds, is read as it was written.
ListOf(es) == [kind |-> "list", entries |-> es]

LEMMA ListLoads ==
  ASSUME NEW es \in Seq(AnyEntry), FitEntries(es), Len(es) < Word, Len(es) <= MaxEntries
  PROVE  /\ Serialized(ListOf(es)) \in Seq(Nat)
         /\ Parsed("list", Serialized(ListOf(es))) = {ListOf(es)}
<1>1. PICK n \in Nat : n = Len(es)
  BY LenProperties
<1>2. PICK b \in Seq(Nat) : b = Body(es) /\ ReadEntries(b, n) = {Result(es, <<>>)}
  BY <1>1, EntriesLoad
<1>3. PICK m \in Nat : m = MagicCell("list") /\ Magic["list"] = <<m>>
  BY MagicIs
<1>4. PICK t \in Seq(Nat) : t = <<n>> \o b
  BY Fronted
<1>5. PICK file0 \in Seq(Nat) : file0 = <<m>> \o t
  BY Fronted
<1>6. Serialized(ListOf(es)) = file0
  <2>1. AppendU32(n) = <<n>>
    BY <1>1, WholeNumber
  <2>2. ListOf(es).kind = "list" /\ ListOf(es).entries = es
    BY DEF ListOf
  <2>3. Serialized(ListOf(es)) = Magic["list"] \o (AppendU32(Len(es)) \o Body(es))
    BY <2>2 DEF Serialized, Body
  <2> QED
    BY <1>1, <1>2, <1>3, <1>4, <1>5, <2>1, <2>3, Zenon
<1>7. ReadBody("list", t) = {Result(ListOf(es), <<>>)}
  <2> DEFINE Listed0(q) == {Result(ListOf(q.value), q.rest)}
             Counted(c, r) == IF TooMany(c) THEN {} ELSE UNION {Listed0(q) : q \in ReadEntries(r, c)}
  <2>1. ReadBody("list", t) = UNION {Counted(q.value, q.rest) : q \in ReadCell(t)}
    <3>1. ReadBody("list", t) = ReadList(t)
      BY DEF ReadBody
    <3> QED
      BY <3>1 DEF ReadList, Then, Got, Result, ListOf
  <2>2. PICK q : q = Result(n, b)
    OBVIOUS
  <2>3. ReadCell(t) = {q}
    <3>1. CellReads(t)
      BY CellRead
    <3> QED
      BY <1>4, <2>2, <3>1 DEF CellReads
  <2>4. PICK p : p = Result(es, <<>>)
    OBVIOUS
  <2>5. ~ TooMany(n)
    BY <1>1, Naturals DEF TooMany
  <2>6. Counted(n, b) = Listed0(p)
    BY <1>2, <2>4, <2>5
  <2>7. Listed0(p) = {Result(ListOf(es), <<>>)}
    BY <2>4, ResultFields
  <2> HIDE DEF Counted, Listed0
  <2>8. ReadBody("list", t) = Counted(q.value, q.rest)
    <3> DEFINE kind == "list"
    <3>1. ReadBody(kind, t) = UNION {Counted(x.value, x.rest) : x \in ReadCell(t)}
      BY <2>1
    <3> HIDE DEF kind
    <3>2. ReadBody(kind, t) = Counted(q.value, q.rest)
      BY <2>3, <3>1
    <3> QED
      BY <3>2 DEF kind
  <2> QED
    BY <2>2, <2>6, <2>7, <2>8, ResultFields
<1>8. Parsed("list", file0) = Whole(ReadBody("list", t))
  BY <1>3, <1>5, ParsedBody DEF BodyBehindMagic
<1>9. Whole({Result(ListOf(es), <<>>)}) = {ListOf(es)}
  <2>1. PICK q : q = Result(ListOf(es), <<>>)
    OBVIOUS
  <2>2. q.value = ListOf(es) /\ q.rest = <<>>
    BY <2>1, ResultFields
  <2>3. Whole({q}) = {q.value}
    BY <2>2 DEF Whole
  <2> QED
    BY <2>1, <2>2, <2>3
<1> QED
  BY <1>6, <1>7, <1>8, <1>9

-----------------------------------------------------------------------------
(***************************************************************************)
(* Tags that were issued, and the blobs that open.                         *)
(***************************************************************************)
TagOf(keys, aad, b) == <<keys.mac, TagInput(aad, b.nonce, b.ciphertext)>>

\* The tag of b is the place of its key and input in ms.
IssuedAt(ms, i, keys, aad, b) == i \in DOMAIN ms /\ ms[i] = TagOf(keys, aad, b) /\ b.tag = TagBase + i
Issued(ms, keys, aad, b) == b \in AnyBlob /\ \E i \in DOMAIN ms : IssuedAt(ms, i, keys, aad, b)

\* What is sealed under these keys opens to p.
Hides(keys, b, p) == Crypt(keys.enc, b.nonce, b.ciphertext) = p

\* The place of a key and an input that are listed once.
LEMMA TagAt ==
  ASSUME NEW ms, NoneTwice(ms), NEW i \in DOMAIN ms, NEW k, NEW x, ms[i] = <<k, x>>
  PROVE  Tag(ms, k, x) = TagBase + i
<1> DEFINE p == <<k, x>>
           j == CHOOSE n \in DOMAIN ms : ms[n] = p
<1>1. Tag(ms, k, x) = TagBase + j
  BY DEF Tag
<1>2. j \in DOMAIN ms /\ ms[j] = p
  OBVIOUS
<1> HIDE DEF j
<1>3. j = i
  BY <1>2 DEF NoneTwice
<1> QED
  BY <1>1, <1>3

\* A list holds what it held, and what was listed.
LEMMA ListedOnly ==
  ASSUME NEW S, NEW ms \in Seq(S), NEW x \in S, NEW i \in DOMAIN Listed(ms, x)
  PROVE  Listed(ms, x)[i] = x \/ \E j \in DOMAIN ms : ms[j] = Listed(ms, x)[i]
<1>1. CASE \E j \in DOMAIN ms : ms[j] = x
  BY <1>1 DEF Listed
<1>2. CASE ~ \E j \in DOMAIN ms : ms[j] = x
  <2> DEFINE more == Append(ms, x)
  <2>1. /\ more \in Seq(S) /\ Len(more) = Len(ms) + 1
        /\ \A j \in 1 .. Len(ms) : more[j] = ms[j]
        /\ more[Len(ms) + 1] = x
    BY AppendProperties
  <2>2. Len(ms) \in Nat /\ DOMAIN ms = 1 .. Len(ms) /\ DOMAIN more = 1 .. Len(more)
    BY <2>1, LenProperties
  <2>3. Listed(ms, x) = more
    BY <1>2 DEF Listed
  <2> HIDE DEF more
  <2>4. i = Len(ms) + 1 \/ i \in DOMAIN ms
    BY <2>1, <2>2, <2>3
  <2> QED
    BY <2>1, <2>2, <2>3, <2>4
<1> QED
  BY <1>1, <1>2

LEMMA IssuedFurther ==
  ASSUME NEW ms, NEW more, IssuedIn(ms, more)
  PROVE  /\ \A later : IssuedIn(more, later) => IssuedIn(ms, later)
         /\ \A keys, aad, b : Issued(ms, keys, aad, b) => Issued(more, keys, aad, b)
BY DEF IssuedIn, Issued, IssuedAt

\* A blob that opens has a tag that was issued for it, and it hides what it opens to.
LEMMA OpenedIssued ==
  ASSUME NEW keys, NEW b \in AnyBlob, NEW aad, NEW p \in DecryptBlob(keys, b, aad)
  PROVE  Issued(macs, keys, aad, b) /\ Hides(keys, b, p)
<1> DEFINE q == TagOf(keys, aad, b)
           i == CHOOSE n \in DOMAIN macs : macs[n] = q
<1>1. /\ Tag(macs, keys.mac, TagInput(aad, b.nonce, b.ciphertext)) = b.tag
      /\ p = Crypt(keys.enc, b.nonce, b.ciphertext)
  BY DEF DecryptBlob
<1>2. b.tag \in Nat
  BY BlobFields
<1>3. /\ (\E n \in DOMAIN macs : macs[n] = q) => b.tag = TagBase + i
      /\ ~ (\E n \in DOMAIN macs : macs[n] = q) => b.tag = -1
  BY <1>1 DEF Tag, TagOf
<1>4. (\E n \in DOMAIN macs : macs[n] = q) => i \in DOMAIN macs /\ macs[i] = q
  OBVIOUS
<1> HIDE DEF i, q
<1>5. \E n \in DOMAIN macs : macs[n] = q
  BY <1>2, <1>3
<1>6. IssuedAt(macs, i, keys, aad, b)
  BY <1>3, <1>4, <1>5 DEF IssuedAt, q
<1> QED
  BY <1>1, <1>6 DEF Issued, IssuedAt, Hides

\* And a blob whose tag was issued for it opens.
LEMMA IssuedOpens ==
  ASSUME NEW keys, NEW b, NEW aad, NEW p, NoneTwice(macs), Issued(macs, keys, aad, b), Hides(keys, b, p)
  PROVE  DecryptBlob(keys, b, aad) = {p}
<1>1. PICK i \in DOMAIN macs : macs[i] = TagOf(keys, aad, b) /\ b.tag = TagBase + i
  BY DEF Issued, IssuedAt
<1>2. Tag(macs, keys.mac, TagInput(aad, b.nonce, b.ciphertext)) = TagBase + i
  BY <1>1, TagAt DEF TagOf
<1> QED
  BY <1>1, <1>2 DEF DecryptBlob, Hides

\* One tag was issued for one blob.
LEMMA SameBlob ==
  ASSUME NEW ms, NoneTwice(ms), NEW k1, NEW k2, NEW a1 \in Seq(Nat), NEW a2 \in Seq(Nat), NEW b1, NEW b2,
         Issued(ms, k1, a1, b1), Issued(ms, k2, a2, b2), TagOf(k1, a1, b1) = TagOf(k2, a2, b2)
  PROVE  k1.mac = k2.mac /\ a1 = a2 /\ b1 = b2
<1>1. PICK i \in DOMAIN ms : ms[i] = TagOf(k1, a1, b1) /\ b1.tag = TagBase + i
  BY DEF Issued, IssuedAt
<1>2. PICK j \in DOMAIN ms : ms[j] = TagOf(k2, a2, b2) /\ b2.tag = TagBase + j
  BY DEF Issued, IssuedAt
<1>3. i = j
  BY <1>1, <1>2 DEF NoneTwice
<1>4. b1 \in AnyBlob /\ b2 \in AnyBlob
  BY DEF Issued
<1>5. PICK n1 \in Nat, c1 \in Seq(Nat), n2 \in Nat, c2 \in Seq(Nat) :
        n1 = b1.nonce /\ c1 = b1.ciphertext /\ n2 = b2.nonce /\ c2 = b2.ciphertext
  BY <1>4, BlobFields
<1>6. k1.mac = k2.mac /\ TagInput(a1, n1, c1) = TagInput(a2, n2, c2)
  BY <1>5 DEF TagOf
<1>7. a1 \in Seq(Int) /\ a2 \in Seq(Int) /\ c1 \in Seq(Int) /\ c2 \in Seq(Int) /\ n1 \in Int /\ n2 \in Int
  BY SeqMonotonic
<1>8. a1 = a2 /\ n1 = n2 /\ c1 = c2
  BY <1>6, <1>7, TagInputInjective
<1>9. b1.tag = b2.tag
  BY <1>1, <1>2, <1>3
<1>10. b1 = b2
  <2>1. b1 = BlobOf(n1, c1, b1.tag) /\ b2 = BlobOf(n2, c2, b2.tag)
    BY <1>4, <1>5, BlobFields
  <2> QED
    BY <1>8, <1>9, <2>1
<1> QED
  BY <1>6, <1>8, <1>10

\* encrypt_blob issues one tag, for the blob it returns.
Seals1(before, keys, aad, p, e) ==
  /\ NoneTwice(e.macs) /\ IssuedIn(before, e.macs)
  /\ Issued(e.macs, keys, aad, e.blob) /\ Hides(keys, e.blob, p)
  /\ Len(e.blob.ciphertext) = Len(p)
  /\ \A i \in DOMAIN e.macs : e.macs[i] = TagOf(keys, aad, e.blob) \/ \E j \in DOMAIN before : before[j] = e.macs[i]
  /\ \E S : e.macs \in Seq(S)

LEMMA EncryptSeals ==
  ASSUME NEW S0, NEW before \in Seq(S0), NoneTwice(before), NEW keys, NEW nonce \in Nat,
         NEW p \in Seq(0 .. Cells - 1), NEW aad, Keystream(keys.enc, nonce)
  PROVE  Seals1(before, keys, aad, p, EncryptBlob(before, keys, nonce, p, aad))
<1> DEFINE c == Crypt(keys.enc, nonce, p)
           x == <<keys.mac, TagInput(aad, nonce, c)>>
           S == S0 \cup {x}
           listed == Listed(before, x)
           e == EncryptBlob(before, keys, nonce, p, aad)
           b == e.blob
<1>1. /\ e.macs = listed /\ b.nonce = nonce /\ b.ciphertext = c
      /\ b.tag = Tag(listed, keys.mac, TagInput(aad, nonce, c))
      /\ b = BlobOf(nonce, c, b.tag)
  BY DEF EncryptBlob, BlobOf
<1>2. c \in Seq(Nat) /\ Len(c) = Len(p) /\ Crypt(keys.enc, nonce, c) = p
  BY CryptType, CryptUndone
<1>3. x \in S /\ before \in Seq(S)
  BY SeqMonotonic
<1>4. x = TagOf(keys, aad, b)
  BY <1>1 DEF TagOf
<1> HIDE DEF b, e, S
<1>5. /\ listed \in Seq(S) /\ NoneTwice(listed) /\ IssuedIn(before, listed)
      /\ \E i \in DOMAIN listed : listed[i] = x
  <2> HIDE DEF x
  <2> QED
    BY <1>3, ListedOnce
<1>6. \A i \in DOMAIN listed : listed[i] = x \/ \E j \in DOMAIN before : before[j] = listed[i]
  <2> HIDE DEF x
  <2> QED
    BY <1>3, ListedOnly
<1> HIDE DEF listed
<1>7. PICK i \in DOMAIN listed : listed[i] = x
  BY <1>5
<1>8. b.tag = TagBase + i
  BY <1>1, <1>5, <1>7, TagAt
<1>9. b.tag \in Nat
  BY <1>5, <1>7, <1>8, BlobAssumption DEF NoneTwice
<1>10. b \in AnyBlob
  <2> HIDE DEF c
  <2> QED
    BY <1>1, <1>2, <1>9, BlobFields
<1>11. Issued(listed, keys, aad, b)
  BY <1>4, <1>7, <1>8, <1>10 DEF Issued, IssuedAt
<1>12. Hides(keys, b, p) /\ Len(b.ciphertext) = Len(p)
  BY <1>1, <1>2 DEF Hides
<1>13. Seals1(before, keys, aad, p, e)
  BY <1>1, <1>4, <1>5, <1>6, <1>11, <1>12 DEF Seals1, b
<1> QED
  BY <1>13 DEF e

-----------------------------------------------------------------------------
(***************************************************************************)
(* What a run of the program seals and saves.                              *)
(***************************************************************************)

\* The keys and passwords, and what they are used for, have keystreams of numbers.
SomeKey ==
  {MasterKey, FileKey, OtherKey}
  \cup {PasswordKey(p, s, i) : p \in Password, s \in Strings(MinSalt, MinSalt),
                               i \in MinIterations .. MinIterations + 1}
Purpose == {"manifest", "wrap", "content", "meta"}
Keystreams == \A k \in SomeKey, purpose \in Purpose, n \in Byte : Keystream(Keys(k, purpose).enc, n)

\* A file that is no longer than read_file admits.
LimitFits(v) ==
  /\ v.kind = "manifest" => Len(v.blob.ciphertext) + 4 <= MaxFileBytes
  /\ v.kind = "object" => Len(v.wrapped.ciphertext) + Len(v.content.ciphertext) + 7 <= MaxFileBytes
  /\ v.kind = "meta" => Len(v.salt) + Len(v.master.ciphertext) + 6 <= MaxFileBytes

SaltFits(v) ==
  v.kind = "meta" => v.iterations \in MinIterations .. MinIterations + 1 /\ v.salt \in Strings(MinSalt, MinSalt)

SavedList(v) == v \in Value /\ v.kind = "list"
SavedFile(v) == v \in AnyFile /\ Fits(v) /\ SaltFits(v) /\ (FilesFit => LimitFits(v))
Saved(v) == SavedList(v) \/ SavedFile(v)

LEMMA BlobIsAny ==
  ASSUME LengthsFit, NEW b \in Blob
  PROVE  b \in AnyBlob /\ Len(b.ciphertext) \in Nat /\ Len(b.ciphertext) <= MaxContent
<1>1. b.nonce \in Byte /\ b.ciphertext \in Strings(0, MaxContent) /\ b.tag \in Byte
  BY DEF Blob
<1>2. b = BlobOf(b.nonce, b.ciphertext, b.tag)
  BY DEF Blob, BlobOf
<1>3. b.ciphertext \in Seq(Nat) /\ Len(b.ciphertext) \in Nat /\ Len(b.ciphertext) <= MaxContent
  BY <1>1, Naturals, StringsType
<1>4. b.nonce \in Nat /\ b.tag \in Nat
  BY <1>1, Naturals
<1> QED
  BY <1>2, <1>3, <1>4, BlobFields

LEMMA KeyIsAny ==
  ASSUME NEW b \in Key
  PROVE  b \in AnyBlob /\ Len(b.ciphertext) = 1
<1>1. PICK c \in Byte : b.nonce \in Byte /\ b.ciphertext = <<c>> /\ b.tag = 0
  BY DEF Key
<1>2. b = BlobOf(b.nonce, b.ciphertext, b.tag)
  BY DEF Key, BlobOf
<1>3. c \in Nat /\ b.nonce \in Nat /\ b.tag \in Nat
  <2>1. 0 \in Nat
    OBVIOUS
  <2> QED
    BY <1>1, <2>1, Naturals, Zenon
<1>4. b.ciphertext \in Seq(Nat) /\ Len(b.ciphertext) = 1
  BY <1>1, <1>3, Single
<1> QED
  BY <1>2, <1>3, <1>4, BlobFields

\* What the model writes without sealing it can be saved.
LEMMA ValueSaved ==
  ASSUME LengthsFit, NEW v \in Value
  PROVE  Saved(v)
<1>1. CASE v.kind = "list"
  BY <1>1 DEF Saved, SavedList
<1>2. CASE v \in [kind : {"manifest"}, blob : Blob]
  <2>1. v.kind = "manifest" /\ v = ManifestOf(v.blob) /\ v.blob \in Blob
    BY <1>2 DEF ManifestOf
  <2>2. PICK n \in Nat : v.blob \in AnyBlob /\ n = Len(v.blob.ciphertext) /\ n <= MaxContent
    BY <2>1, BlobIsAny
  <2>3. v \in AnyFile
    BY <2>1, <2>2, ManifestFields DEF AnyFile
  <2>4. n < Word /\ (FilesFit => n + 4 <= MaxFileBytes)
    BY <2>2, Naturals DEF LengthsFit, FilesFit
  <2> QED
    BY <2>1, <2>2, <2>3, <2>4 DEF Saved, SavedFile, Fits, FitsBlob, SaltFits, LimitFits
<1>3. CASE v \in [kind : {"object"}, wrapped : Key, content : Blob]
  <2>1. v.kind = "object" /\ v = ObjectOf(v.wrapped, v.content) /\ v.wrapped \in Key /\ v.content \in Blob
    BY <1>3 DEF ObjectOf
  <2>2. PICK n \in Nat : v.content \in AnyBlob /\ n = Len(v.content.ciphertext) /\ n <= MaxContent
    BY <2>1, BlobIsAny
  <2>3. PICK m \in Nat : v.wrapped \in AnyBlob /\ m = Len(v.wrapped.ciphertext) /\ m = 1
    BY <2>1, KeyIsAny
  <2>4. v \in AnyFile
    BY <2>1, <2>2, <2>3, ObjectFields DEF AnyFile
  <2>5. m < Word /\ n < Word /\ (FilesFit => m + n + 7 <= MaxFileBytes)
    BY <2>2, <2>3, Naturals DEF LengthsFit, FilesFit
  <2> QED
    BY <2>1, <2>2, <2>3, <2>4, <2>5 DEF Saved, SavedFile, Fits, FitsBlob, SaltFits, LimitFits
<1>4. CASE v \in [kind : {"meta"}, iterations : MinIterations .. MinIterations + 1,
                  salt : Strings(MinSalt, MinSalt), master : Key]
  <2>1. /\ v.kind = "meta" /\ v = MetaOf(v.iterations, v.salt, v.master) /\ v.master \in Key
        /\ v.iterations \in MinIterations .. MinIterations + 1 /\ v.salt \in Strings(MinSalt, MinSalt)
    BY <1>4 DEF MetaOf
  <2>2. PICK m \in Nat : v.master \in AnyBlob /\ m = Len(v.master.ciphertext) /\ m = 1
    BY <2>1, KeyIsAny
  <2>3. PICK s \in Nat : v.salt \in Seq(Nat) /\ s = Len(v.salt) /\ s = MinSalt
    <3>1. v.salt \in Seq(Nat) /\ Len(v.salt) \in Nat /\ MinSalt <= Len(v.salt) /\ Len(v.salt) <= MinSalt
      BY <2>1, Naturals, StringsType
    <3> QED
      BY <3>1, Naturals
  <2>4. v.iterations \in Nat /\ MinIterations <= v.iterations /\ v.iterations < Word
        /\ Len(v.salt) \in MinSalt .. MaxSalt
    BY <2>1, <2>3, Naturals DEF LengthsFit
  <2>5. v \in AnyFile
    <3>1. PICK n \in Nat, q \in Seq(Nat), k \in AnyBlob : n = v.iterations /\ q = v.salt /\ k = v.master
      BY <2>2, <2>3, <2>4
    <3>2. MetaOf(n, q, k) \in AnyMeta
      BY <2>4, <3>1, MetaFields
    <3>3. v = MetaOf(n, q, k)
      BY <2>1, <3>1
    <3> QED
      BY <3>2, <3>3 DEF AnyFile
  <2>6. m < Word /\ s < Word /\ (FilesFit => s + m + 6 <= MaxFileBytes)
    BY <2>2, <2>3, Naturals DEF LengthsFit, FilesFit
  <2> QED
    BY <2>1, <2>2, <2>3, <2>4, <2>5, <2>6 DEF Saved, SavedFile, Fits, FitsBlob, SaltFits, LimitFits
<1> QED
  BY <1>1, <1>2, <1>3, <1>4 DEF Value

\* The length of a part, and of what is behind it.
HasLength(b, n) == b \in Seq(Nat) /\ Len(b) = n

LEMMA FrontLength ==
  ASSUME NEW c \in Nat, NEW r, NEW m \in Nat, HasLength(r, m)
  PROVE  HasLength(<<c>> \o r, m + 1)
<1>1. PICK l \in Seq(Nat) : l = <<c>> /\ Len(l) = 1
  BY Single
<1>2. l \o r \in Seq(Nat) /\ Len(l \o r) = Len(l) + Len(r)
  BY ConcatProperties DEF HasLength
<1>3. HasLength(l \o r, m + 1)
  BY <1>1, <1>2 DEF HasLength
<1> QED
  BY <1>1, <1>3

LEMMA FramedLength ==
  ASSUME NEW s, NEW n \in Nat, HasLength(s, n), NEW r, NEW m \in Nat, HasLength(r, m)
  PROVE  HasLength(Framed(s, r), n + m + 1)
<1>1. PICK k \in Nat : k = n + m
  OBVIOUS
<1>2. PICK t : t = s \o r /\ HasLength(t, k)
  BY <1>1, ConcatProperties DEF HasLength
<1>3. HasLength(<<n>> \o t, k + 1)
  BY <1>2, FrontLength
<1>4. Framed(s, r) = <<n>> \o t
  BY <1>2 DEF Framed, HasLength
<1> QED
  BY <1>1, <1>3, <1>4

LEMMA BlobLength ==
  ASSUME NEW x \in AnyBlob, NEW n \in Nat, HasLength(x.ciphertext, n), NEW r, NEW m \in Nat, HasLength(r, m)
  PROVE  HasLength(BlobCells(x, r), n + m + 3)
<1>1. PICK a \in Nat, c \in Seq(Nat), t \in Nat : a = x.nonce /\ c = x.ciphertext /\ t = x.tag
  BY BlobFields
<1>2. PICK k \in Nat, l \in Nat : k = m + 1 /\ l = n + k + 1 /\ l + 1 = n + m + 3
  OBVIOUS
<1>3. PICK y : y = <<t>> \o r /\ HasLength(y, k)
  BY <1>2, FrontLength
<1>4. PICK z : z = Framed(c, y) /\ HasLength(z, l)
  BY <1>1, <1>2, <1>3, FramedLength
<1>5. HasLength(<<a>> \o z, l + 1)
  BY <1>4, FrontLength
<1>6. BlobCells(x, r) = <<a>> \o z
  BY <1>1, <1>3, <1>4 DEF BlobCells
<1> QED
  BY <1>2, <1>5, <1>6

LEMMA FileLength ==
  ASSUME NEW v \in AnyFile, LimitFits(v)
  PROVE  Len(FileCells(v, <<>>)) <= MaxFileBytes
<1>1. PICK e : e = <<>> /\ HasLength(e, 0)
  BY EmptySeq DEF HasLength
<1>2. MagicCell(v.kind) \in Nat
  BY KindOf, MagicIs DEF FileKinds
<1>3. ASSUME NEW b, b = BodyCells(v, <<>>), NEW k \in Nat, HasLength(b, k), k + 1 <= MaxFileBytes
      PROVE  Len(FileCells(v, <<>>)) <= MaxFileBytes
  <2>1. HasLength(<<MagicCell(v.kind)>> \o b, k + 1)
    BY <1>2, <1>3, FrontLength
  <2>2. HasLength(FileCells(v, <<>>), k + 1)
    BY <1>3, <2>1 DEF FileCells
  <2> QED
    BY <1>3, <2>2 DEF HasLength
<1>4. CASE v \in AnyManifest
  <2>1. PICK x \in AnyBlob : x = v.blob
    BY <1>4, ManifestFields
  <2>2. PICK n \in Nat : n = Len(x.ciphertext) /\ HasLength(x.ciphertext, n)
    BY BlobFields, LenProperties DEF HasLength
  <2>3. v.kind = "manifest" /\ BodyCells(v, <<>>) = BlobCells(x, e)
    BY <1>1, <1>4, <2>1, KindOf DEF BodyCells, ManifestCells
  <2>4. HasLength(BlobCells(x, e), n + 0 + 3)
    BY <1>1, <2>2, BlobLength
  <2>5. n + 4 <= MaxFileBytes
    BY <2>1, <2>2, <2>3 DEF LimitFits
  <2>6. PICK k \in Nat : k = n + 0 + 3 /\ k + 1 <= MaxFileBytes
    BY <2>5, Naturals
  <2> QED
    BY <1>3, <2>3, <2>4, <2>6
<1>5. CASE v \in AnyObject
  <2>1. PICK w \in AnyBlob, c \in AnyBlob : w = v.wrapped /\ c = v.content
    BY <1>5, ObjectFields
  <2>2. PICK n \in Nat, m \in Nat :
          /\ n = Len(w.ciphertext) /\ HasLength(w.ciphertext, n)
          /\ m = Len(c.ciphertext) /\ HasLength(c.ciphertext, m)
    BY BlobFields, LenProperties DEF HasLength
  <2>3. PICK k \in Nat, l \in Nat : k = m + 0 + 3 /\ l = n + k + 3 /\ l + 1 = n + m + 7
    OBVIOUS
  <2>4. PICK d : d = BlobCells(c, e) /\ HasLength(d, k)
    BY <1>1, <2>2, <2>3, BlobLength
  <2>5. PICK b : b = BlobCells(w, d) /\ HasLength(b, l)
    BY <2>2, <2>3, <2>4, BlobLength
  <2>6. v.kind = "object" /\ BodyCells(v, <<>>) = b
    BY <1>1, <1>5, <2>1, <2>4, <2>5, KindOf DEF BodyCells, ObjectCells
  <2>7. n + m + 7 <= MaxFileBytes
    BY <2>1, <2>2, <2>6 DEF LimitFits
  <2> QED
    BY <1>3, <2>3, <2>5, <2>6, <2>7
<1>6. CASE v \in AnyMeta
  <2>1. PICK i \in Nat, s \in Seq(Nat), m \in AnyBlob : i = v.iterations /\ s = v.salt /\ m = v.master
    BY <1>6, MetaFields
  <2>2. PICK n \in Nat, q \in Nat :
          n = Len(s) /\ HasLength(s, n) /\ q = Len(m.ciphertext) /\ HasLength(m.ciphertext, q)
    BY BlobFields, LenProperties DEF HasLength
  <2>3. PICK k \in Nat, l \in Nat : k = q + 0 + 3 /\ l = n + k + 1 /\ l + 1 + 1 = n + q + 6
    OBVIOUS
  <2>4. PICK d : d = BlobCells(m, e) /\ HasLength(d, k)
    BY <1>1, <2>2, <2>3, BlobLength
  <2>5. PICK f : f = Framed(s, d) /\ HasLength(f, l)
    BY <2>2, <2>3, <2>4, FramedLength
  <2>6. PICK b : b = <<i>> \o f /\ HasLength(b, l + 1)
    BY <2>5, FrontLength
  <2>7. v.kind = "meta" /\ BodyCells(v, <<>>) = b
    BY <1>1, <1>6, <2>1, <2>4, <2>5, <2>6, KindOf DEF BodyCells, MetaCells
  <2>8. n + q + 6 <= MaxFileBytes
    BY <2>1, <2>2, <2>7 DEF LimitFits
  <2>9. l + 1 \in Nat /\ l + 1 + 1 <= MaxFileBytes
    BY <2>3, <2>8
  <2> QED
    BY <1>3, <2>6, <2>7, <2>9
<1> QED
  BY <1>4, <1>5, <1>6 DEF AnyFile

LEMMA ListIsAny ==
  ASSUME LengthsFit, NEW v, SavedList(v)
  PROVE  /\ v = ListOf(v.entries) /\ v.entries \in Seq(Entry)
         /\ v.entries \in Seq(AnyEntry) /\ FitEntries(v.entries)
         /\ Len(v.entries) < Word /\ Len(v.entries) <= MaxEntries
<1>1. v \in [kind : {"list"}, entries : {es \in BoundedSeq(Entry, MaxList) : Distinct(es)}]
  BY DEF SavedList, Value
<1>2. v = ListOf(v.entries) /\ v.entries \in BoundedSeq(Entry, MaxList)
  BY <1>1 DEF ListOf
<1>3. v.entries \in Seq(Entry) /\ Len(v.entries) \in 0 .. MaxList
  BY <1>2, BoundedType, Naturals
<1>4. Entry \subseteq AnyEntry
  BY EntryType
<1>5. v.entries \in Seq(AnyEntry)
  BY <1>3, <1>4, SeqMonotonic
<1>6. FitEntries(v.entries)
  <2>1. ASSUME NEW i \in 1 .. Len(v.entries)
        PROVE  Len(v.entries[i].id) < Word /\ Len(v.entries[i].name) < Word
    <3>1. PICK e \in Entry : e = v.entries[i]
      BY <1>3, ElementOfSeq
    <3> QED
      BY <3>1, EntryType
  <2> QED
    BY <2>1 DEF FitEntries
<1> QED
  BY <1>2, <1>3, <1>5, <1>6, Naturals DEF LengthsFit

\* What has been saved is one file that loads as what it is.
LEMMA SavedLoads ==
  ASSUME LengthsFit, NEW v, Saved(v)
  PROVE  /\ Serialized(v) \in Seq(Nat) /\ Parsed(v.kind, Serialized(v)) = {v}
         /\ FilesFit => Len(Serialized(v)) <= MaxFileBytes
<1>1. CASE SavedList(v)
  <2>1. v.kind = "list" /\ v \in Value
    BY <1>1 DEF SavedList
  <2>2. Serialized(v) \in Seq(Nat) /\ Parsed("list", Serialized(v)) = {v}
    BY <1>1, ListIsAny, ListLoads
  <2> QED
    BY <2>1, <2>2 DEF FilesFit
<1>2. CASE SavedFile(v)
  <2>1. v \in AnyFile /\ Fits(v) /\ (FilesFit => LimitFits(v))
    BY <1>2 DEF SavedFile
  <2>2. Serialized(v) \in Seq(Nat) /\ Parsed(v.kind, Serialized(v)) = {v}
    BY <2>1, OnlyWholeFile
  <2>3. Serialized(v) = FileCells(v, <<>>)
    <3>1. <<>> \in Seq(Nat) /\ Serialized(v) \o <<>> = Serialized(v)
      BY <2>2, ConcatEmptySeq, EmptySeq
    <3> QED
      BY <2>1, <3>1, FileWritten
  <2> QED
    BY <2>1, <2>2, <2>3, FileLength
<1> QED
  BY <1>1, <1>2 DEF Saved

-----------------------------------------------------------------------------
(***************************************************************************)
(* The keys of a vault, and what is sealed under them.                     *)
(***************************************************************************)
ManifestKeys   == Keys(MasterKey, "manifest")
WrapKeys       == Keys(MasterKey, "wrap")
ContentKeys(k) == Keys(k, "content")
MetaKeys(p, s, n) == Keys(PasswordKey(p, s, n), "meta")

ManifestData   == Aad([seals |-> "manifest"])
WrapData(e)    == Aad([seals |-> "wrap", id |-> e.id])
ContentData(e) == Aad([seals |-> "object", entry |-> e])
MetaData(s, n) == Aad([seals |-> "meta", iterations |-> n, salt |-> s])

\* Keys of different purposes, and of different files, are not the same.
LEMMA MacsDiffer ==
  /\ WrapKeys.mac # ContentKeys(FileKey).mac /\ WrapKeys.mac # ContentKeys(OtherKey).mac
  /\ ContentKeys(FileKey).mac # ContentKeys(OtherKey).mac
<1>1. \A a, b, c, d \in Nat : Append(<<a>>, c) = Append(<<b>>, d) => a = b /\ c = d
  <2>1. \A a, c \in Nat : Append(<<a>>, c)[1] = a /\ Append(<<a>>, c)[2] = c
    OBVIOUS
  <2>2. ASSUME NEW a \in Nat, NEW b \in Nat, NEW c \in Nat, NEW d \in Nat,
               Append(<<a>>, c) = Append(<<b>>, d)
        PROVE  a = b /\ c = d
    <3>1. PICK q : q = Append(<<a>>, c)
      OBVIOUS
    <3>2. q[1] = a /\ q[2] = c
      BY <2>1, <3>1
    <3>3. q = Append(<<b>>, d)
      BY <2>2, <3>1
    <3>4. q[1] = b /\ q[2] = d
      BY <2>1, <3>3
    <3> QED
      BY <3>2, <3>4
  <2> QED
    BY <2>2
<1>2. /\ WrapKeys.mac = Append(<<40>>, 4)
      /\ ContentKeys(FileKey).mac = Append(<<41>>, 6) /\ ContentKeys(OtherKey).mac = Append(<<42>>, 6)
  BY DEF WrapKeys, ContentKeys, Keys, Derived, Info, MasterKey, FileKey, OtherKey
<1>3. ~ 40 = 41 /\ ~ 40 = 42 /\ ~ 41 = 42 /\ {40, 41, 42, 4, 6} \subseteq Nat
  OBVIOUS
<1> QED
  BY <1>1, <1>2, <1>3

OneEnd(s, t, c) == Append(s, c) = Append(t, c) => s = t

\* A password, a salt and a count have a key of their own.
LEMMA MetaKeyOnce ==
  ASSUME NEW p1, NEW p2, NEW n1 \in Nat, NEW n2 \in Nat, NEW s1 \in Seq(Nat), NEW s2 \in Seq(Nat),
         MetaKeys(p1, s1, n1).mac = MetaKeys(p2, s2, n2).mac
  PROVE  p1 = p2 /\ s1 = s2 /\ n1 = n2
<1>1. PICK S : S = Nat \cup {p1, p2}
  OBVIOUS
<1>2. s1 \in Seq(S) /\ s2 \in Seq(S)
  BY <1>1, SeqMonotonic
<1>3. ASSUME NEW p \in {p1, p2}, NEW n \in Nat, NEW l \in Nat
      PROVE  <<p, n, l>> \in Seq(S) /\ Len(<<p, n, l>>) = 3
               /\ <<p, n, l>>[1] = p /\ <<p, n, l>>[2] = n
  BY <1>1, <1>3
<1>4. PICK l1 \in Nat, l2 \in Nat : l1 = Len(s1) /\ l2 = Len(s2)
  BY LenProperties
<1>5. PICK h1 \in Seq(S), h2 \in Seq(S) : h1 = <<p1, n1, l1>> /\ h2 = <<p2, n2, l2>>
  BY <1>3
<1>6. PICK w \in Seq(S) : w = <<8>>
  BY <1>1, Single
<1>7. MetaKeys(p1, s1, n1).mac = Append(h1 \o s1, 8) /\ MetaKeys(p2, s2, n2).mac = Append(h2 \o s2, 8)
  BY <1>4, <1>5 DEF MetaKeys, Keys, Derived, Info, PasswordKey
<1>12. Append(h1 \o s1, 8) = Append(h2 \o s2, 8)
  BY <1>7
<1>8. h1 \o s1 \in Seq(S) /\ h2 \o s2 \in Seq(S)
  BY <1>2, ConcatProperties
<1>9. h1 \o s1 = h2 \o s2
  <2>1. PICK q1 \in Seq(S), q2 \in Seq(S) : q1 = h1 \o s1 /\ q2 = h2 \o s2
    BY <1>8
  <2>2. PICK c \in S : c = 8
    BY <1>1
  <2>3. Append(q1, c) = Append(q2, c)
    BY <1>7, <1>12, <2>1, <2>2
  <2>4. OneEnd(q1, q2, c)
    BY <2>2, AppendInjective DEF OneEnd
  <2> QED
    BY <2>1, <2>3, <2>4 DEF OneEnd
<1>10. h1 = h2 /\ s1 = s2
  <2>1. Len(h1) = Len(h2)
    BY <1>3, <1>4, <1>5
  <2> QED
    BY <1>2, <1>9, <2>1, SplitOnce
<1>11. h1[1] = p1 /\ h1[2] = n1 /\ h2[1] = p2 /\ h2[2] = n2
  BY <1>3, <1>4, <1>5
<1> QED
  BY <1>10, <1>11

-----------------------------------------------------------------------------
\* The plaintext p is sealed in b under these keys, for this data.
SealedIn(ms, keys, aad, p, b) == Issued(ms, keys, aad, b) /\ Hides(keys, b, p)

SealedManifest(g, v, ms) ==
  /\ v \in AnyManifest
  /\ SealedIn(ms, ManifestKeys, ManifestData, Serialized(ListOf(g.entries)), v.blob)
  /\ \A i \in DOMAIN ms : ms[i] = TagOf(ManifestKeys, ManifestData, v.blob)

\* An entry's object: the content under a key of its own, and that key.
Sealing1(ms, k, e, content, v) ==
  /\ v \in AnyObject /\ FitsBlob(v.wrapped) /\ FitsBlob(v.content)
  /\ SealedIn(ms, ContentKeys(k), ContentData(e), content, v.content)
  /\ SealedIn(ms, WrapKeys, WrapData(e), k, v.wrapped)

\* The object of g, and another, of an entry with an id of its own.
SealedObject(g, v, ms, o) ==
  /\ Sealing1(ms, FileKey, g.entry, g.content, v)
  /\ \E e \in GoalEntry :
       /\ e.id # g.entry.id /\ Sealing1(ms, OtherKey, e, e.name, o)
       /\ \A i \in DOMAIN ms :
            \/ ms[i] = TagOf(ContentKeys(FileKey), ContentData(g.entry), v.content)
            \/ ms[i] = TagOf(WrapKeys, WrapData(g.entry), v.wrapped)
            \/ ms[i] = TagOf(ContentKeys(OtherKey), ContentData(e), o.content)
            \/ ms[i] = TagOf(WrapKeys, WrapData(e), o.wrapped)

SealedMeta(g, v, ms) ==
  /\ v \in AnyMeta /\ v.iterations = g.iterations /\ v.salt = g.salt
  /\ LET keys == MetaKeys(g.password, g.salt, g.iterations)
     IN  /\ SealedIn(ms, keys, MetaData(g.salt, g.iterations), MasterKey, v.master)
         /\ \A i \in DOMAIN ms : ms[i] = TagOf(keys, MetaData(g.salt, g.iterations), v.master)

LEMMA GoalEntryType ==
  ASSUME LengthsFit, NEW e \in GoalEntry
  PROVE  /\ e \in AnyEntry /\ Len(e.id) = 1 /\ Len(e.name) = 1 /\ Len(e.id) < Word /\ Len(e.name) < Word
         /\ e.id \in Seq(Nat) /\ e.name \in Strings(1, 1)
<1>1. /\ e.id \in Strings(1, 1) /\ e.name \in Strings(1, 1)
      /\ e.size \in Nat /\ e.added_unix_seconds \in Nat
      /\ e = EntryOf(e.id, e.name, e.size, e.added_unix_seconds)
  BY DEF GoalEntry, Number, EntryOf
<1>2. /\ e.id \in Seq(Nat) \ {<<>>} /\ Len(e.id) = 1
      /\ e.name \in Seq(Nat) \ {<<>>} /\ Len(e.name) = 1
  <2>1. 1 \in Nat /\ 1 # 0
    OBVIOUS
  <2>2. ASSUME NEW s \in Strings(1, 1)
        PROVE  s \in Seq(Nat) \ {<<>>} /\ Len(s) = 1
    <3>1. s \in Seq(Nat) /\ Len(s) \in Nat /\ 1 <= Len(s) /\ Len(s) <= 1 /\ s # <<>>
      BY <2>1, <2>2, StringsType
    <3>2. \A n \in Nat : 1 <= n /\ n <= 1 => n = 1
      OBVIOUS
    <3>3. Len(s) = 1
      BY <3>1, <3>2
    <3> QED
      BY <3>1, <3>3, Zenon
  <2> QED
    BY <1>1, <2>2
<1>3. e.size \in Nat /\ e.added_unix_seconds \in Nat
  BY <1>1
<1>4. e \in AnyEntry
  <2>1. e.id \in Seq(Nat) \ {<<>>} /\ e.name \in Seq(Nat) \ {<<>>}
    BY <1>2
  <2>2. EntryOf(e.id, e.name, e.size, e.added_unix_seconds) \in AnyEntry
    BY <1>3, <2>1, EntryMade
  <2> QED
    BY <1>1, <2>2, Zenon
<1>5. 1 < Word
  BY Naturals DEF LengthsFit
<1> QED
  BY <1>1, <1>2, <1>4, <1>5

LEMMA DataType ==
  ASSUME LengthsFit
  PROVE  /\ ManifestData \in Seq(Nat)
         /\ \A e \in GoalEntry : WrapData(e) \in Seq(Nat) /\ ContentData(e) \in Seq(Nat)
         /\ \A s \in Strings(MinSalt, MinSalt), n \in MinIterations .. MinIterations + 1 :
              MetaData(s, n) \in Seq(Nat)
         /\ \A e, f \in GoalEntry : WrapData(e) = WrapData(f) => e.id = f.id
<1>1. ASSUME NEW x, SealsOf(x)
      PROVE  Aad(x) \in Seq(Nat)
  <2>1. Label[x.seals] \in Seq(Nat) /\ Purposed(x) \in Seq(Nat) /\ Aad(x) = Framed(Label[x.seals], Purposed(x))
    BY <1>1, AadWritten, Labels
  <2> QED
    BY <2>1, FramedType
<1>2. SealsOf([seals |-> "manifest"])
  BY DEF SealsOf
<1>3. ASSUME NEW e \in GoalEntry
      PROVE  SealsOf([seals |-> "wrap", id |-> e.id]) /\ SealsOf([seals |-> "object", entry |-> e])
  BY <1>3, GoalEntryType DEF SealsOf
<1>4. ASSUME NEW s \in Strings(MinSalt, MinSalt), NEW n \in MinIterations .. MinIterations + 1
      PROVE  SealsOf([seals |-> "meta", iterations |-> n, salt |-> s])
  <2>1. [seals |-> "meta", iterations |-> n, salt |-> s] \in Sealable
    BY DEF Sealable
  <2> QED
    BY <2>1, SealableType
<1>5. ASSUME NEW e \in GoalEntry, NEW f \in GoalEntry, WrapData(e) = WrapData(f)
      PROVE  e.id = f.id
  <2>1. PICK x, y : /\ x = [seals |-> "wrap", id |-> e.id] /\ SealsOf(x)
                    /\ y = [seals |-> "wrap", id |-> f.id] /\ SealsOf(y)
    BY <1>3
  <2>2. Aad(x) = Aad(y)
    BY <1>5, <2>1 DEF WrapData
  <2>3. x = y
    BY <2>1, <2>2, AadOnce
  <2> QED
    BY <2>1, <2>3
<1>6. ManifestData \in Seq(Nat)
  BY <1>1, <1>2 DEF ManifestData
<1>7. ASSUME NEW e \in GoalEntry PROVE WrapData(e) \in Seq(Nat) /\ ContentData(e) \in Seq(Nat)
  BY <1>1, <1>3 DEF WrapData, ContentData
<1>8. ASSUME NEW s \in Strings(MinSalt, MinSalt), NEW n \in MinIterations .. MinIterations + 1
      PROVE  MetaData(s, n) \in Seq(Nat)
  BY <1>1, <1>4 DEF MetaData
<1> QED
  BY <1>5, <1>6, <1>7, <1>8

-----------------------------------------------------------------------------
(***************************************************************************)
(* What a value on disk opens to, for each kind of file.                   *)
(***************************************************************************)

LEMMA OpensSealed ==
  ASSUME NEW keys, NEW aad, NEW p, NEW b, NoneTwice(macs), SealedIn(macs, keys, aad, p, b)
  PROVE  DecryptBlob(keys, b, aad) = {p}
BY IssuedOpens DEF SealedIn

\* A blob that opens has the tag of one that is sealed only if it is that one.
LEMMA OpenedIs ==
  ASSUME NoneTwice(macs), NEW k, NEW a \in Seq(Nat), NEW b1 \in AnyBlob, DecryptBlob(k, b1, a) # {},
         NEW b2, NEW p, SealedIn(macs, k, a, p, b2), TagOf(k, a, b1) = TagOf(k, a, b2)
  PROVE  b1 = b2
<1>1. PICK q : q \in DecryptBlob(k, b1, a)
  OBVIOUS
<1>2. Issued(macs, k, a, b1)
  BY <1>1, OpenedIssued
<1>3. Issued(macs, k, a, b2)
  BY DEF SealedIn
<1>4. TagOf(k, a, b1) = TagOf(k, a, b2) /\ NoneTwice(macs)
  OBVIOUS
<1>5. k.mac = k.mac /\ a = a /\ b1 = b2
  BY ONLY <1>2, <1>3, <1>4, a \in Seq(Nat), SameBlob
<1> QED
  BY <1>5

LEMMA SameData ==
  ASSUME NEW ms, NoneTwice(ms), NEW k, NEW a1 \in Seq(Nat), NEW a2 \in Seq(Nat), NEW b1, NEW b2,
         Issued(ms, k, a1, b1), Issued(ms, k, a2, b2), TagOf(k, a1, b1) = TagOf(k, a2, b2)
  PROVE  a1 = a2
BY SameBlob

LEMMA OpenedHasTag ==
  ASSUME NEW k, NEW a, NEW b \in AnyBlob, NEW q \in DecryptBlob(k, b, a)
  PROVE  \E i \in DOMAIN macs : macs[i] = TagOf(k, a, b)
BY OpenedIssued DEF Issued, IssuedAt

LEMMA GoalListIsAny ==
  ASSUME LengthsFit, NEW g \in Goal, g.kind = "manifest"
  PROVE  /\ g.entries \in Seq(AnyEntry) /\ FitEntries(g.entries)
         /\ Len(g.entries) < Word /\ Len(g.entries) <= MaxEntries
         /\ g = [kind |-> "manifest", entries |-> g.entries]
<1>1. g \in [kind : {"manifest"}, entries : {es \in BoundedSeq(GoalEntry, MaxList) : Distinct(es)}]
  BY DEF Goal
<1>2. g.entries \in BoundedSeq(GoalEntry, MaxList) /\ g = [kind |-> "manifest", entries |-> g.entries]
  BY <1>1
<1>3. g.entries \in Seq(GoalEntry) /\ Len(g.entries) \in 0 .. MaxList
  BY <1>2, BoundedType, Naturals
<1>4. GoalEntry \subseteq AnyEntry
  BY GoalEntryType
<1>5. g.entries \in Seq(AnyEntry)
  BY <1>3, <1>4, SeqMonotonic
<1>6. FitEntries(g.entries)
  <2>1. ASSUME NEW i \in 1 .. Len(g.entries)
        PROVE  Len(g.entries[i].id) < Word /\ Len(g.entries[i].name) < Word
    <3>1. PICK e \in GoalEntry : e = g.entries[i]
      BY <1>3, ElementOfSeq
    <3> QED
      BY <3>1, GoalEntryType
  <2> QED
    BY <2>1 DEF FitEntries
<1> QED
  BY <1>2, <1>3, <1>5, <1>6, Naturals DEF LengthsFit

LEMMA ManifestOpens ==
  ASSUME LengthsFit, goal \in Goal, goal.kind = "manifest", NoneTwice(macs),
         NEW v, SealedManifest(goal, v, macs)
  PROVE  /\ OpenManifest(v) = {goal}
         /\ \A w \in AnyManifest : w # v => OpenManifest(w) = {}
<1> DEFINE plain == Serialized(ListOf(goal.entries))
           Decrypted(w) == DecryptBlob(ManifestKeys, w.blob, ManifestData)
           Lists(p) == {[kind |-> "manifest", entries |-> l.entries] : l \in Parsed("list", p)}
<1>1. \A w : OpenManifest(w) = UNION {Lists(p) : p \in Decrypted(w)}
  BY DEF OpenManifest, ManifestKeys, ManifestData
<1>2. SealedIn(macs, ManifestKeys, ManifestData, plain, v.blob) /\ v \in AnyManifest
  BY DEF SealedManifest
<1>3. ManifestData \in Seq(Nat)
  BY DataType
<1>4. OpenManifest(v) = {goal}
  <2>1. Decrypted(v) = {plain}
    BY <1>2, OpensSealed
  <2>2. Parsed("list", plain) = {ListOf(goal.entries)}
    BY GoalListIsAny, ListLoads
  <2> HIDE DEF plain
  <2>3. Lists(plain) = {goal}
    <3>0. PICK l : l = ListOf(goal.entries)
      OBVIOUS
    <3>1. l = ListOf(goal.entries) /\ l.entries = goal.entries
      BY <3>0 DEF ListOf
    <3>2. Lists(plain) = {[kind |-> "manifest", entries |-> l.entries]}
      BY <2>2, <3>1
    <3>3. goal = [kind |-> "manifest", entries |-> goal.entries]
      BY GoalListIsAny
    <3> QED
      BY <3>1, <3>2, <3>3
  <2> HIDE DEF Lists, Decrypted
  <2> QED
    BY <1>1, <2>1, <2>3
<1>5. ASSUME NEW w \in AnyManifest, NEW q \in Decrypted(w)
      PROVE  w = v
  <2>1. w.blob \in AnyBlob
    BY ManifestFields
  <2>2. TagOf(ManifestKeys, ManifestData, w.blob) = TagOf(ManifestKeys, ManifestData, v.blob)
    BY <1>5, <2>1, OpenedHasTag DEF SealedManifest
  <2>3. w.blob = v.blob
    BY <1>2, <1>3, <1>5, <2>1, <2>2, OpenedIs
  <2> QED
    BY <1>2, <2>3, ManifestFields
<1> HIDE DEF Lists, Decrypted
<1>6. ASSUME NEW w \in AnyManifest, w # v
      PROVE  OpenManifest(w) = {}
  <2>1. Decrypted(w) = {}
    BY <1>5, <1>6
  <2> QED
    BY <1>1, <2>1
<1> QED
  BY <1>4, <1>6

LEMMA MetaOpens ==
  ASSUME LengthsFit, goal \in Goal, goal.kind = "meta", NoneTwice(macs),
         NEW v, SealedMeta(goal, v, macs)
  PROVE  /\ OpenMeta(v) = IF goal.attempt = goal.password THEN {[master |-> MasterKey]} ELSE {}
         /\ \A w \in AnyMeta : w # v => OpenMeta(w) = {}
<1> DEFINE Decrypted(w) == DecryptBlob(MetaKeys(goal.attempt, w.salt, w.iterations), w.master,
                                       MetaData(w.salt, w.iterations))
<1>1. \A w : OpenMeta(w) = {[master |-> m] : m \in {k \in Decrypted(w) : Len(k) = Len(MasterKey)}}
  BY DEF OpenMeta, MetaKeys, MetaData
<1>2. goal.iterations \in MinIterations .. MinIterations + 1 /\ goal.salt \in Strings(MinSalt, MinSalt)
  BY DEF Goal
<1>3. PICK s \in Seq(Nat), n \in Nat : s = goal.salt /\ n = goal.iterations
  BY <1>2, StringsType, Naturals
<1>9. PICK keys : keys = MetaKeys(goal.password, s, n)
  OBVIOUS
<1>10. PICK data \in Seq(Nat) : data = MetaData(s, n)
  <2>1. MetaData(s, n) \in Seq(Nat)
    BY <1>2, <1>3, DataType
  <2> QED
    BY <2>1
<1>4. keys = MetaKeys(goal.password, s, n) /\ data = MetaData(s, n)
  BY <1>9, <1>10
<1>5. /\ v \in AnyMeta /\ v.iterations = n /\ v.salt = s
      /\ SealedIn(macs, keys, data, MasterKey, v.master)
      /\ \A i \in DOMAIN macs : macs[i] = TagOf(keys, data, v.master)
  BY <1>3, <1>4 DEF SealedMeta
<1>6. ASSUME NEW w \in AnyMeta, NEW q \in Decrypted(w)
      PROVE  w = v /\ goal.attempt = goal.password
  <2>1. PICK t \in Seq(Nat), m \in Nat, b \in AnyBlob : t = w.salt /\ m = w.iterations /\ b = w.master
    BY MetaFields
  <2>2. PICK k, a : k = MetaKeys(goal.attempt, t, m) /\ a = MetaData(t, m)
    OBVIOUS
  <2>3. q \in DecryptBlob(k, b, a)
    BY <1>6, <2>1, <2>2
  <2>4. TagOf(k, a, b) = TagOf(keys, data, v.master)
    BY <1>5, <2>3, OpenedHasTag
  <2>5. k.mac = keys.mac
    BY <2>4 DEF TagOf
  <2>6. goal.attempt = goal.password /\ t = s /\ m = n
    BY <1>4, <2>2, <2>5, MetaKeyOnce
  <2>7. a \in Seq(Nat)
    BY <1>4, <2>2, <2>6
  <2>10. k = keys /\ a = data
    BY <1>4, <2>2, <2>6
  <2>8. b = v.master
    BY <1>5, <2>3, <2>4, <2>7, <2>10, OpenedIs
  <2>9. w = MetaOf(m, t, b) /\ v = MetaOf(n, s, v.master)
    BY <1>5, <2>1, MetaFields
  <2> QED
    BY <2>6, <2>8, <2>9
<1>7. ASSUME goal.attempt = goal.password
      PROVE  OpenMeta(v) = {[master |-> MasterKey]}
  <2>1. Decrypted(v) = {MasterKey}
    BY <1>4, <1>5, <1>7, OpensSealed
  <2> HIDE DEF Decrypted
  <2> QED
    BY <1>1, <2>1
<1> HIDE DEF Decrypted
<1>8. ASSUME NEW w \in AnyMeta, w # v \/ goal.attempt # goal.password
      PROVE  OpenMeta(w) = {}
  <2>1. Decrypted(w) = {}
    BY <1>6, <1>8
  <2> QED
    BY <1>1, <2>1
<1> QED
  BY <1>5, <1>7, <1>8

LEMMA ObjectOpens ==
  ASSUME LengthsFit, goal \in Goal, goal.kind = "object", NoneTwice(macs),
         NEW v, NEW o, SealedObject(goal, v, macs, o)
  PROVE  /\ OpenObject(v) = IF Len(goal.content) = goal.entry.size THEN {goal} ELSE {}
         /\ \A w \in AnyObject : w # v => OpenObject(w) = {}
<1> DEFINE Unwrapped(w) == DecryptBlob(WrapKeys, w.wrapped, WrapData(goal.entry))
           Decrypted(w) == UNION {DecryptBlob(ContentKeys(k), w.content, ContentData(goal.entry)) :
                                    k \in Unwrapped(w)}
           As(p) == [kind |-> "object", entry |-> goal.entry, content |-> p]
<1>1. \A w : OpenObject(w) = {As(p) : p \in {q \in Decrypted(w) : Len(q) = goal.entry.size}}
  BY DEF OpenObject, WrapKeys, ContentKeys, WrapData, ContentData
<1>2. goal.entry \in GoalEntry /\ goal = As(goal.content)
  <2>1. goal \in [kind : {"object"}, entry : GoalEntry, content : Strings(0, 1)]
    BY DEF Goal
  <2> QED
    BY <2>1
<1>3. Sealing1(macs, FileKey, goal.entry, goal.content, v)
  BY DEF SealedObject
<1>4. PICK e \in GoalEntry :
       /\ e.id # goal.entry.id /\ Sealing1(macs, OtherKey, e, e.name, o)
       /\ \A i \in DOMAIN macs :
            \/ macs[i] = TagOf(ContentKeys(FileKey), ContentData(goal.entry), v.content)
            \/ macs[i] = TagOf(WrapKeys, WrapData(goal.entry), v.wrapped)
            \/ macs[i] = TagOf(ContentKeys(OtherKey), ContentData(e), o.content)
            \/ macs[i] = TagOf(WrapKeys, WrapData(e), o.wrapped)
  BY DEF SealedObject
<1>5. PICK wd \in Seq(Nat), cd \in Seq(Nat), od \in Seq(Nat) :
        wd = WrapData(goal.entry) /\ cd = ContentData(goal.entry) /\ od = WrapData(e)
  <2>1. WrapData(goal.entry) \in Seq(Nat) /\ ContentData(goal.entry) \in Seq(Nat) /\ WrapData(e) \in Seq(Nat)
    BY <1>2, DataType
  <2> QED
    BY <2>1
<1>6. wd # od
  BY <1>2, <1>4, <1>5, DataType
<1>7. v \in AnyObject /\ o \in AnyObject
  BY <1>3, <1>4 DEF Sealing1
<1>8. SealedIn(macs, ContentKeys(FileKey), cd, goal.content, v.content)
      /\ SealedIn(macs, WrapKeys, wd, FileKey, v.wrapped)
  BY <1>3, <1>5 DEF Sealing1
<1>9. SealedIn(macs, WrapKeys, od, OtherKey, o.wrapped)
  BY <1>4, <1>5 DEF Sealing1
\* The wrapped key opens only in the object of the entry.
<1>10. ASSUME NEW w \in AnyObject, NEW k \in Unwrapped(w)
       PROVE  w.wrapped = v.wrapped /\ k = FileKey
  <2>1. PICK b \in AnyBlob : b = w.wrapped
    BY ObjectFields
  <2>2. k \in DecryptBlob(WrapKeys, b, wd)
    BY <1>5, <1>10, <2>1
  <2>3. PICK i \in DOMAIN macs : macs[i] = TagOf(WrapKeys, wd, b)
    BY <2>2, OpenedHasTag
  <2>4. TagOf(WrapKeys, wd, b) = TagOf(WrapKeys, wd, v.wrapped)
        \/ TagOf(WrapKeys, wd, b) = TagOf(WrapKeys, od, o.wrapped)
    <3>1. TagOf(WrapKeys, wd, b) # TagOf(ContentKeys(FileKey), cd, v.content)
      BY MacsDiffer DEF TagOf
    <3>2. TagOf(WrapKeys, wd, b) # TagOf(ContentKeys(OtherKey), ContentData(e), o.content)
      BY MacsDiffer DEF TagOf
    <3> QED
      BY <1>4, <1>5, <2>3, <3>1, <3>2
  <2>5. ~ TagOf(WrapKeys, wd, b) = TagOf(WrapKeys, od, o.wrapped)
    <3>1. Issued(macs, WrapKeys, wd, b)
      BY <2>2, OpenedIssued
    <3>2. PICK c : c = o.wrapped /\ Issued(macs, WrapKeys, od, c)
      BY <1>9 DEF SealedIn
    <3>3. ASSUME TagOf(WrapKeys, wd, b) = TagOf(WrapKeys, od, c)
          PROVE  wd = od
      BY <3>1, <3>2, <3>3, SameData
    <3> QED
      BY <1>6, <3>2, <3>3
  <2>6. b = v.wrapped
    BY <1>8, <2>2, <2>4, <2>5, OpenedIs
  <2>7. DecryptBlob(WrapKeys, b, wd) = {FileKey}
    BY <1>8, <2>6, OpensSealed
  <2> QED
    BY <2>1, <2>2, <2>6, <2>7
\* And so does the content.
<1>11. ASSUME NEW w \in AnyObject, NEW q \in Decrypted(w)
       PROVE  w = v
  <2>1. PICK k \in Unwrapped(w) : q \in DecryptBlob(ContentKeys(k), w.content, ContentData(goal.entry))
    BY <1>11
  <2>2. w.wrapped = v.wrapped /\ k = FileKey
    BY <1>10
  <2>3. PICK b \in AnyBlob : b = w.content
    BY ObjectFields
  <2>4. q \in DecryptBlob(ContentKeys(FileKey), b, cd)
    BY <1>5, <2>1, <2>2, <2>3
  <2>5. PICK i \in DOMAIN macs : macs[i] = TagOf(ContentKeys(FileKey), cd, b)
    BY <2>4, OpenedHasTag
  <2>6. TagOf(ContentKeys(FileKey), cd, b) = TagOf(ContentKeys(FileKey), cd, v.content)
    <3>1. TagOf(ContentKeys(FileKey), cd, b) # TagOf(WrapKeys, wd, v.wrapped)
      BY MacsDiffer DEF TagOf
    <3>2. TagOf(ContentKeys(FileKey), cd, b) # TagOf(WrapKeys, od, o.wrapped)
      BY MacsDiffer DEF TagOf
    <3>3. TagOf(ContentKeys(FileKey), cd, b) # TagOf(ContentKeys(OtherKey), ContentData(e), o.content)
      BY MacsDiffer DEF TagOf
    <3> QED
      BY <1>4, <1>5, <2>5, <3>1, <3>2, <3>3
  <2>7. b = v.content
    BY <1>8, <2>4, <2>6, OpenedIs
  <2>8. w = ObjectOf(w.wrapped, w.content) /\ v = ObjectOf(v.wrapped, v.content)
    BY <1>7, ObjectFields
  <2> QED
    BY <2>2, <2>3, <2>7, <2>8
<1>12. Decrypted(v) = {goal.content}
  <2>1. Unwrapped(v) = {FileKey}
    BY <1>5, <1>8, OpensSealed
  <2>2. DecryptBlob(ContentKeys(FileKey), v.content, ContentData(goal.entry)) = {goal.content}
    BY <1>5, <1>8, OpensSealed
  <2> HIDE DEF Unwrapped
  <2> QED
    BY <2>1, <2>2
<1> HIDE DEF Decrypted, As
<1>13. OpenObject(v) = IF Len(goal.content) = goal.entry.size THEN {goal} ELSE {}
  BY <1>1, <1>2, <1>12
<1>14. ASSUME NEW w \in AnyObject, w # v
       PROVE  OpenObject(w) = {}
  <2>1. Decrypted(w) = {}
    BY <1>11, <1>14
  <2> QED
    BY <1>1, <2>1
<1> QED
  BY <1>13, <1>14

-----------------------------------------------------------------------------
(***************************************************************************)
(* What sealing leaves: one tag for each blob.                             *)
(***************************************************************************)
LEMMA NoTags == <<>> \in Seq({}) /\ NoneTwice(<<>>)
BY EmptySeq DEF NoneTwice

\* A string is a plaintext.
LEMMA StringPlain ==
  ASSUME CellsFit, NEW lo \in Nat, NEW hi \in Nat, NEW s \in Strings(lo, hi)
  PROVE  s \in Seq(0 .. Cells - 1)
<1>1. s \in Seq(Byte)
  BY StringsType
<1>2. Byte \subseteq 0 .. Cells - 1
  BY Naturals, BlobAssumption DEF CellsFit
<1> QED
  BY <1>1, <1>2, SeqMonotonic

LEMMA KeyPlain ==
  ASSUME CellsFit, NEW k \in {MasterKey, FileKey, OtherKey}
  PROVE  k \in Seq(0 .. Cells - 1) /\ Len(k) = 1
<1>1. PICK c \in {40, 41, 42} : k = <<c>>
  BY DEF MasterKey, FileKey, OtherKey
<1>2. c \in 0 .. Cells - 1
  BY BlobAssumption DEF CellsFit
<1> QED
  BY <1>1, <1>2, Single

LEMMA SealsWith ==
  ASSUME Keystreams, NEW S0, NEW before \in Seq(S0), NoneTwice(before),
         NEW k \in SomeKey, NEW purpose \in Purpose, NEW nonce \in Byte,
         NEW p \in Seq(0 .. Cells - 1), NEW aad
  PROVE  Seals1(before, Keys(k, purpose), aad, p, EncryptBlob(before, Keys(k, purpose), nonce, p, aad))
<1>1. Keystream(Keys(k, purpose).enc, nonce)
  BY DEF Keystreams
<1>2. nonce \in Nat
  BY Naturals
<1> QED
  BY <1>1, <1>2, EncryptSeals

LEMMA ManifestSealed ==
  ASSUME LengthsFit, ListsFit, CellsFit, Keystreams, goal \in Goal, macs = <<>>, SealManifest
  PROVE  NoneTwice(macs') /\ Saved(value') /\ value'.kind = goal.kind /\ SealedManifest(goal, value', macs')
<1>1. PICK nonce \in Byte :
        LET sealed == EncryptBlob(macs, ManifestKeys, nonce, Serialized(ListOf(goal.entries)), ManifestData)
        IN  value' = ManifestOf(sealed.blob) /\ macs' = sealed.macs
  BY DEF SealManifest, ManifestKeys, ManifestData, ListOf, ManifestOf
<1>2. goal.kind = "manifest"
  BY DEF SealManifest
<1>3. PICK p \in Seq(0 .. Cells - 1) : p = Serialized(ListOf(goal.entries)) /\ Len(p) < Word
  BY <1>2 DEF CellsFit, ListsFit, Plaintexts, ListOf
<1>4. PICK r : r = EncryptBlob(<<>>, ManifestKeys, nonce, p, ManifestData)
  OBVIOUS
<1>5. value' = ManifestOf(r.blob) /\ macs' = r.macs
  BY <1>1, <1>3, <1>4
<1>6. Seals1(<<>>, ManifestKeys, ManifestData, p, r)
  <2>1. MasterKey \in SomeKey /\ "manifest" \in Purpose
    BY DEF SomeKey, Purpose
  <2> QED
    BY <1>4, <2>1, NoTags, SealsWith DEF ManifestKeys
<1>7. /\ NoneTwice(r.macs) /\ Issued(r.macs, ManifestKeys, ManifestData, r.blob)
      /\ Hides(ManifestKeys, r.blob, p) /\ Len(r.blob.ciphertext) = Len(p)
      /\ \A i \in DOMAIN r.macs : r.macs[i] = TagOf(ManifestKeys, ManifestData, r.blob)
  BY <1>6 DEF Seals1
<1>8. r.blob \in AnyBlob
  BY <1>7 DEF Issued
<1>9. value' \in AnyManifest /\ value'.blob = r.blob /\ value'.kind = "manifest"
  BY <1>5, <1>8, ManifestFields DEF ManifestOf
<1>10. SealedManifest(goal, value', macs')
  BY <1>3, <1>5, <1>7, <1>9 DEF SealedManifest, SealedIn
<1>11. Saved(value')
  <2>1. Fits(value')
    BY <1>3, <1>7, <1>9 DEF Fits, FitsBlob
  <2>2. FilesFit => LimitFits(value')
    BY <1>2, <1>3, <1>7, <1>9 DEF FilesFit, LimitFits, Plaintexts, ListOf
  <2>3. value' \in AnyFile /\ SaltFits(value')
    BY <1>9 DEF AnyFile, SaltFits
  <2> QED
    BY <2>1, <2>2, <2>3 DEF Saved, SavedFile
<1> QED
  BY <1>2, <1>5, <1>7, <1>9, <1>10, <1>11

LEMMA MetaSealed ==
  ASSUME LengthsFit, CellsFit, Keystreams, goal \in Goal, macs = <<>>, SealMeta
  PROVE  NoneTwice(macs') /\ Saved(value') /\ value'.kind = goal.kind /\ SealedMeta(goal, value', macs')
<1>1. goal.kind = "meta"
  BY DEF SealMeta
<1>2. /\ goal.password \in Password
      /\ goal.iterations \in MinIterations .. MinIterations + 1 /\ goal.salt \in Strings(MinSalt, MinSalt)
  BY <1>1 DEF Goal
<1>3. PICK n \in Nat : n = goal.iterations /\ MinIterations <= n /\ n < Word
  BY <1>2, Naturals DEF LengthsFit
<1>4. PICK s \in Seq(Nat) : s = goal.salt /\ Len(s) = MinSalt
  <2>1. goal.salt \in Seq(Nat) /\ Len(goal.salt) \in Nat /\ MinSalt <= Len(goal.salt) /\ Len(goal.salt) <= MinSalt
    BY <1>2, StringsType, Naturals
  <2> QED
    BY <2>1, Naturals
<1>5. PICK keys, data : keys = MetaKeys(goal.password, s, n) /\ data = MetaData(s, n)
  OBVIOUS
<1>6. PICK nonce \in Byte :
        LET sealed == EncryptBlob(macs, keys, nonce, MasterKey, data)
        IN  value' = MetaOf(n, s, sealed.blob) /\ macs' = sealed.macs
  BY <1>3, <1>4, <1>5 DEF SealMeta, MetaKeys, MetaData, MetaOf
<1>7. PICK r : r = EncryptBlob(<<>>, keys, nonce, MasterKey, data)
  OBVIOUS
<1>8. value' = MetaOf(n, s, r.blob) /\ macs' = r.macs
  BY <1>6, <1>7
<1>9. Seals1(<<>>, keys, data, MasterKey, r)
  <2>1. PICK k \in SomeKey : k = PasswordKey(goal.password, s, n)
    BY <1>2, <1>3, <1>4 DEF SomeKey
  <2>2. "meta" \in Purpose
    BY DEF Purpose
  <2>3. MasterKey \in Seq(0 .. Cells - 1)
    BY KeyPlain
  <2> QED
    BY <1>5, <1>7, <2>1, <2>2, <2>3, NoTags, SealsWith DEF MetaKeys
<1>10. /\ NoneTwice(r.macs) /\ Issued(r.macs, keys, data, r.blob)
       /\ Hides(keys, r.blob, MasterKey) /\ Len(r.blob.ciphertext) = 1
       /\ \A i \in DOMAIN r.macs : r.macs[i] = TagOf(keys, data, r.blob)
  BY <1>9, KeyPlain DEF Seals1
<1>11. r.blob \in AnyBlob
  BY <1>10 DEF Issued
<1>12. /\ value' \in AnyMeta /\ value'.iterations = n /\ value'.salt = s /\ value'.master = r.blob
       /\ value'.kind = "meta"
  <2>1. MinSalt \in MinSalt .. MaxSalt
    BY Naturals DEF LengthsFit
  <2>2. MetaOf(n, s, r.blob) \in AnyMeta
    BY <1>3, <1>4, <1>11, <2>1, MetaFields
  <2> QED
    BY <1>8, <2>2 DEF MetaOf
<1>13. SealedMeta(goal, value', macs')
  BY <1>3, <1>4, <1>5, <1>8, <1>10, <1>12 DEF SealedMeta, SealedIn
<1>14. Saved(value')
  <2>1. Fits(value')
    <3>1. 1 < Word /\ MinSalt < Word
      BY Naturals DEF LengthsFit
    <3> QED
      BY <1>3, <1>4, <1>10, <1>12, <3>1 DEF Fits, FitsBlob
  <2>2. FilesFit => LimitFits(value')
    <3>1. FilesFit => MinSalt + 1 + 6 <= MaxFileBytes
      BY Naturals DEF FilesFit
    <3> QED
      BY <1>4, <1>10, <1>12, <3>1 DEF LimitFits
  <2>3. value' \in AnyFile /\ SaltFits(value')
    BY <1>2, <1>3, <1>4, <1>12 DEF AnyFile, SaltFits
  <2> QED
    BY <2>1, <2>2, <2>3 DEF Saved, SavedFile
<1> QED
  BY <1>1, <1>8, <1>10, <1>12, <1>13, <1>14

\* The two blobs of an object.
PairSealed(before, k, e, content, r) ==
  /\ NoneTwice(r.macs) /\ IssuedIn(before, r.macs) /\ \E S : r.macs \in Seq(S)
  /\ Sealing1(r.macs, k, e, content, r.object)
  /\ Len(r.object.wrapped.ciphertext) = 1 /\ Len(r.object.content.ciphertext) \in {0, 1}
  /\ \A i \in DOMAIN r.macs :
       \/ r.macs[i] = TagOf(ContentKeys(k), ContentData(e), r.object.content)
       \/ r.macs[i] = TagOf(WrapKeys, WrapData(e), r.object.wrapped)
       \/ \E j \in DOMAIN before : before[j] = r.macs[i]

LEMMA BlobsSealed ==
  ASSUME LengthsFit, CellsFit, Keystreams, NEW S0, NEW before \in Seq(S0), NoneTwice(before),
         NEW k \in {FileKey, OtherKey}, NEW nonce \in Byte, NEW wrapNonce \in Byte,
         NEW e, NEW content \in Strings(0, 1)
  PROVE  PairSealed(before, k, e, content, ObjectBlobs(before, k, nonce, wrapNonce, e, content))
<1>1. PICK inner : inner = EncryptBlob(before, ContentKeys(k), nonce, content, ContentData(e))
  OBVIOUS
<1>2. PICK outer : outer = EncryptBlob(inner.macs, WrapKeys, wrapNonce, k, WrapData(e))
  OBVIOUS
<1>3. PICK r : r = ObjectBlobs(before, k, nonce, wrapNonce, e, content)
  OBVIOUS
<1>4. r = [object |-> ObjectOf(outer.blob, inner.blob), macs |-> outer.macs]
  BY <1>1, <1>2, <1>3 DEF ObjectBlobs, ObjectOf, ContentKeys, ContentData, WrapKeys, WrapData
<1>5. k \in SomeKey /\ MasterKey \in SomeKey /\ "content" \in Purpose /\ "wrap" \in Purpose
  BY DEF SomeKey, Purpose
<1>6. content \in Seq(0 .. Cells - 1) /\ Len(content) \in {0, 1}
  <2>1. 0 \in Nat /\ 1 \in Nat
    OBVIOUS
  <2>2. content \in Seq(0 .. Cells - 1) /\ Len(content) \in Nat /\ Len(content) <= 1
    BY <2>1, StringPlain, StringsType
  <2>3. \A n \in Nat : n <= 1 => n \in {0, 1}
    OBVIOUS
  <2> QED
    BY <2>2, <2>3, Zenon
<1>7. Seals1(before, ContentKeys(k), ContentData(e), content, inner)
  BY <1>1, <1>5, <1>6, SealsWith DEF ContentKeys
<1>8. NoneTwice(inner.macs) /\ \E S : inner.macs \in Seq(S)
  BY <1>7 DEF Seals1
<1>9. k \in Seq(0 .. Cells - 1) /\ Len(k) = 1
  BY KeyPlain
<1>10. Seals1(inner.macs, WrapKeys, WrapData(e), k, outer)
  <2>1. PICK S : inner.macs \in Seq(S)
    BY <1>8
  <2> QED
    BY <1>2, <1>5, <1>8, <1>9, <2>1, SealsWith DEF WrapKeys
<1>11. /\ Issued(inner.macs, ContentKeys(k), ContentData(e), inner.blob)
       /\ Issued(outer.macs, WrapKeys, WrapData(e), outer.blob)
       /\ IssuedIn(before, inner.macs) /\ IssuedIn(inner.macs, outer.macs)
  BY <1>7, <1>10 DEF Seals1
<1>12. Issued(outer.macs, ContentKeys(k), ContentData(e), inner.blob) /\ IssuedIn(before, outer.macs)
  BY <1>11, IssuedFurther
<1>13. inner.blob \in AnyBlob /\ outer.blob \in AnyBlob
  BY <1>11 DEF Issued
<1>14. /\ r.object \in AnyObject /\ r.object.wrapped = outer.blob /\ r.object.content = inner.blob
       /\ r.macs = outer.macs
  BY <1>4, <1>13, ObjectFields
<1>15. Len(outer.blob.ciphertext) = 1 /\ Len(inner.blob.ciphertext) \in {0, 1}
  BY <1>6, <1>7, <1>9, <1>10 DEF Seals1
<1>16. FitsBlob(outer.blob) /\ FitsBlob(inner.blob)
  <2>1. 0 < Word /\ 1 < Word
    BY Naturals DEF LengthsFit
  <2> QED
    BY <1>15, <2>1 DEF FitsBlob
<1>17. Hides(ContentKeys(k), inner.blob, content) /\ Hides(WrapKeys, outer.blob, k)
  BY <1>7, <1>10 DEF Seals1
<1>18. Sealing1(r.macs, k, e, content, r.object)
  BY <1>11, <1>12, <1>14, <1>16, <1>17 DEF Sealing1, SealedIn
<1>19. ASSUME NEW i \in DOMAIN r.macs
       PROVE  \/ r.macs[i] = TagOf(ContentKeys(k), ContentData(e), r.object.content)
              \/ r.macs[i] = TagOf(WrapKeys, WrapData(e), r.object.wrapped)
              \/ \E j \in DOMAIN before : before[j] = r.macs[i]
  <2>1. outer.macs[i] = TagOf(WrapKeys, WrapData(e), outer.blob)
        \/ \E j \in DOMAIN inner.macs : inner.macs[j] = outer.macs[i]
    BY <1>10, <1>14 DEF Seals1
  <2>2. \A j \in DOMAIN inner.macs :
          inner.macs[j] = TagOf(ContentKeys(k), ContentData(e), inner.blob)
          \/ \E h \in DOMAIN before : before[h] = inner.macs[j]
    BY <1>7 DEF Seals1
  <2> QED
    BY <1>14, <2>1, <2>2, Zenon
<1>20. NoneTwice(outer.macs) /\ \E S : outer.macs \in Seq(S)
  BY <1>10 DEF Seals1
<1> QED
  BY <1>3, <1>12, <1>14, <1>15, <1>18, <1>19, <1>20 DEF PairSealed

LEMMA ObjectSealed ==
  ASSUME LengthsFit, CellsFit, Keystreams, goal \in Goal, macs = <<>>, SealObject
  PROVE  /\ NoneTwice(macs') /\ Saved(value') /\ value'.kind = goal.kind
         /\ \E o : other' = <<o>> /\ SealedObject(goal, value', macs', o)
<1>1. goal.kind = "object"
  BY DEF SealObject
<1>2. goal.content \in Strings(0, 1)
  BY <1>1 DEF Goal
<1>3. PICK nonce \in Byte, wrapNonce \in Byte, e \in GoalEntry :
        /\ e.id # goal.entry.id
        /\ LET mine   == ObjectBlobs(macs, FileKey, nonce, wrapNonce, goal.entry, goal.content)
               theirs == ObjectBlobs(mine.macs, OtherKey, nonce, wrapNonce, e, e.name)
           IN  value' = mine.object /\ other' = <<theirs.object>> /\ macs' = theirs.macs
  BY DEF SealObject
<1>4. PICK mine : mine = ObjectBlobs(<<>>, FileKey, nonce, wrapNonce, goal.entry, goal.content)
  OBVIOUS
<1>5. PICK theirs : theirs = ObjectBlobs(mine.macs, OtherKey, nonce, wrapNonce, e, e.name)
  OBVIOUS
<1>6. value' = mine.object /\ other' = <<theirs.object>> /\ macs' = theirs.macs
  BY <1>3, <1>4, <1>5
<1>7. PairSealed(<<>>, FileKey, goal.entry, goal.content, mine)
  BY <1>2, <1>4, NoTags, BlobsSealed
<1>8. NoneTwice(mine.macs) /\ \E S : mine.macs \in Seq(S)
  BY <1>7 DEF PairSealed
<1>9. PairSealed(mine.macs, OtherKey, e, e.name, theirs)
  <2>1. PICK S : mine.macs \in Seq(S)
    BY <1>8
  <2>2. e.name \in Strings(0, 1)
    <3>1. e.name \in BoundedSeq(Byte, 1) \ BoundedSeq(Byte, 1 - 1)
      BY DEF GoalEntry, Strings
    <3>2. e.name \in Seq(Byte) /\ Len(e.name) \in 0 .. 1
      BY <3>1, BoundedType
    <3>3. ~ e.name \in BoundedSeq(Byte, 0 - 1)
      <4>1. BoundedSeq(Byte, 0 - 1) = {}
        BY DEF BoundedSeq, SeqOf
      <4> QED
        BY <4>1
    <3> QED
      BY <3>1, <3>3 DEF Strings
  <2> QED
    BY <1>5, <1>8, <2>1, <2>2, BlobsSealed
<1>10. /\ Sealing1(mine.macs, FileKey, goal.entry, goal.content, mine.object)
       /\ Sealing1(theirs.macs, OtherKey, e, e.name, theirs.object)
       /\ IssuedIn(mine.macs, theirs.macs) /\ NoneTwice(theirs.macs)
       /\ Len(mine.object.wrapped.ciphertext) = 1 /\ Len(mine.object.content.ciphertext) \in {0, 1}
  BY <1>7, <1>9 DEF PairSealed
<1>11. Sealing1(theirs.macs, FileKey, goal.entry, goal.content, mine.object)
  BY <1>10, IssuedFurther DEF Sealing1, SealedIn
<1>12. ASSUME NEW i \in DOMAIN theirs.macs
       PROVE  \/ theirs.macs[i] = TagOf(ContentKeys(FileKey), ContentData(goal.entry), mine.object.content)
              \/ theirs.macs[i] = TagOf(WrapKeys, WrapData(goal.entry), mine.object.wrapped)
              \/ theirs.macs[i] = TagOf(ContentKeys(OtherKey), ContentData(e), theirs.object.content)
              \/ theirs.macs[i] = TagOf(WrapKeys, WrapData(e), theirs.object.wrapped)
  <2>1. \/ theirs.macs[i] = TagOf(ContentKeys(OtherKey), ContentData(e), theirs.object.content)
        \/ theirs.macs[i] = TagOf(WrapKeys, WrapData(e), theirs.object.wrapped)
        \/ \E j \in DOMAIN mine.macs : mine.macs[j] = theirs.macs[i]
    BY <1>9 DEF PairSealed
  <2>2. \A j \in DOMAIN mine.macs :
          \/ mine.macs[j] = TagOf(ContentKeys(FileKey), ContentData(goal.entry), mine.object.content)
          \/ mine.macs[j] = TagOf(WrapKeys, WrapData(goal.entry), mine.object.wrapped)
    BY <1>7 DEF PairSealed
  <2> QED
    BY <2>1, <2>2, Zenon
<1>13. SealedObject(goal, mine.object, theirs.macs, theirs.object)
  BY <1>3, <1>10, <1>11, <1>12 DEF SealedObject
<1>14. mine.object \in AnyObject /\ FitsBlob(mine.object.wrapped) /\ FitsBlob(mine.object.content)
  BY <1>10 DEF Sealing1
<1>15. mine.object.kind = "object"
  BY <1>14 DEF AnyObject
<1>16. Saved(mine.object)
  <2>1. Fits(mine.object) /\ SaltFits(mine.object) /\ mine.object \in AnyFile
    BY <1>14, <1>15 DEF Fits, SaltFits, AnyFile
  <2>2. FilesFit => LimitFits(mine.object)
    <3>1. FilesFit => 1 + 0 + 7 <= MaxFileBytes /\ 1 + 1 + 7 <= MaxFileBytes
      BY Naturals DEF FilesFit
    <3> QED
      BY <1>10, <1>15, <3>1 DEF LimitFits
  <2> QED
    BY <2>1, <2>2 DEF Saved, SavedFile
<1> QED
  BY <1>1, <1>6, <1>10, <1>13, <1>15, <1>16

-----------------------------------------------------------------------------
(***************************************************************************)
(* The inductive invariant.                                                *)
(***************************************************************************)
\* The program's constants fit their fields, and the keys have keystreams.
Fitting == LengthsFit /\ ListsFit /\ CellsFit /\ Keystreams

TypeInv ==
  /\ pc \in {"seal", "save", "saved", "read", "opened"}
  /\ damage \in {"none", "torn", "longer", "altered", "spliced"}
  /\ goal = NoGoal \/ goal \in Goal

\* What is not sealed by the program has no origin, and is not opened.
GoalInv ==
  /\ goal = NoGoal => other = <<>> /\ pc # "seal" /\ pc # "opened"
  /\ pc = "seal" => goal \in Goal /\ macs = <<>> /\ other = <<>>

\* What a value is sealed from.
SealedFrom(g, v, ms, o) ==
  /\ NoneTwice(ms) /\ v.kind = g.kind
  /\ \/ g.kind = "manifest" /\ o = <<>> /\ SealedManifest(g, v, ms)
     \/ g.kind = "object" /\ \E x : o = <<x>> /\ SealedObject(g, v, ms, x)
     \/ g.kind = "meta" /\ o = <<>> /\ SealedMeta(g, v, ms)

ValueInv ==
  pc # "seal" => Saved(value) /\ (goal # NoGoal => SealedFrom(goal, value, macs, other))

\* What the file is, by what has happened to it.
FileIs(v, f, d) ==
  /\ d = "none" => f = Serialized(v)
  /\ d = "torn" => v.kind # "list" /\ \E n \in 0 .. Len(Serialized(v)) - 1 : f = SubSeq(Serialized(v), 1, n)
  /\ d = "longer" => v.kind # "list" /\ \E end \in Strings(1, 2) : f = Serialized(v) \o end
  /\ d \in {"altered", "spliced"} => f \in Seq(Nat) /\ f # Serialized(v)

FileInv ==
  /\ pc \in {"seal", "save"} => damage = "none"
  /\ pc \in {"saved", "read", "opened"} => FileIs(value, file, damage)
  /\ damage \in {"altered", "spliced"} => goal # NoGoal

ReadInv ==
  pc \in {"read", "opened"} => read = IF Len(file) > MaxFileBytes THEN {} ELSE Parsed(value.kind, file)

SealingInv == TypeInv /\ GoalInv /\ ValueInv /\ FileInv /\ ReadInv

\* Where sealing ends, the value has been sealed from the goal.
LEMMA SealStep ==
  ASSUME Fitting, SealingInv, SealManifest \/ SealObject \/ SealMeta
  PROVE  SealingInv'
<1>1. /\ pc = "seal" /\ pc' = "save"
      /\ UNCHANGED <<file, damage, read, goal>>
  BY DEF SealManifest, SealObject, SealMeta
<1>2. goal \in Goal /\ macs = <<>> /\ other = <<>> /\ damage = "none" /\ goal # NoGoal
  BY <1>1 DEF SealingInv, GoalInv, FileInv
<1>3. Saved(value') /\ SealedFrom(goal, value', macs', other')
  <2>1. CASE SealManifest
    <3>1. goal.kind = "manifest" /\ other' = <<>>
      BY <1>2, <2>1 DEF SealManifest
    <3>2. NoneTwice(macs') /\ Saved(value') /\ value'.kind = goal.kind /\ SealedManifest(goal, value', macs')
      BY <1>2, <2>1, ManifestSealed DEF Fitting
    <3> QED
      BY <3>1, <3>2 DEF SealedFrom
  <2>2. CASE SealObject
    <3>1. goal.kind = "object"
      BY <2>2 DEF SealObject
    <3>2. /\ NoneTwice(macs') /\ Saved(value') /\ value'.kind = goal.kind
          /\ \E o : other' = <<o>> /\ SealedObject(goal, value', macs', o)
      BY <1>2, <2>2, ObjectSealed DEF Fitting
    <3> QED
      BY <3>1, <3>2 DEF SealedFrom
  <2>3. CASE SealMeta
    <3>1. goal.kind = "meta" /\ other' = <<>>
      BY <1>2, <2>3 DEF SealMeta
    <3>2. NoneTwice(macs') /\ Saved(value') /\ value'.kind = goal.kind /\ SealedMeta(goal, value', macs')
      BY <1>2, <2>3, MetaSealed DEF Fitting
    <3> QED
      BY <3>1, <3>2 DEF SealedFrom
  <2> QED
    BY <2>1, <2>2, <2>3
<1>4. TypeInv' /\ GoalInv'
  BY <1>1, <1>2 DEF TypeInv, GoalInv
<1>5. ValueInv'
  BY <1>1, <1>3 DEF ValueInv
<1>6. FileInv' /\ ReadInv'
  BY <1>1, <1>2 DEF FileInv, ReadInv
<1> QED
  BY <1>4, <1>5, <1>6 DEF SealingInv

\* What is sealed is not a list, and its file is one of numbers.
LEMMA SealedValue ==
  ASSUME LengthsFit, SealingInv, goal # NoGoal, pc # "seal"
  PROVE  /\ goal \in Goal /\ value.kind = goal.kind /\ value.kind \in FileKinds
         /\ value \in AnyFile /\ NoneTwice(macs) /\ Serialized(value) \in Seq(Nat)
<1>1. goal \in Goal /\ Saved(value) /\ SealedFrom(goal, value, macs, other)
  BY DEF SealingInv, TypeInv, ValueInv
<1>2. value.kind = goal.kind /\ NoneTwice(macs) /\ value.kind \in FileKinds
  BY <1>1 DEF SealedFrom, FileKinds
<1>3. value \in AnyFile
  BY <1>1, <1>2 DEF Saved, SavedList, SavedFile, FileKinds
<1>4. Serialized(value) \in Seq(Nat)
  BY <1>1, SavedLoads
<1> QED
  BY <1>1, <1>2, <1>3, <1>4

\* What Parsed makes of a file that is not the value's is not the value.
LEMMA NotTheValue ==
  ASSUME NEW v \in AnyFile, Fits(v), NEW f \in Seq(Nat), f # Serialized(v), NEW w \in Parsed(v.kind, f)
  PROVE  w \in AnyFile /\ w.kind = v.kind /\ w # v
<1>1. v.kind \in FileKinds
  BY KindOf
<1>2. w \in AnyFile /\ w.kind = v.kind /\ f = FileCells(w, <<>>)
  BY <1>1, ParsedFile DEF ParsesAs
<1>3. Serialized(v) = FileCells(v, <<>>)
  <2>1. Serialized(v) \in Seq(Nat) /\ Serialized(v) \o <<>> = FileCells(v, <<>>)
    BY FileWritten, EmptySeq
  <2>2. Serialized(v) \o <<>> = Serialized(v)
    BY <2>1, ConcatEmptySeq
  <2> QED
    BY <2>1, <2>2
<1> QED
  BY <1>2, <1>3

LEMMA SaveStep ==
  ASSUME SealingInv, Save, UNCHANGED <<macs, goal, other, opened>>
  PROVE  SealingInv'
BY DEF SealingInv, TypeInv, GoalInv, ValueInv, FileInv, ReadInv, FileIs, Save

LEMMA LoadStep ==
  ASSUME SealingInv, Load, UNCHANGED <<macs, goal, other, opened>>
  PROVE  SealingInv'
<1>1. /\ pc = "saved" /\ pc' = "read" /\ UNCHANGED <<value, file, damage, macs, goal, other>>
      /\ read' = IF Len(file) > MaxFileBytes THEN {} ELSE Parsed(value.kind, file)
  BY DEF Load
<1>2. TypeInv' /\ GoalInv' /\ ValueInv' /\ FileInv'
  BY <1>1 DEF SealingInv, TypeInv, GoalInv, ValueInv, FileInv
<1>3. ReadInv'
  BY <1>1 DEF ReadInv
<1> QED
  BY <1>2, <1>3 DEF SealingInv

LEMMA DamageStep ==
  ASSUME SealingInv, Damage, UNCHANGED <<macs, goal, other, opened>>
  PROVE  SealingInv'
<1>1. /\ pc = "saved" /\ damage = "none" /\ value.kind # "list"
      /\ UNCHANGED <<value, read, pc, macs, goal, other>>
  BY DEF Damage
<1>2. file = Serialized(value)
  BY <1>1 DEF SealingInv, FileInv, FileIs
<1>3. damage' \in {"torn", "longer"} /\ FileIs(value, file', damage')
  BY <1>1, <1>2 DEF Damage, FileIs
<1>4. TypeInv' /\ GoalInv' /\ ValueInv' /\ ReadInv'
  BY <1>1, <1>3 DEF SealingInv, TypeInv, GoalInv, ValueInv, ReadInv
<1>5. FileInv'
  BY <1>1, <1>3 DEF FileInv
<1> QED
  BY <1>4, <1>5 DEF SealingInv

\* A file with a cell that has changed is another.
LEMMA AlterStep ==
  ASSUME LengthsFit, SealingInv, Alter
  PROVE  SealingInv'
<1>1. /\ pc = "saved" /\ damage = "none" /\ goal # NoGoal /\ damage' = "altered"
      /\ UNCHANGED <<value, read, pc, macs, goal, other>>
  BY DEF Alter
<1>10. PICK i \in DOMAIN file :
         \E c \in {file[i] - 1, file[i] + 1} \cup {TagBase + j : j \in DOMAIN macs} :
           c >= 0 /\ c # file[i] /\ file' = [file EXCEPT ![i] = c]
  BY DEF Alter
<1>2. PICK c \in {file[i] - 1, file[i] + 1} \cup {TagBase + j : j \in DOMAIN macs} :
        c >= 0 /\ c # file[i] /\ file' = [file EXCEPT ![i] = c]
  BY <1>10
<1>3. file = Serialized(value) /\ file \in Seq(Nat) /\ NoneTwice(macs)
  <2>1. file = Serialized(value)
    BY <1>1 DEF SealingInv, FileInv, FileIs
  <2> QED
    BY <1>1, <2>1, SealedValue
<1>4. file[i] \in Nat
  BY <1>2, <1>3, ElementOfSeq
<1>5. c \in Nat
  <2>1. \A j \in DOMAIN macs : TagBase + j \in Nat
    BY <1>3, BlobAssumption DEF NoneTwice
  <2> QED
    BY <1>2, <1>4, <2>1
<1>6. file' \in Seq(Nat) /\ file' # file
  <2>1. [file EXCEPT ![i] = c] \in Seq(Nat)
    BY <1>2, <1>3, <1>5, ExceptSeq
  <2>2. [file EXCEPT ![i] = c][i] = c
    BY <1>2
  <2> QED
    BY <1>2, <2>1, <2>2
<1>7. FileIs(value, file', "altered")
  BY <1>3, <1>6 DEF FileIs
<1>8. TypeInv' /\ GoalInv' /\ ValueInv' /\ ReadInv'
  BY <1>1 DEF SealingInv, TypeInv, GoalInv, ValueInv, ReadInv
<1>9. FileInv'
  BY <1>1, <1>7 DEF FileInv
<1> QED
  BY <1>8, <1>9 DEF SealingInv

\* An object put together from the blobs of two is another.
LEMMA SpliceStep ==
  ASSUME LengthsFit, SealingInv, Splice
  PROVE  SealingInv'
<1>1. /\ pc = "saved" /\ damage = "none" /\ other # <<>> /\ damage' = "spliced"
      /\ UNCHANGED <<value, read, pc, macs, goal, other>>
  BY DEF Splice
<1>2. goal # NoGoal /\ SealedFrom(goal, value, macs, other)
  BY <1>1 DEF SealingInv, GoalInv, ValueInv
<1>3. PICK o : other = <<o>> /\ SealedObject(goal, value, macs, o)
  BY <1>1, <1>2 DEF SealedFrom
<1>4. /\ value \in AnyObject /\ FitsBlob(value.wrapped) /\ FitsBlob(value.content)
      /\ o \in AnyObject /\ FitsBlob(o.wrapped) /\ FitsBlob(o.content)
  BY <1>3 DEF SealedObject, Sealing1
<1>5. PICK w, c :
        /\ w \in {value.wrapped, value.content, o.wrapped, o.content}
        /\ c \in {value.wrapped, value.content, o.wrapped, o.content}
        /\ <<w, c>> # <<value.wrapped, value.content>>
        /\ file' = Serialized(ObjectOf(w, c))
  <2>1. PICK q : q = other[1]
    OBVIOUS
  <2>2. q = o
    BY <1>3, <2>1
  <2>3. \E w, c \in {value.wrapped, value.content, q.wrapped, q.content} :
          /\ <<w, c>> # <<value.wrapped, value.content>>
          /\ file' = Serialized(ObjectOf(w, c))
    BY <2>1 DEF Splice, ObjectOf
  <2> QED
    BY <2>2, <2>3
<1>6. w \in AnyBlob /\ c \in AnyBlob /\ FitsBlob(w) /\ FitsBlob(c)
  BY <1>4, <1>5, ObjectFields
<1>7. PICK x \in AnyObject : x = ObjectOf(w, c) /\ x # value /\ Fits(x) /\ x.kind = "object"
  <2>1. ObjectOf(w, c) \in AnyObject /\ ObjectOf(w, c).wrapped = w /\ ObjectOf(w, c).content = c
    BY <1>6, ObjectFields
  <2>2. ObjectOf(w, c) # value
    BY <1>5, <2>1
  <2>3. ObjectOf(w, c).kind = "object"
    BY DEF ObjectOf
  <2>4. Fits(ObjectOf(w, c))
    BY <1>6, <2>1, <2>3 DEF Fits
  <2> QED
    BY <2>1, <2>2, <2>3, <2>4
<1>8. value.kind = "object" /\ value \in AnyFile /\ x \in AnyFile /\ Fits(value)
  BY <1>4, <1>7 DEF AnyObject, AnyFile, Fits
<1>9. Serialized(x) \in Seq(Nat) /\ Parsed("object", Serialized(x)) = {x}
  BY <1>7, <1>8, OnlyWholeFile
<1>10. Parsed("object", Serialized(value)) = {value}
  BY <1>8, OnlyWholeFile
<1>11. file' \in Seq(Nat) /\ file' # Serialized(value)
  BY <1>5, <1>7, <1>9, <1>10
<1>12. FileIs(value, file', "spliced")
  BY <1>11 DEF FileIs
<1>13. TypeInv' /\ GoalInv' /\ ValueInv' /\ ReadInv'
  BY <1>1 DEF SealingInv, TypeInv, GoalInv, ValueInv, ReadInv
<1>14. FileInv'
  BY <1>1, <1>2, <1>12 DEF FileInv
<1> QED
  BY <1>13, <1>14 DEF SealingInv

LEMMA SealingInit0 ==
  ASSUME LengthsFit, SealingInit
  PROVE  SealingInv
<1>1. /\ pc \in {"seal", "save"} /\ damage = "none" /\ macs = <<>> /\ other = <<>>
      /\ \/ pc = "save" /\ goal = NoGoal /\ value \in Value
         \/ pc = "seal" /\ goal \in Goal
  BY DEF SealingInit, Init
<1>2. pc = "save" => Saved(value)
  BY <1>1, ValueSaved
<1>3. pc = "seal" => goal # NoGoal
  BY <1>1 DEF Goal, NoGoal
<1>4. TypeInv /\ GoalInv /\ FileInv /\ ReadInv
  BY <1>1, <1>3 DEF TypeInv, GoalInv, FileInv, ReadInv
<1>5. ValueInv
  BY <1>1, <1>2 DEF ValueInv
<1> QED
  BY <1>4, <1>5 DEF SealingInv

LEMMA SealingStep ==
  ASSUME Fitting, SealingInv, [SealingNext]_sealingVars
  PROVE  SealingInv'
<1>0. LengthsFit
  BY DEF Fitting
<1>1. CASE UNCHANGED sealingVars
  <2>1. UNCHANGED <<value, file, damage, read, pc, macs, goal, other>>
    BY <1>1 DEF sealingVars
  <2> QED
    BY <2>1 DEF SealingInv, TypeInv, GoalInv, ValueInv, FileInv, ReadInv
<1>2. CASE Open
  <2>1. /\ pc = "read" /\ goal # NoGoal /\ pc' = "opened"
        /\ UNCHANGED <<value, file, damage, read, macs, goal, other>>
    BY <1>2 DEF Open
  <2> QED
    BY <2>1 DEF SealingInv, TypeInv, GoalInv, ValueInv, FileInv, ReadInv
<1> QED
  BY <1>0, <1>1, <1>2, SealStep, SaveStep, DamageStep, LoadStep, AlterStep, SpliceStep DEF SealingNext

LEMMA SealingInvariant ==
  ASSUME Fitting
  PROVE  SealingSpec => []SealingInv
<1>1. SealingInit => SealingInv
  BY SealingInit0 DEF Fitting
<1>2. SealingInv /\ [SealingNext]_sealingVars => SealingInv'
  BY SealingStep
<1> QED
  BY <1>1, <1>2, PTL DEF SealingSpec

-----------------------------------------------------------------------------
(***************************************************************************)
(* What loading and opening give.                                          *)
(***************************************************************************)
\* A part of a sequence is not the whole of it.
LEMMA CutAt ==
  ASSUME NEW s \in Seq(Nat), NEW n \in 0 .. Len(s) - 1
  PROVE  \E tail \in Seq(Nat) : tail # <<>> /\ SubSeq(s, 1, n) \in Seq(Nat) /\ s = SubSeq(s, 1, n) \o tail
<1>1. n \in Nat /\ Len(s) \in Nat /\ n < Len(s)
  BY LenProperties
<1>2. PICK head : head = SubSeq(s, 1, n)
  OBVIOUS
<1>3. PICK r : r = SubSeq(s, n + 1, Len(s))
  OBVIOUS
<1>8. PICK o : o = Result(head, r) /\ o.value = head
  BY ResultFields
<1>4. o \in ReadSpan(s, n)
  <2>1. ReadSpan(s, n) = {Result(head, r)}
    BY <1>1, <1>2, <1>3 DEF ReadSpan, Got, Result
  <2> QED
    BY <1>8, <2>1
<1>9. SpanReads(s, n)
  BY <1>1, SpanRead
<1>5. PICK t \in Seq(Nat), q \in Seq(Nat) : o = Result(t, q) /\ s = t \o q /\ Len(t) = n
  BY <1>4, <1>9 DEF SpanReads
<1>6. head = t
  BY <1>5, <1>8, ResultFields
<1>7. q # <<>>
  BY <1>1, <1>5, ConcatEmptySeq
<1> QED
  BY <1>2, <1>5, <1>6, <1>7

LEMMA Refused ==
  ASSUME LengthsFit, SealingInv
  PROVE  DamageIsRefused
<1> SUFFICES ASSUME pc = "read", damage \in {"torn", "longer"}
             PROVE  read = {}
  BY DEF DamageIsRefused
<1>1. Saved(value) /\ value.kind # "list" /\ FileIs(value, file, damage)
  BY DEF SealingInv, ValueInv, FileInv, FileIs
<1>2. value \in AnyFile /\ Fits(value)
  BY <1>1 DEF Saved, SavedList, SavedFile
<1>3. Parsed(value.kind, file) = {}
  <2>1. CASE damage = "torn"
    <3>1. PICK n \in 0 .. Len(Serialized(value)) - 1 : file = SubSeq(Serialized(value), 1, n)
      BY <1>1, <2>1 DEF FileIs
    <3>2. PICK s \in Seq(Nat) : s = Serialized(value)
      BY <1>2, OnlyWholeFile
    <3>3. PICK tail \in Seq(Nat) : tail # <<>> /\ file \in Seq(Nat) /\ s = file \o tail
      BY <3>1, <3>2, CutAt
    <3> QED
      BY <1>2, <3>2, <3>3, OnlyWholeFile
  <2>2. CASE damage = "longer"
    <3>1. PICK end \in Strings(1, 2) : file = Serialized(value) \o end
      BY <1>1, <2>2 DEF FileIs
    <3>2. end \in Seq(Nat) /\ end # <<>>
      <4>1. 1 \in Nat /\ 2 \in Nat /\ 1 # 0
        OBVIOUS
      <4> QED
        BY <4>1, StringsType
    <3> QED
      BY <1>2, <3>1, <3>2, OnlyWholeFile
  <2> QED
    BY <2>1, <2>2
<1> QED
  BY <1>3 DEF SealingInv, ReadInv

LEMMA Loads ==
  ASSUME LengthsFit, FilesFit, SealingInv, pc \in {"read", "opened"}, damage = "none"
  PROVE  read = {value}
<1>1. Saved(value) /\ file = Serialized(value)
  BY DEF SealingInv, ValueInv, FileInv, FileIs
<1>2. PICK s : s = Serialized(value) /\ s \in Seq(Nat) /\ Len(s) <= MaxFileBytes
               /\ Parsed(value.kind, s) = {value}
  BY <1>1, SavedLoads
<1>3. ~ Len(s) > MaxFileBytes
  BY <1>2, Naturals, LenProperties
<1> QED
  BY <1>1, <1>2, <1>3 DEF SealingInv, ReadInv

LEMMA Injective ==
  ASSUME LengthsFit, SealingInv
  PROVE  AadIsInjective
<1> SUFFICES ASSUME pc = "save", NEW x \in Seals(value), NEW y \in Sealable, Aad(x) = Aad(y)
             PROVE  x = y
  BY DEF AadIsInjective
<1>1. Saved(value)
  BY DEF SealingInv, ValueInv
<1>2. x \in Sealable
  <2>1. CASE SavedList(value)
    <3>1. value.entries \in Seq(Entry) /\ value.kind = "list"
      BY <2>1, ListIsAny DEF SavedList
    <3>2. \A i \in DOMAIN value.entries : value.entries[i] \in Entry
      BY <3>1, ElementOfSeq
    <3>3. \A e \in Entry : e.id \in Strings(1, MaxString)
      BY DEF Entry
    <3> QED
      BY <3>1, <3>2, <3>3 DEF Seals, Sealable
  <2>2. CASE SavedFile(value)
    <3>1. value \in AnyFile /\ SaltFits(value)
      BY <2>2 DEF SavedFile
    <3>2. value.kind \in FileKinds
      BY <3>1, KindOf
    <3> QED
      BY <3>1, <3>2 DEF SaltFits, Seals, Sealable, FileKinds
  <2> QED
    BY <1>1, <2>1, <2>2 DEF Saved
<1>3. SealsOf(x) /\ SealsOf(y)
  BY <1>2, SealableType
<1> QED
  BY <1>3, AadOnce

\* What is opened is what the goal is due, and nothing of what is not its file.
OpenAs(v) ==
  CASE v.kind = "manifest" -> OpenManifest(v)
    [] v.kind = "object"   -> OpenObject(v)
    [] v.kind = "meta"     -> OpenMeta(v)

LEMMA OpensDue ==
  ASSUME LengthsFit, SealingInv, goal # NoGoal, pc # "seal"
  PROVE  /\ OpenAs(value) = Due
         /\ \A w \in AnyFile : w.kind = value.kind /\ w # value => OpenAs(w) = {}
<1>1. goal \in Goal /\ value.kind = goal.kind /\ NoneTwice(macs)
  BY SealedValue
<1>2. SealedFrom(goal, value, macs, other)
  BY DEF SealingInv, ValueInv
<1>3. CASE goal.kind = "manifest"
  <2>1. SealedManifest(goal, value, macs)
    BY <1>2, <1>3 DEF SealedFrom
  <2>2. /\ OpenManifest(value) = {goal}
        /\ \A w \in AnyManifest : w # value => OpenManifest(w) = {}
    BY <1>1, <1>3, <2>1, ManifestOpens
  <2>3. \A w : w.kind = "manifest" => OpenAs(w) = OpenManifest(w)
    BY DEF OpenAs
  <2>4. Due = {goal}
    BY <1>3 DEF Due
  <2> QED
    BY <1>1, <1>3, <2>2, <2>3, <2>4, KindOf
<1>4. CASE goal.kind = "object"
  <2>1. PICK o : SealedObject(goal, value, macs, o)
    BY <1>2, <1>4 DEF SealedFrom
  <2>2. /\ OpenObject(value) = IF Len(goal.content) = goal.entry.size THEN {goal} ELSE {}
        /\ \A w \in AnyObject : w # value => OpenObject(w) = {}
    BY <1>1, <1>4, <2>1, ObjectOpens
  <2>3. \A w : w.kind = "object" => OpenAs(w) = OpenObject(w)
    BY DEF OpenAs
  <2>4. Due = IF Len(goal.content) = goal.entry.size THEN {goal} ELSE {}
    BY <1>4 DEF Due
  <2> QED
    BY <1>1, <1>4, <2>2, <2>3, <2>4, KindOf
<1>5. CASE goal.kind = "meta"
  <2>1. SealedMeta(goal, value, macs)
    BY <1>2, <1>5 DEF SealedFrom
  <2>2. /\ OpenMeta(value) = IF goal.attempt = goal.password THEN {[master |-> MasterKey]} ELSE {}
        /\ \A w \in AnyMeta : w # value => OpenMeta(w) = {}
    BY <1>1, <1>5, <2>1, MetaOpens
  <2>3. \A w : w.kind = "meta" => OpenAs(w) = OpenMeta(w)
    BY DEF OpenAs
  <2>4. Due = IF goal.attempt = goal.password THEN {[master |-> MasterKey]} ELSE {}
    BY <1>5 DEF Due
  <2> QED
    BY <1>1, <1>5, <2>2, <2>3, <2>4, KindOf
<1> QED
  BY <1>2, <1>3, <1>4, <1>5 DEF SealedFrom

LEMMA OpenStep ==
  ASSUME LengthsFit, SealingInv, Open
  PROVE  /\ (FilesFit /\ damage = "none") => opened' = Due
         /\ damage # "none" => opened' = {}
<1>1. pc = "read" /\ goal # NoGoal /\ opened' = UNION {OpenAs(v) : v \in read}
  BY DEF Open, OpenAs
<1>2. /\ OpenAs(value) = Due
      /\ \A w \in AnyFile : w.kind = value.kind /\ w # value => OpenAs(w) = {}
  BY <1>1, OpensDue
<1>3. ASSUME FilesFit, damage = "none"
      PROVE  opened' = Due
  <2>1. read = {value}
    BY <1>1, <1>3, Loads
  <2> QED
    BY <1>1, <1>2, <2>1
<1>4. ASSUME damage \in {"torn", "longer"}
      PROVE  opened' = {}
  <2>1. read = {}
    BY <1>1, <1>4, Refused DEF DamageIsRefused
  <2> QED
    BY <1>1, <2>1
<1>5. ASSUME damage \in {"altered", "spliced"}
      PROVE  opened' = {}
  <2>1. file \in Seq(Nat) /\ file # Serialized(value)
    BY <1>1, <1>5 DEF SealingInv, FileInv, FileIs
  <2>2. value \in AnyFile /\ value.kind \in FileKinds
    BY <1>1, SealedValue
  <2>3. Fits(value)
    BY <1>1, <2>2 DEF SealingInv, ValueInv, Saved, SavedList, SavedFile, FileKinds
  <2>4. ASSUME NEW w \in read
        PROVE  OpenAs(w) = {}
    <3>1. w \in Parsed(value.kind, file)
      BY <1>1, <2>4 DEF SealingInv, ReadInv
    <3>2. w \in AnyFile /\ w.kind = value.kind /\ w # value
      BY <2>1, <2>2, <2>3, <3>1, NotTheValue
    <3> QED
      BY <1>2, <3>2
  <2> HIDE DEF OpenAs
  <2> QED
    BY <1>1, <2>4
<1> QED
  BY <1>3, <1>4, <1>5 DEF SealingInv, TypeInv

\* Once opened, nothing happens any more.
LEMMA Opened ==
  ASSUME LengthsFit, SealingInv, [SealingNext]_sealingVars, ~ Open, pc' = "opened"
  PROVE  UNCHANGED <<pc, damage, opened, goal>>
BY DEF SealingNext, sealingVars, SealManifest, SealObject, SealMeta, Save, Damage, Load, Alter, Splice,
       SealingInv, TypeInv

-----------------------------------------------------------------------------
\* A file that lost its end, or kept the end of another, is refused by the
\* parsers of src/src/vault.cpp, whatever was saved in it.
THEOREM EveryDamageRefused ==
  ASSUME Fitting
  PROVE  SealingSpec => []DamageIsRefused
<1>1. SealingInv => DamageIsRefused
  BY Refused DEF Fitting
<1> QED
  BY <1>1, SealingInvariant, PTL

\* Two blobs of different purposes, or of entries that differ in any field,
\* are sealed under different data.
THEOREM NoDataShared ==
  ASSUME Fitting
  PROVE  SealingSpec => []AadIsInjective
<1>1. SealingInv => AadIsInjective
  BY Injective DEF Fitting
<1> QED
  BY <1>1, SealingInvariant, PTL

\* What the program has saved it loads, and it gets the same value back, if
\* what it saves is no longer than what read_file admits.
THEOREM SavedIsLoaded ==
  ASSUME Fitting, FilesFit
  PROVE  SealingSpec => []LoadsWhatWasSaved
<1>1. SealingInv => LoadsWhatWasSaved
  BY Loads DEF Fitting, LoadsWhatWasSaved
<1> QED
  BY <1>1, SealingInvariant, PTL

\* A file that nobody touched opens to what was sealed in it, through every
\* level of the key hierarchy, and to nothing for a wrong password.
THEOREM SealedIsOpened ==
  ASSUME Fitting, FilesFit
  PROVE  SealingSpec => []OpensWhatWasSealed
<1>1. SealingInit => OpensWhatWasSealed
  BY DEF SealingInit, Init, OpensWhatWasSealed
<1>2. SealingInv /\ OpensWhatWasSealed /\ [SealingNext]_sealingVars => OpensWhatWasSealed'
  <2> SUFFICES ASSUME SealingInv, OpensWhatWasSealed, [SealingNext]_sealingVars,
                      pc' = "opened", damage' = "none"
               PROVE  opened' = Due'
    BY DEF OpensWhatWasSealed
  <2>1. CASE Open
    <3>1. UNCHANGED <<damage, goal>> /\ opened' = Due
      BY <2>1, OpenStep DEF Open, Fitting
    <3> QED
      BY <3>1 DEF Due
  <2>2. CASE ~ Open
    <3>1. UNCHANGED <<pc, damage, opened, goal>>
      BY <2>2, Opened DEF Fitting
    <3> QED
      BY <3>1 DEF OpensWhatWasSealed, Due
  <2> QED
    BY <2>1, <2>2
<1> QED
  BY <1>1, <1>2, SealingInvariant, PTL DEF SealingSpec

\* A file with any cell altered, cut, extended or put together from blobs of
\* another object opens to nothing.
THEOREM AlteredNeverOpens ==
  ASSUME Fitting
  PROVE  SealingSpec => []AlteredIsRefused
<1>1. SealingInit => AlteredIsRefused
  BY DEF SealingInit, Init, AlteredIsRefused
<1>2. SealingInv /\ AlteredIsRefused /\ [SealingNext]_sealingVars => AlteredIsRefused'
  <2> SUFFICES ASSUME SealingInv, AlteredIsRefused, [SealingNext]_sealingVars,
                      pc' = "opened", damage' # "none"
               PROVE  opened' = {}
    BY DEF AlteredIsRefused
  <2>1. CASE Open
    <3>1. UNCHANGED <<damage, goal>>
      BY <2>1 DEF Open
    <3> QED
      BY <2>1, <3>1, OpenStep DEF Fitting
  <2>2. CASE ~ Open
    <3>1. UNCHANGED <<pc, damage, opened, goal>>
      BY <2>2, Opened DEF Fitting
    <3> QED
      BY <3>1 DEF AlteredIsRefused
  <2> QED
    BY <2>1, <2>2
<1> QED
  BY <1>1, <1>2, SealingInvariant, PTL DEF SealingSpec
=============================================================================
