------------------------------ MODULE IPCheck -------------------------------
(***************************************************************************)
(* security.CheckIP (server/security/ipcheck.go) and the matchers it      *)
(* calls in utils/net/network.go: CIDRMatch, BetweenMatch, IPBetween and   *)
(* WildcardMatch.  The pre-security middleware runs CheckIP on the client *)
(* address against the Whitelist and Blacklist settings.                   *)
(*                                                                         *)
(* An IPv4 address is its four octets, each of OctBits bits (8 in Go);    *)
(* NilIP is what net.ParseIP returns for a string that is not an address. *)
(* A list entry is the text CheckIP tells apart:                           *)
(*   [kind |-> "cidr",  ip, len]   "a.b.c.d/len"                           *)
(*   [kind |-> "range", from, to]  any text with a "-", split around it    *)
(*   [kind |-> "wild",  pat]       any other text with a "*", its parts    *)
(*                                 between dots, Star for a "*" part       *)
(*   [kind |-> "ip",    ip]        anything else                            *)
(***************************************************************************)
EXTENDS Integers, Sequences, Bitwise

CONSTANTS
  OctBits,  \* bits of an octet, scaled
  NilIP,    \* net.ParseIP failed
  Star      \* a "*" part of a wildcard pattern

MaxOct == 2^OctBits - 1
Oct == 0..MaxOct
Addr == [1..4 -> Oct]
AddrBits == 4 * OctBits

(* The mask of octet i in a /len network mask.                              *)
MaskOct(len, i) ==
  LET ones == IF len <= (i - 1) * OctBits THEN 0
              ELSE IF len >= i * OctBits THEN OctBits
              ELSE len - (i - 1) * OctBits
  IN (2^ones - 1) * 2^(OctBits - ones)

(* net.ParseCIDR succeeds.                                                  *)
ParseCIDROk(e) == e.ip # NilIP /\ e.len \in 0..AddrBits

(* CIDRMatch: ParseCIDR, then IPNet.Contains, octet by octet under the    *)
(* mask (ParseCIDR has masked the network address).                        *)
CIDRMatch(u, e) ==
  ParseCIDROk(e) /\ \A i \in 1..4 : (u[i] & MaskOct(e.len, i)) = (e.ip[i] & MaskOct(e.len, i))

(* bytes.Compare of the 16-byte forms: the first octet that differs.      *)
BytesCompare(a, b) ==
  LET d == SelectSeq([i \in 1..4 |-> IF a[i] > b[i] THEN 1 ELSE IF a[i] < b[i] THEN -1 ELSE 0],
                     LAMBDA x : x # 0)
  IN IF d = <<>> THEN 0 ELSE Head(d)

(* IPBetween: false when an address is nil, else from <= u <= to.          *)
IPBetween(from, to, u) ==
  /\ from # NilIP /\ to # NilIP /\ u # NilIP
  /\ BytesCompare(u, from) >= 0 /\ BytesCompare(u, to) <= 0

(* BetweenMatch: the entry's text, blanks removed, split at "-", both      *)
(* halves parsed with net.ParseIP.                                         *)
BetweenMatch(u, e) == IPBetween(e.from, e.to, u)

(* WildcardMatch: "*" -> "0" must parse as an IPv4 address; then the      *)
(* range from it to the pattern with "*" -> "255".                          *)
WildcardMatch(u, pat) ==
  /\ Len(pat) = 4
  /\ IPBetween([i \in 1..4 |-> IF pat[i] = Star THEN 0 ELSE pat[i]],
               [i \in 1..4 |-> IF pat[i] = Star THEN MaxOct ELSE pat[i]], u)

(* One entry of CheckIP's loop, by the switch on the entry's text.  A     *)
(* "cidr" text that ParseCIDR refuses falls to the default case, where    *)
(* net.ParseIP of it is nil and bytes.Equal is false.                      *)
EntryMatch(u, e) ==
  CASE e.kind = "cidr"  -> CIDRMatch(u, e)
    [] e.kind = "range" -> BetweenMatch(u, e)
    [] e.kind = "wild"  -> WildcardMatch(u, e.pat)
    [] e.kind = "ip"    -> e.ip # NilIP /\ e.ip = u

(* CheckIP: a client address that does not parse is never in a list.     *)
CheckIP(u, list) == u # NilIP /\ \E j \in 1..Len(list) : EntryMatch(u, list[j])

=============================================================================
