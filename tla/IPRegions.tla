----------------------------- MODULE IPRegions -----------------------------
(* The country of an address (netutils/ipregion.go): InitFromFile loads a    *)
(* table of ranges of addresses, sorted as in its file, and a table of       *)
(* countries by their codes; GetIPCountryName searches the one and then the  *)
(* other.  An address is a sequence of words of four bytes.                  *)
EXTENDS Integers, Sequences

CONSTANTS
  Tables,     \* the tables of ranges that files hold
  Countries,  \* the lines of the file of countries
  Codes,      \* codes in lower and upper case ...
  Lower,      \* ... and their lower case
  Addresses   \* what users ask for

Ip2int(ip) == ip[Len(ip)]

ASSUME IPRegionsAssumption ==
  /\ \A t \in Tables :
       /\ t \in Seq([from : Nat, to : Nat, code : Codes])
       /\ \A i \in DOMAIN t : t[i].from <= t[i].to
       /\ \A i, j \in DOMAIN t : i < j => t[i].to < t[j].from
  /\ Countries \in Seq([code : Codes])
  /\ Lower \in [Codes -> Codes]
  /\ \A ip \in Addresses : Ip2int(ip) \in Nat

VARIABLES
  infos,   \* countryIPInfos
  lines,   \* how many lines of Countries have been loaded
  infosAA, \* countryInfosAA: the line of the country with a code, 0 for none
  phase,   \* "idle", "search" or "done"
  intip,   \* the address looked up
  lo, hi,  \* i and j of sort.Search
  found,   \* the range, by its number, 0 for none ...
  country  \* ... and the line of its country, 0 for "unknown"

ipVars == <<infos, lines, infosAA, phase, intip, lo, hi, found, country>>

IPTypeOK ==
  /\ infos \in Tables \cup {<<>>} /\ lines \in 0..Len(Countries)
  /\ infosAA \in [Codes -> 0..Len(Countries)]
  /\ phase \in {"idle", "search", "done"} /\ intip \in Nat
  /\ lo \in 0..Len(infos) /\ hi \in 0..Len(infos)
  /\ found \in 0..Len(infos) /\ country \in 0..Len(Countries)

IPInit ==
  /\ infos = <<>> /\ lines = Len(Countries) /\ infosAA = [c \in Codes |-> 0]
  /\ phase = "idle" /\ intip = 0 /\ lo = 0 /\ hi = 0 /\ found = 0 /\ country = 0

\* InitFromFile, when no search is under way: the ranges, and an empty table
\* of countries.
LoadRanges(t) ==
  /\ lines = Len(Countries) /\ phase # "search"
  /\ infos' = t /\ lines' = 0 /\ infosAA' = [c \in Codes |-> 0]
  /\ phase' = "idle" /\ lo' = 0 /\ hi' = 0 /\ found' = 0 /\ country' = 0
  /\ UNCHANGED intip

\* Mutant: the case of the code is kept.
LoadCountryAsWritten ==
  /\ lines < Len(Countries)
  /\ lines' = lines + 1
  /\ infosAA' = [infosAA EXCEPT ![Countries[lines + 1].code] = lines + 1]
  /\ UNCHANGED <<infos, phase, intip, lo, hi, found, country>>

\* One turn of its loop: upper and lower case are the same.
LoadCountry ==
  /\ lines < Len(Countries)
  /\ lines' = lines + 1
  /\ infosAA' = [infosAA EXCEPT ![Lower[Countries[lines + 1].code]] = lines + 1]
  /\ UNCHANGED <<infos, phase, intip, lo, hi, found, country>>

GetIPCountryName(ip) ==
  /\ lines = Len(Countries) /\ phase # "search"
  /\ phase' = "search" /\ intip' = Ip2int(ip)
  /\ lo' = 0 /\ hi' = Len(infos) /\ found' = 0 /\ country' = 0
  /\ UNCHANGED <<infos, lines, infosAA>>

\* Mutant: the end of a range does not count.
RangeReachesFrom(info) == info.from >= intip

\* The condition of the search: the range begins or ends at intip or later.
RangeReaches(info) == info.from >= intip \/ info.to >= intip

\* One turn of sort.Search.
SearchStep ==
  /\ phase = "search" /\ lo < hi
  /\ LET h == (lo + hi) \div 2
     IN  IF RangeReaches(infos[h + 1]) THEN hi' = h /\ lo' = lo ELSE lo' = h + 1 /\ hi' = hi
  /\ UNCHANGED <<infos, lines, infosAA, phase, intip, found, country>>

\* After the search: the range that it ended at is the one if it holds the
\* address, and its codes name the country.
SearchEnd ==
  /\ phase = "search" /\ lo >= hi
  /\ phase' = "done"
  /\ IF lo = Len(infos) \/ infos[lo + 1].from > intip \/ infos[lo + 1].to < intip
     THEN UNCHANGED <<found, country>>
     ELSE found' = lo + 1 /\ country' = infosAA[Lower[infos[lo + 1].code]]
  /\ UNCHANGED <<infos, lines, infosAA, intip, lo, hi>>

IPNext ==
  \/ \E t \in Tables : LoadRanges(t)
  \/ LoadCountry
  \/ \E ip \in Addresses : GetIPCountryName(ip)
  \/ SearchStep \/ SearchEnd

IPSpec == IPInit /\ [][IPNext]_ipVars
-----------------------------------------------------------------------------
\* The binary search finds the range that holds the address, if there is one,
\* in any table of disjoint ranges in order ...
LookupFinds ==
  phase = "done" => \A i \in DOMAIN infos : infos[i].from <= intip /\ intip <= infos[i].to <=> found = i

\* ... and the country is the last one listed with the codes of the range, in
\* lower or upper case, or unknown if there is none.
CountryFound ==
  phase = "done" /\ found # 0 =>
    LET listed == {i \in DOMAIN Countries : Lower[Countries[i].code] = Lower[infos[found].code]}
    IN  IF listed = {} THEN country = 0 ELSE country \in listed /\ \A i \in listed : i <= country

\* GetIPCountryName finds the range of an address and the country of the range.
AddressFound == LookupFinds /\ CountryFound
=============================================================================
