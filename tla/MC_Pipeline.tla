---------------------------- MODULE MC_Pipeline ----------------------------
(* Addresses of 2-bit octets.  a1 = 1.0.0.1 and a2 = 1.2.3.0 are both    *)
(* whitelisted by 1.0.0.0/2; a2 is blacklisted by 1.2.*.*.  The other      *)
(* entries cover every case of CheckIP's switch, well-formed or not.      *)
EXTENDS Pipeline, TLC

(* Symmetric request goroutines.                                          *)
ReqSymmetry == Permutations(Req)

MCIP == {<<1, 0, 0, 1>>, <<1, 2, 3, 0>>}

(* "2.2.2.2", "1.0.0.0/2", "3.0.0.0-3.0.0.2", "3.1.*.*"                    *)
MCWhitelist ==
  <<[kind |-> "ip", ip |-> <<2, 2, 2, 2>>],
    [kind |-> "cidr", ip |-> <<1, 0, 0, 0>>, len |-> 2],
    [kind |-> "range", from |-> <<3, 0, 0, 0>>, to |-> <<3, 0, 0, 2>>],
    [kind |-> "wild", pat |-> <<3, 1, Star, Star>>]>>

(* "1.2.3.*", "2.0.0.0/9", "2.0.1.1/5", "0.0.0.1-x", "*", "2.1.3.*", "x"  *)
(* The "*" entry blocks no one: WildcardMatch turns it into "0", which    *)
(* net.ParseIP refuses, though https.go:337 lists "*" among the forms.    *)
MCBlacklist ==
  <<[kind |-> "wild", pat |-> <<1, 2, 3, Star>>],
    [kind |-> "cidr", ip |-> <<2, 0, 0, 0>>, len |-> 9],
    [kind |-> "cidr", ip |-> <<2, 0, 1, 1>>, len |-> 5],
    [kind |-> "range", from |-> <<0, 0, 0, 1>>, to |-> NilIP],
    [kind |-> "wild", pat |-> <<Star>>],
    [kind |-> "wild", pat |-> <<2, 1, 3, Star>>],
    [kind |-> "ip", ip |-> NilIP]>>

(* Three modules passed to RegisterRoute in this order.  "Ab" v1 has a    *)
(* GET with a string argument and a GET whose first parameter is not the  *)
(* Context.  "ab" v1 has the same key once lowered, and replaces it: a     *)
(* DELETE with an int argument, a method whose name begins with "Do" only *)
(* by its spelling, a GET with a bool argument, and a helper analyze       *)
(* skips.  "cd" v1 declares "note" twice, for POST.                        *)
MCModules ==
  <<[id |-> <<"A","b">>, version |-> <<"v","1">>, service |-> TRUE,
     methods |-> <<[name |-> <<"D","o","E","c","h","o">>, in |-> <<"ctx", "string">>, outs |-> TRUE],
                   [name |-> <<"G","e","t","I","t","e","m">>, in |-> <<"string">>, outs |-> TRUE]>>],
    [id |-> <<"a","b">>, version |-> <<"v","1">>, service |-> TRUE,
     methods |-> <<[name |-> <<"D","e","l","e","t","e","I","t","e","m">>, in |-> <<"ctx", "int">>, outs |-> TRUE],
                   [name |-> <<"D","o","w","n","l","o","a","d">>, in |-> <<"ctx">>, outs |-> TRUE],
                   [name |-> <<"G","e","t","I","t","e","m">>, in |-> <<"ctx", "bool">>, outs |-> TRUE],
                   [name |-> <<"H","e","l","p">>, in |-> <<>>, outs |-> FALSE]>>],
    [id |-> <<"c","d">>, version |-> <<"v","1">>, service |-> TRUE,
     methods |-> <<[name |-> <<"A","d","d","N","o","t","e">>, in |-> <<"ctx">>, outs |-> TRUE],
                   [name |-> <<"C","r","e","a","t","e","N","o","t","e">>, in |-> <<"ctx">>, outs |-> TRUE]>>]>>

AB == <<"a","b">>
V1 == <<"v","1">>
Item == <<"i","t","e","m">>

(* GET /ab/v1/item/true, GET /ab/v1/item/True, GET /ab/v1/item,           *)
(* DELETE /ab/v1/item/7, OPTIONS /ab/v1/item asking for GET,               *)
(* GET /ab/v1/echo/hi, GET /Ab/v1/echo/hi, GET /ab/v1/download.            *)
MCRequests ==
  {[meth |-> "GET", parts |-> <<<<>>, AB, V1, Item, <<"t","r","u","e">>>>, acrm |-> ""],
   [meth |-> "GET", parts |-> <<<<>>, AB, V1, Item, <<"T","r","u","e">>>>, acrm |-> ""],
   [meth |-> "GET", parts |-> <<<<>>, AB, V1, Item>>, acrm |-> ""],
   [meth |-> "DELETE", parts |-> <<<<>>, AB, V1, Item, <<"7">>>>, acrm |-> ""],
   [meth |-> "OPTIONS", parts |-> <<<<>>, AB, V1, Item>>, acrm |-> "GET"],
   [meth |-> "GET", parts |-> <<<<>>, AB, V1, <<"e","c","h","o">>, <<"h","i">>>>, acrm |-> ""],
   [meth |-> "GET", parts |-> <<<<>>, <<"A","b">>, V1, <<"e","c","h","o">>, <<"h","i">>>>, acrm |-> ""],
   [meth |-> "GET", parts |-> <<<<>>, AB, V1, <<"d","o","w","n","l","o","a","d">>>>, acrm |-> ""]}
=============================================================================
