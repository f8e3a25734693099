------------------------------- MODULE Providers -------------------------------
(***************************************************************************)
(* One call of a balance or price provider (internal/provider): what its    *)
(* callers make of the reply. A provider keeps no state; its HTTP client    *)
(* has no timeout, so only the caller's context ends a call early. Amounts  *)
(* are left out, except that a token balance may be zero.                   *)
(***************************************************************************)

(* What comes back: no response, one whose body breaks off, one with        *)
(* another status than 200, a body that cannot be parsed, one that reports  *)
(* an error, one without the value asked for, and the value.                *)
Replies == {"none", "cutOff", "status", "garbled", "error", "empty", "value"}

(* Of a call whose context has ended client.Do fails, or the body breaks    *)
(* off if its header had been read.                                         *)
Possible(ended) == IF ended THEN {"none", "cutOff"} ELSE Replies

(* Variant: every error of client.Do is taken for the end of the context.   *)
DoFailedAlwaysTimeout(ended) == "timeout"

DoFailed(ended) == IF ended THEN "timeout" ELSE "unavailable"

(* "timeout" is ErrUpstreamTimeout, "unavailable" ErrProviderUnavailable;   *)
(* an error that wraps neither is "untyped". A body that breaks off is      *)
(* untyped even when the context's end is the cause.                        *)
Fetch(reply, ended, reported, absent) ==
    CASE reply = "none"                  -> DoFailed(ended)
      [] reply = "status"                -> "unavailable"
      [] reply \in {"cutOff", "garbled"} -> "untyped"
      [] reply = "error"                 -> reported
      [] reply = "empty"                 -> absent
      [] reply = "value"                 -> "ok"

(* A node that reports an error, or returns no number.                      *)
EthereumBalance(reply, ended) == Fetch(reply, ended, "untyped", "untyped")

(* JSON without an account is a balance of zero.                            *)
KleverBalance(reply, ended) == Fetch(reply, ended, "unavailable", "ok")

(* The provider the registry has for the network.                           *)
GetBalance(network, reply, ended) ==
    IF network = "ethereum" THEN EthereumBalance(reply, ended)
    ELSE KleverBalance(reply, ended)

(* An empty result of balanceOf reads as zero.                              *)
GetTokenBalance(reply, ended) == Fetch(reply, ended, "untyped", "zero")

(* The assets both price providers know.                                    *)
PricedAssets == {"ETH", "KLV", "BTC"}

Asset(network) == IF network = "ethereum" THEN "ETH" ELSE "KLV"

CoinGeckoPriceUSD(asset, reply, ended) ==
    IF asset \in PricedAssets THEN Fetch(reply, ended, "untyped", "untyped")
    ELSE "unsupported"

(* The mock asks nobody.                                                    *)
MockPriceUSD(asset) == IF asset \in PricedAssets THEN "ok" ELSE "unsupported"

GetPriceUSD(provider, asset, reply, ended) ==
    IF provider = "Mock" THEN MockPriceUSD(asset)
    ELSE CoinGeckoPriceUSD(asset, reply, ended)
=============================================================================
