-------------------------------- MODULE Config --------------------------------
(***************************************************************************)
(* internal/config/config.go: what Load makes of the environment, and what  *)
(* the constructors of the processes require of it, which panic or refuse   *)
(* otherwise. The environment gives each variable a value or Unset, which   *)
(* is also what os.Getenv returns for an empty one. A number or a duration  *)
(* is the number it denotes, or Malformed; a list is the set of its         *)
(* entries, a blank one included, as nothing depends on their order; of the *)
(* signing key only the length counts.                                      *)
(***************************************************************************)
EXTENDS Integers

CONSTANTS Unset,      \* an environment variable that is not set, or empty
          Malformed,  \* a text that is no number
          BlankEntry, \* an entry of a list that is nothing but white space
          Text,       \* any text that was configured
          Default,    \* the text the code falls back to
          KeyLengths, \* of signing keys
          Numbers,    \* that may be configured
          BrokerLists

ASSUME ConfigAssumption ==
    /\ {Text, Default} \cap {Unset, BlankEntry} = {}
    /\ KeyLengths \subseteq Nat /\ Numbers \subseteq Int
    /\ \A list \in BrokerLists : list \subseteq {Text, BlankEntry}

(* What an operator may have put into the environment.                      *)
Environments ==
    [DATABASE_URL : {Unset, Text}, ETH_RPC_URL : {Unset, Text},
     KLEVER_API_BASE_URL : {Unset, Text}, RABBITMQ_URL : {Unset, Text},
     COINGECKO_DEMO_API_KEY : {Unset, Text},
     JWT_SIGNING_KEY : {Unset} \cup KeyLengths,
     WATCHER_POLL_INTERVAL : {Unset, Malformed} \cup Numbers,
     SNAPSHOT_WORKERS : {Unset, Malformed} \cup Numbers,
     KAFKA_BROKERS : {Unset} \cup BrokerLists]

getEnv(val, fallback) == IF val = Unset THEN fallback ELSE val

(* parseInt, parseUint64 and parseDuration.                                 *)
parseNumber(val, fallback) ==
    IF val \in {Unset, Malformed} THEN fallback ELSE val

(* BlankEntry entries are dropped, and a list of nothing else is no list.        *)
parseCSV(val, fallback) ==
    IF val = Unset THEN fallback
    ELSE LET out == val \ {BlankEntry}
         IN  IF out = {} THEN fallback ELSE out

Load(env) ==
    [DatabaseURL       |-> getEnv(env.DATABASE_URL, Default),
     EthRPCURL         |-> getEnv(env.ETH_RPC_URL, Default),
     KleverBaseURL     |-> getEnv(env.KLEVER_API_BASE_URL, Default),
     RabbitMQURL       |-> getEnv(env.RABBITMQ_URL, Default),
     CoinGeckoAPIKey   |-> env.COINGECKO_DEMO_API_KEY,
     JWTSigningKey     |-> IF env.JWT_SIGNING_KEY = Unset THEN 0
                           ELSE env.JWT_SIGNING_KEY,
     PollInterval      |-> parseNumber(env.WATCHER_POLL_INTERVAL, 15),
     SnapshotWorkers   |-> parseNumber(env.SNAPSHOT_WORKERS, 3),
     KafkaBrokers      |-> parseCSV(env.KAFKA_BROKERS, {Default})]

(* Load's own check.                                                        *)
Loaded(cfg) == cfg.DatabaseURL # Unset

-----------------------------------------------------------------------------
(* Whether the constructors accept a configuration; they panic, or return   *)
(* an error that is fatal, when they do not.                                *)

KeyBytes == 32

(* Variant: only a key that is missing is replaced.                         *)
SigningKeyIfMissing(cfg) ==
    IF cfg.JWTSigningKey = 0 THEN KeyBytes ELSE cfg.JWTSigningKey

(* main replaces a key that is missing or too short by the one for          *)
(* development, of 32 bytes.                                                *)
SigningKey(cfg) ==
    IF cfg.JWTSigningKey < KeyBytes THEN KeyBytes ELSE cfg.JWTSigningKey

NewTokenIssuer(cfg)   == SigningKey(cfg) >= KeyBytes
NewTokenVerifier(cfg) == SigningKey(cfg) >= KeyBytes

(* The price provider main chooses: CoinGecko with a key, or the mock.      *)
PriceProvider(cfg) ==
    IF cfg.CoinGeckoAPIKey # Unset THEN "CoinGecko" ELSE "Mock"

NewEthereumProvider(cfg) == cfg.EthRPCURL # Unset
NewKleverProvider(cfg)   == cfg.KleverBaseURL # Unset

NewCoinGeckoPriceProvider(cfg) == cfg.CoinGeckoAPIKey # Unset

(* Of the API's own constructors these look at the configuration.           *)
ApiAccepts(cfg) ==
    /\ NewEthereumProvider(cfg) /\ NewKleverProvider(cfg)
    /\ PriceProvider(cfg) = "CoinGecko" => NewCoinGeckoPriceProvider(cfg)
    /\ NewTokenIssuer(cfg) /\ NewTokenVerifier(cfg)

(* The watcher's and the snapshot job's.                                    *)
NewEthereumLogsFetcher(cfg)   == cfg.EthRPCURL # Unset
NewEthereumTokenProvider(cfg) == cfg.EthRPCURL # Unset

NewKafkaPublisher(cfg)  == cfg.KafkaBrokers # {}
NewKafkaConsumer(cfg)   == cfg.KafkaBrokers # {}

(* Kafka's clients would dial a blank address for ever.                     *)
Dialable(cfg) == BlankEntry \notin cfg.KafkaBrokers

NewRabbitPublisher(cfg) == cfg.RabbitMQURL # Unset
NewRabbitConsumer(cfg)  == cfg.RabbitMQURL # Unset

(* The workers NewRunner starts.                                            *)
NumWorkers(cfg) == IF cfg.SnapshotWorkers <= 0 THEN 3 ELSE cfg.SnapshotWorkers

WorkersAccept(cfg) ==
    /\ NewEthereumLogsFetcher(cfg) /\ NewEthereumTokenProvider(cfg)
    /\ NewKafkaPublisher(cfg) /\ NewKafkaConsumer(cfg) /\ Dialable(cfg)
    /\ NewRabbitPublisher(cfg) /\ NewRabbitConsumer(cfg)
    /\ NumWorkers(cfg) > 0

(* time.NewTicker, which the watcher starts, panics on any other interval.  *)
PollerAccepts(cfg) == cfg.PollInterval > 0
=============================================================================
