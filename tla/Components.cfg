\* Deposit addresses.
CONSTANT Askers <- Asker
CONSTANT User <- MCUser
CONSTANT Asset <- MCAsset
CONSTANT Process <- MCProcess
CONSTANT ChainOf <- MCChainOf
CONSTANT AccountOf <- MCAccountOf
CONSTANT WalletFaults = 1
\* Scanner.
CONSTANT MaxHeight = 4
CONSTANT Payments = {2, 3}
CONSTANT Valued = {3}
CONSTANT MonitorRestarts = 1
\* Event buses.
CONSTANT MaxEvents = 3
CONSTANT Undecodable = {2}
CONSTANT Buffer = 2
CONSTANT ConsumerRestarts = 2
\* The clock; rate limiter, circuit breaker, withdrawal limits, signing.
CONSTANT MaxTime = 4
CONSTANT Servers = {1, 2}
CONSTANT Rate = 1
CONSTANT TTL = 2
CONSTANT Quotes = {0, 9, 10, 20, 21}
CONSTANT HaltDuration = 2
CONSTANT Withdrawers = {1, 2}
CONSTANT Asked = {1, 2, 4}
CONSTANT MinAmount = 2
CONSTANT MaxSingle = 3
CONSTANT MaxDaily = 4
CONSTANT Day = 2
CONSTANT Signings = {1}
CONSTANT Signers = {0, 1}
CONSTANT Thresholds = {0, 2}
CONSTANT SigningLifetime = 1
\* Decimals and margin.
CONSTANT Places = 2
CONSTANT Texts <- MCTexts
CONSTANT Factors <- MCFactors
CONSTANT Largest = 300
CONSTANT Symbols = {1, 2}
CONSTANT Prices = {150, 200, 187}
CONSTANT Quantities = {1, 100}
CONSTANT Leverages = {0, 10, 125}
CONSTANT Ratio = 5
CONSTANT MaxPositions = 2
\* Market data.
CONSTANT Recorders = {1, 2}
CONSTANT MaxTrades = 4
CONSTANT Kept = 2
CONSTANT Limits <- MCLimits
\* KYC and access.
CONSTANT Applicants = {1}
CONSTANT Registrants = {"r1", "r2"}
CONSTANT EmailOf <- MCEmailOf
CONSTANT TokenLifetime = 1
CONSTANT MaxClock = 1
CONSTANT MaxLogins = 1
CONSTANT Members = {"m"}
CONSTANT Connections = {"c"}
CONSTANT Ops = {"PlaceOrder", "CancelOrder", "GetOrder", "GetOpenOrders", "GetTicker", "Withdraw"}
CONSTANT MaxOrders = 1

SPECIFICATION Spec
CHECK_DEADLOCK FALSE

INVARIANT AnsweredIsStored
INVARIANT ScanFaithful
INVARIANT DeliveryKept
INVARIANT BurstBound
INVARIANT DayBound
INVARIANT ReadyIsSigned
INVARIANT TradesRecent
INVARIANT AccessSound
PROPERTY RetrySucceeds
PROPERTY HandledEventually
PROPERTY AmountsKept
PROPERTY AcceptedMoves
PROPERTY PositionsKept
