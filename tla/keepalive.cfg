SPECIFICATION KeepAliveSpec
CONSTANTS
  PingInterval = 3
  MaxNoData = 9
  RoundTrip = 5
  Off = Off
INVARIANTS
  HeardClientIsNotSilentForLong
PROPERTIES
  ResponsiveClientIsKept
