\* One logout: who closes the connection after it?
CONSTANTS
  MaxRequests = 1
  MaxChats = 0
SPECIFICATION ClientSpec
PROPERTY LogoutClosesConnection
CHECK_DEADLOCK FALSE
