SPECIFICATION Spec
CONSTANTS
  None = None
  Threads = {t1, t2}
  Sftps = {s}
  Codes = {"SFTP_PROTOCOL", "EAGAIN", "SOCKET_SEND"}
  MaxCalls = 2
  Used = {"open_session", "userauth_password", "read", "flush", "exit_status", "forward_listen"}
INVARIANT FailureReturned
CHECK_DEADLOCK FALSE
