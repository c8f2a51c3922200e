SPECIFICATION FairSpec
CONSTANTS
  s1 = s1
  s2 = s2
  b1 = b1
  b2 = b2
  Senders = {s1, s2}
  Wavering = {s2}
  Patient = {s1}
  QueueSize = 3
  Mailboxes = {b1, b2}
  Limit = 2
  Preempt = FALSE
INVARIANTS TicketLeadsToRequest MbxAccountedFor ReportedIsSent
PROPERTIES NoOvertaking SentInTheEnd
