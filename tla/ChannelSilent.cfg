CONSTANTS
  Kinds = {"dingtalk"}
  Attempts = 3
SPECIFICATION DeliverySpec
PROPERTY TestedIsDelivered
